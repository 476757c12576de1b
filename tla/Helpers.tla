------------------------------ MODULE Helpers -------------------------------
(***************************************************************************)
(* The parts of the packages that share no state with anything else, side  *)
(* by side: the form of /check, the load averages, domain names, options,  *)
(* the health probe and targets.  A behaviour is about one of them and     *)
(* leaves the others as they are, so that together they cost the sum of    *)
(* what each does.                                                         *)
(***************************************************************************)
EXTENDS CheckForm, Healthcheck, LoadAverage, Names, Options, Targets

VARIABLE subject      \* the part a behaviour is about

Subjects == {"form", "load", "name", "option", "probe", "target"}

\* What the others are doing meanwhile.
FormRests == field = (CHOOSE f \in Fields : TRUE)
NameRests == origin = <<>> /\ given = <<>>
OptionRests == set = Missing
ProbeRests == addr = Empty /\ server = "down"
TargetRests == target = (CHOOSE t \in Targets : {t.UserId, t.DomainId, t.ServiceId} = {<<>>})

Init ==
  /\ subject \in Subjects
  /\ IF subject = "form" THEN FormInit ELSE FormRests /\ FormInit
  /\ LoadInit
  /\ IF subject = "name" THEN NameInit ELSE NameRests /\ NameInit
  /\ IF subject = "option" THEN OptionInit ELSE OptionRests /\ OptionInit
  /\ IF subject = "probe" THEN ProbeInit ELSE ProbeRests /\ ProbeInit
  /\ IF subject = "target" THEN TargetInit ELSE TargetRests /\ TargetInit

Only(s) ==
  /\ subject = s
  /\ UNCHANGED subject
  /\ s # "form" => UNCHANGED formVars
  /\ s # "load" => UNCHANGED loadVars
  /\ s # "name" => UNCHANGED nameVars
  /\ s # "option" => UNCHANGED optionVars
  /\ s # "probe" => UNCHANGED probeVars
  /\ s # "target" => UNCHANGED target

Next ==
  \/ Only("form") /\ FormNext
  \/ Only("load") /\ LoadNext
  \/ Only("name") /\ NameNext
  \/ Only("option") /\ OptionNext
  \/ Only("probe") /\ ProbeNext
  \/ Only("target") /\ TargetNext

allVars == <<subject, formVars, loadVars, nameVars, optionVars, probeVars, target>>

Spec == Init /\ [][Next]_allVars
=============================================================================
