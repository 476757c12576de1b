------------------------------ MODULE Targets -------------------------------
(***************************************************************************)
(* CheckTarget (checker/types.go): the key String makes of a target.        *)
(* A target is built up and changed field by field.                        *)
(* Identifiers are opaque strings, and what String does is glue them       *)
(* together, so they are sequences of characters here.                     *)
(***************************************************************************)
EXTENDS Integers, Sequences

CONSTANTS
  IdCharacters,
  Ids,          \* the identifiers in use, the empty one included
  ServiceTypes

ASSUME SlashIsOne == "/" \in IdCharacters
ASSUME IdsAreStrings == Ids \subseteq Seq(IdCharacters) /\ <<>> \in Ids

Targets == [UserId : Ids, DomainId : Ids, ServiceId : Ids, ServiceType : ServiceTypes]

VARIABLE target

TargetInit == target \in [UserId : {<<>>}, DomainId : {<<>>}, ServiceId : {<<>>},
                    ServiceType : ServiceTypes]

-----------------------------------------------------------------------------
Slash == <<"/">>

\* Mutant: empty identifiers are left out with their slash.
StringCompact(t) ==
  LET part(i) == IF i = <<>> THEN <<>> ELSE Slash \o i
  IN part(t.UserId) \o part(t.DomainId) \o part(t.ServiceId)

\* t.UserId + "/" + t.DomainId + "/" + t.ServiceId
String(t) == t.UserId \o (Slash \o (t.DomainId \o (Slash \o t.ServiceId)))

-----------------------------------------------------------------------------
SetUser == \E i \in Ids : target' = [target EXCEPT !.UserId = i]
SetDomain == \E i \in Ids : target' = [target EXCEPT !.DomainId = i]
SetService ==
  \E i \in Ids, y \in ServiceTypes :
    target' = [target EXCEPT !.ServiceId = i, !.ServiceType = y]

TargetNext == SetUser \/ SetDomain \/ SetService

TargetSpec == TargetInit /\ [][TargetNext]_target

-----------------------------------------------------------------------------
(* Properties.                                                              *)

Plain(t) ==
  \A s \in {t.UserId, t.DomainId, t.ServiceId} : \A n \in 1..Len(s) : s[n] # "/"

\* As long as no identifier contains a slash, targets of one service type have
\* one key each, empty fields or not.
Unambiguous ==
  \A u \in Targets :
    Plain(target) /\ Plain(u) /\ String(u) = String(target)
      /\ u.ServiceType = target.ServiceType => u = target

\* What the comment of String says: different targets never produce the same
\* string.
AlwaysUnambiguous ==
  \A u \in Targets : u # target => String(u) # String(target)
=============================================================================
