----------------------------- MODULE CheckForm ------------------------------
(***************************************************************************)
(* The form of GET and POST /check (checker/server/interactive.go): which  *)
(* control the template gives a field, what the control holds, and what a  *)
(* human who goes back and forth between the form and the checker's        *)
(* ParseForm ends up submitting.  The server keeps nothing between two     *)
(* requests: a form that is refused is rendered anew.  The browser, and    *)
(* what HTML says of its controls, are external.                           *)
(***************************************************************************)
EXTENDS Integers, Sequences

CONSTANT MaxTries     \* bound: forms refused before one is accepted

VARIABLES
  field,      \* the CheckerOptionField of the form that is looked at
  shown,      \* the control on the screen: its kind and the value it holds
  touched,    \* has the human changed it since the form was rendered?
  tries,      \* forms refused
  submitted,  \* the value POST /check was sent last
  page        \* what the browser shows: the form or a result

formVars == <<field, shown, touched, tries, submitted, page>>

\* A form value; Unsent is that of a control that is not sent at all, which
\* FormValue reads as an empty one.
Unsent == "unsent"
FormValue(v) == IF v = Unsent THEN "" ELSE v

\* Defaults: nil, a Go bool, a number, or a string; text is what fmt prints.
Nil == [kind |-> "nil", text |-> "<nil>"]
Defaults ==
  {Nil} \cup [kind : {"bool"}, text : {"true", "false"}]
        \cup [kind : {"number"}, text : {"5"}]
        \cup [kind : {"string"}, text : {"", "a", "b", "5", "true", "false"}]

Numeric == {"5"}      \* the texts above that a number input accepts

Fields ==
  [type : {"bool", "number", "uint", "string"},
   default : Defaults,
   choices : {<<>>, <<"a", "b">>, <<"", "a">>, <<"true", "false">>},
   textarea : BOOLEAN, secret : BOOLEAN, hide : BOOLEAN]

-----------------------------------------------------------------------------
(* Rendering.                                                               *)

\* Mutant: every bool is left out when it is false, strings included.
defaultStringTruthy(d) ==
  CASE d.kind = "nil" -> ""
    [] d.kind # "nil" /\ d.text \in {"true", "false"} -> IF d.text = "true" THEN "true" ELSE ""
    [] OTHER -> d.text

defaultString(d) ==
  CASE d.kind = "nil" -> ""
    [] d.kind = "string" -> d.text
    [] d.kind = "bool" -> IF d.text = "true" THEN "true" ELSE ""
    [] OTHER -> d.text

defaultBool(d) == d.kind = "bool" /\ d.text = "true"

\* The branches of the template, the first that applies.
Control(f) ==
  IF f.hide THEN "none"
  ELSE IF f.choices # <<>> THEN "select"
  ELSE IF f.type = "bool" THEN "checkbox"
  ELSE IF f.textarea THEN "textarea"
  ELSE IF f.type \in {"number", "uint"} THEN "number"
  ELSE IF f.secret THEN "password"
  ELSE "text"

\* A select shows the choice marked selected, or else its first.
Preselected(f) ==
  IF \E n \in DOMAIN f.choices : f.choices[n] = defaultString(f.default)
    THEN defaultString(f.default) ELSE f.choices[1]

\* What the control holds when the page has been loaded.  A number input drops
\* a value that is not a number.
Rendered(f) ==
  LET value == defaultString(f.default)
  IN CASE Control(f) = "none" -> Unsent
       [] Control(f) = "select" -> Preselected(f)
       [] Control(f) = "checkbox" -> IF defaultBool(f.default) THEN "true" ELSE Unsent
       [] Control(f) = "number" -> IF value \in Numeric THEN value ELSE ""
       [] Control(f) = "password" -> ""
       [] OTHER -> value

Form(f) == [control |-> Control(f), value |-> Rendered(f)]

\* What a human can put into a control.
Enterable(f) ==
  CASE Control(f) = "none" -> {}
    [] Control(f) = "select" -> {f.choices[n] : n \in DOMAIN f.choices}
    [] Control(f) = "checkbox" -> {"true", Unsent}
    [] Control(f) = "number" -> {"", "5"}
    [] OTHER -> {"", "a", "5"}

-----------------------------------------------------------------------------
\* GET /check
FormInit ==
  /\ field \in Fields
  /\ shown = Form(field)
  /\ touched = FALSE
  /\ tries = 0
  /\ submitted = "nothing"
  /\ page = "form"

Edit ==
  /\ page = "form"
  /\ \E v \in Enterable(field) : shown' = [shown EXCEPT !.value = v]
  /\ touched' = TRUE
  /\ UNCHANGED <<field, tries, submitted, page>>

\* POST /check, refused by ParseForm: the fields are rendered as at first.
Refuse ==
  /\ page = "form"
  /\ tries < MaxTries
  /\ tries' = tries + 1
  /\ submitted' = shown.value
  /\ shown' = Form(field)
  /\ touched' = FALSE
  /\ UNCHANGED <<field, page>>

\* POST /check, accepted: the pipeline of CheckPage.
Accept ==
  /\ page = "form"
  /\ submitted' = shown.value
  /\ page' = "result"
  /\ UNCHANGED <<field, shown, touched, tries>>

FormNext == Edit \/ Refuse \/ Accept

FormSpec == FormInit /\ [][FormNext]_formVars

-----------------------------------------------------------------------------
(* Properties.                                                              *)

\* A default as a form sends it: no default, and false, as nothing.
Kept(d) == IF d = Nil \/ (d.kind = "bool" /\ d.text = "false") THEN "" ELSE d.text

\* Can the control hold the default?  A select holds its choices, a checkbox a
\* bool or nothing, a number input a number or nothing, and a password input is
\* never filled.
Fits(f) ==
  /\ Control(f) \in {"select", "checkbox", "textarea", "number", "text"}
  /\ Control(f) = "select" => \E n \in DOMAIN f.choices : f.choices[n] = Kept(f.default)
  /\ Control(f) = "checkbox" => f.default.kind = "bool" \/ Kept(f.default) = ""
  /\ Control(f) = "number" => Kept(f.default) \in Numeric \cup {""}

\* A visible field the human left alone is submitted with its default, if its
\* control can hold it, whatever its type and flags, whatever the Go type of the
\* default, and however many forms were refused before.
UntouchedKeepsDefault ==
  page = "result" /\ ~touched /\ Fits(field) => FormValue(submitted) = Kept(field.default)
=============================================================================
