-------------------------------- MODULE Form --------------------------------
(***************************************************************************)
(* A form (CursATE/Curses/Form.hpp): fields one below the other, of which  *)
(* one is selected and takes the keys.  A layout is the sequence of the    *)
(* fields; a form is what the user has made of it so far.  What is typed   *)
(* into an input field is one value or another, not a line of characters.  *)
(***************************************************************************)
EXTENDS Integers, Sequences

\* The fields (Curses/Field/). A control key reaches those marked so from
\* anywhere; other shortcuts are typed as text in an input field.
InputField(label)           == [kind |-> "input", label |-> label, choices |-> <<>>, control |-> FALSE]
RadioField(label, choices)  == [kind |-> "radio", label |-> label, choices |-> choices, control |-> FALSE]
ButtonField(label, control) == [kind |-> "button", label |-> label, choices |-> <<>>, control |-> control]

NewForm(values) == [values |-> values, at |-> 1, left |-> FALSE]

\* A broken variant: buttons stay as they were when the form was left.
ProcessAgain(layout, form) == [values |-> form.values, at |-> 1, left |-> FALSE]

\* The beginning of process(): uncheckAllButtons().
Process(layout, form) ==
    LET Unchecked(label) == \E i \in DOMAIN layout :
                                layout[i].label = label /\ layout[i].kind = "button"
    IN  [values |-> [l \in DOMAIN form.values |->
                        IF Unchecked(l) THEN "false" ELSE form.values[l]],
         at |-> 1, left |-> FALSE]

Selected(layout, form) == layout[form.at]

-----------------------------------------------------------------------------
(* action(): what a key does to the field that is selected.  Each of these *)
(* is the set of what may come of it; empty when the key does nothing.     *)

GoTo(form, n) == {[form EXCEPT !.at = n]}
Exit(form)    == {[form EXCEPT !.left = TRUE]}

ToPrevious(layout, form) == GoTo(form, IF form.at = 1 THEN Len(layout) ELSE form.at - 1)
ToNext(layout, form)     == GoTo(form, (form.at % Len(layout)) + 1)
ToFirst(form)            == GoTo(form, 1)
ToLast(layout, form)     == GoTo(form, Len(layout))

Click(layout, form, n) == {[form EXCEPT !.values[layout[n].label] = "true", !.left = TRUE]}

Enter(layout, form) ==
    IF Selected(layout, form).kind = "button" THEN Click(layout, form, form.at)
                                              ELSE ToNext(layout, form)

\* typed[label]: what may be in an input field.
Type(layout, form, typed) ==
    IF Selected(layout, form).kind # "input" THEN {}
    ELSE LET label == Selected(layout, form).label
         IN  {[form EXCEPT !.values[label] = v] : v \in typed[label]}

\* Left and right: the choice before or after, round and round.
Turn(layout, form) ==
    IF Selected(layout, form).kind # "radio" THEN {}
    ELSE LET field == Selected(layout, form)
             n     == Len(field.choices)
             now   == CHOOSE i \in 1 .. n : field.choices[i] = form.values[field.label]
         IN  {[form EXCEPT !.values[field.label] = field.choices[i]] :
                  i \in {(now % n) + 1, IF now = 1 THEN n ELSE now - 1}}

\* tryProcessingAsShortcut(), takeShortcut()
Shortcut(layout, form, n) ==
    IF Selected(layout, form).kind = "input" /\ ~layout[n].control THEN {}
    ELSE IF layout[n].kind = "button" THEN Click(layout, form, n)
    ELSE GoTo(form, n)

=============================================================================
