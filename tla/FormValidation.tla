--------------------------- MODULE FormValidation ---------------------------
(***************************************************************************)
(* One form under jquery.validate.unobtrusive.js, which turns the data-val *)
(* attributes of its fields into rules and shows what the validator finds: *)
(* a message at each field and a summary of a submit that is refused.      *)
(*                                                                         *)
(* The validator itself (jquery.validate.js) is a library underneath: when *)
(* it checks, what it remembers and which of the functions here it calls.  *)
(* Field names, message texts and the hooks of a page are left out.        *)
(***************************************************************************)
CONSTANTS
    Fields,
    Required, Bounded, Formatted,   \* fields with data-val-required, -length and -email
    Unbounded,                      \* fields of Bounded without a -length-max
    Replacing                       \* fields whose container has data-valmsg-replace=true

ASSUME FieldAssumption ==
    /\ Required \subseteq Fields /\ Bounded \subseteq Fields /\ Formatted \subseteq Fields
    /\ Unbounded \subseteq Bounded

VARIABLES
    present,    \* fields in the document
    value,      \* what was typed, as the rules tell it apart
    options,    \* valInfo.options.rules
    attached,   \* the form has a validator
    rules,      \* its settings.rules
    submitted,  \* its fields to be checked at every key: they failed once,
    invalid,    \* or have been checked since the last submit or reset
    shown,      \* containers of messages
    summary,    \* container of the summary, and its list
    refused,    \* history: what the last submit was refused for
    sent        \* history: the form was submitted

validator == <<attached, rules, submitted, invalid>>
formVars == <<present, value, options, attached, rules, submitted, invalid, shown, summary, refused, sent>>

-----------------------------------------------------------------------------

Values == {"empty", "short", "long", "malformed", "good"}

\* What the attributes of a field say is wrong with a value: an empty field is
\* wrong when it is required only.
Wrong(f, v) ==
    \/ v = "empty" /\ f \in Required
    \/ v = "short" /\ f \in Bounded
    \/ v = "long" /\ f \in Bounded \ Unbounded
    \/ v = "malformed" /\ f \in Formatted

\* Mutant: a lower bound alone is taken for no bound.
BothBoundsOnly(f) == IF f \in Bounded \ Unbounded THEN {"rangelength"} ELSE {}

\* adapters.addMinMax, for length.
addMinMax(f) ==
    IF f \notin Bounded THEN {}
    ELSE IF f \in Unbounded THEN {"minlength"} ELSE {"rangelength"}

\* Mutant: the rules get no __dummy__.
BareRules(f) ==
    addMinMax(f)
        \cup (IF f \in Required THEN {"required"} ELSE {})
        \cup (IF f \in Formatted THEN {"email"} ELSE {})

\* The adapters of a field, and the rule that is always there.
parseElement(f) ==
    addMinMax(f)
        \cup (IF f \in Required THEN {"required"} ELSE {})
        \cup (IF f \in Formatted THEN {"email"} ELSE {})
        \cup {"__dummy__"}

-----------------------------------------------------------------------------
(* jquery.validate.js: the values that break the methods, and check *)

Breaks(rule) ==
    CASE rule = "required"    -> {"empty"}
      [] rule = "minlength"   -> {"short"}
      [] rule = "rangelength" -> {"short", "long"}
      [] rule = "email"       -> {"malformed"}
      [] rule = "__dummy__"   -> {}

Fails(f, v) == \E rule \in rules[f] : v \in Breaks(rule)

\* A field whose only rule does not apply to an empty value is no success.
Succeeds(f, v) ==
    /\ rules[f] # {} /\ ~ Fails(f, v)
    /\ v = "empty" => \A rule \in {"minlength", "rangelength", "email"} : rules[f] # {rule}

-----------------------------------------------------------------------------
(* What the unobtrusive functions do to the container of a field *)

Untouched == [class |-> "valid", label |-> "none", linked |-> FALSE]

\* The label is put into the container, or hidden, and knows its container.
onError(c, f) ==
    [class |-> "error", label |-> IF f \in Replacing THEN "message" ELSE c.label, linked |-> TRUE]

onSuccess(c, f) ==
    IF ~c.linked THEN c
    ELSE [class |-> "valid", label |-> IF f \in Replacing THEN "none" ELSE c.label, linked |-> FALSE]

\* showLabel finds no label of an earlier check, as onError took the class away
\* by which it looks for one: every check makes a new label and places it, and
\* success is told after that.
Shown(f, v) ==
    IF Fails(f, v) THEN onError(shown[f], f)
    ELSE IF Succeeds(f, v) THEN onSuccess(onError(shown[f], f), f)
    ELSE shown[f]

\* Mutant: the list is not emptied first.
AddErrors(errors) == [class |-> "errors", list |-> summary.list \cup errors]

onErrors(errors) == [class |-> "errors", list |-> errors]

-----------------------------------------------------------------------------

NoSummary == [class |-> "valid", list |-> {}]

\* The document is loaded with some of the fields; the others come later.
FormInit ==
    /\ present \in SUBSET Fields
    /\ value = [f \in Fields |-> "empty"]
    /\ options = [f \in Fields |-> {}]
    /\ attached = FALSE
    /\ rules = [f \in Fields |-> {}]
    /\ submitted = {}
    /\ invalid = {}
    /\ shown = [f \in Fields |-> Untouched]
    /\ summary = NoSummary
    /\ refused = {}
    /\ sent = FALSE

AddField(f) ==
    /\ f \notin present
    /\ present' = present \cup {f}
    /\ UNCHANGED <<value, options, validator, shown, summary, refused, sent>>

\* A form that has a validator keeps it: validate() copies the options when it
\* makes one.
attachValidation ==
    /\ attached' = TRUE
    /\ rules' = IF attached THEN rules ELSE options'

\* parse(document), when it is ready and whenever a page calls it.
parse ==
    /\ present # {}
    /\ options' = [f \in Fields |-> IF f \in present THEN parseElement(f) ELSE options[f]]
    /\ attachValidation
    /\ UNCHANGED <<present, value, submitted, invalid, shown, summary, refused, sent>>

\* validator.element, of a field with rules.
Check(f, v) ==
    /\ invalid' = invalid \cup {f}
    /\ submitted' = IF Fails(f, v) THEN submitted \cup {f} ELSE submitted
    /\ shown' = [shown EXCEPT ![f] = Shown(f, v)]

\* A key goes up in the field: onkeyup.
Type(f, v) ==
    /\ f \in present /\ ~sent
    /\ value[f] # v
    /\ value' = [value EXCEPT ![f] = v]
    /\ IF f \in submitted \cup invalid THEN Check(f, v) ELSE UNCHANGED <<submitted, invalid, shown>>
    /\ UNCHANGED <<present, options, attached, rules, summary, refused, sent>>

\* The field is left: onfocusout.
Blur(f) ==
    /\ f \in present /\ attached /\ ~sent
    /\ f \in submitted \/ value[f] # "empty"
    /\ Check(f, value[f])
    /\ UNCHANGED <<present, value, options, attached, rules, summary, refused, sent>>

\* validator.form: the elements with rules are checked, and the handler of an
\* invalid form runs before their labels change.
Submit ==
    LET checked == {f \in present : rules[f] # {}}
        errors == {f \in checked : Fails(f, value[f])} IN
    /\ attached /\ ~sent
    /\ submitted' = submitted \cup errors
    /\ invalid' = errors
    /\ shown' = [f \in Fields |-> IF f \in checked THEN Shown(f, value[f]) ELSE shown[f]]
    /\ summary' = IF errors # {} THEN onErrors(errors) ELSE summary
    /\ refused' = errors
    /\ sent' = (errors = {})
    /\ UNCHANGED <<present, value, options, attached, rules>>

\* onReset, and then the browser empties the fields.  Labels and list stay where
\* they are, without the classes that show them.
onReset ==
    /\ attached /\ ~sent
    /\ submitted' = {}
    /\ invalid' = {}
    /\ shown' = [f \in Fields |->
                     IF shown[f].class = "error" THEN [shown[f] EXCEPT !.class = "valid", !.linked = FALSE]
                     ELSE shown[f]]
    /\ summary' = [summary EXCEPT !.class = "valid"]
    /\ value' = [f \in Fields |-> "empty"]
    /\ refused' = {}
    /\ UNCHANGED <<present, options, attached, rules, sent>>

FormNext ==
    \/ parse \/ Submit \/ onReset
    \/ \E f \in Fields : AddField(f) \/ Blur(f) \/ \E v \in Values : Type(f, v)

FormSpec == FormInit /\ [][FormNext]_formVars

-----------------------------------------------------------------------------

RuleNames == {"required", "minlength", "rangelength", "email", "__dummy__"}

\* Every variable keeps its type.
FormTypeOK ==
    /\ present \subseteq Fields
    /\ value \in [Fields -> Values]
    /\ options \in [Fields -> SUBSET RuleNames]
    /\ attached \in BOOLEAN
    /\ rules \in [Fields -> SUBSET RuleNames]
    /\ submitted \subseteq Fields /\ invalid \subseteq Fields
    /\ shown \in [Fields -> [class : {"valid", "error"}, label : {"none", "message"}, linked : BOOLEAN]]
    /\ summary \in [class : {"valid", "errors"}, list : SUBSET Fields]
    /\ refused \subseteq Fields
    /\ sent \in BOOLEAN

\* A field that is marked is wrong, and by its own attributes: whatever is typed,
\* left, refused or reset, no mark outlives the mistake.
MarkedIsWrong == \A f \in Fields : shown[f].class = "error" => Wrong(f, value[f])

\* A form that is sent is right in every field the validator was made with; a
\* field that came later is not looked at.
SentIsRight ==
    sent => \A f \in present : rules[f] # {} => ~ Wrong(f, value[f])

\* The summary on display is the list of fields of the last submit that was
\* refused, and is on display from then until the form is reset or sent.
SummaryIsOfLastRefusal ==
    /\ summary.class = "errors" /\ ~sent => summary.list = refused
    /\ refused # {} => summary.class = "errors"
=============================================================================
