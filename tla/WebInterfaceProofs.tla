-------------------------- MODULE WebInterfaceProofs --------------------------
(***************************************************************************)
(* Theorems of FormValidation and of UiPreferences, the scripts of the     *)
(* pages of PamGateway.Ui: for any set of fields, whatever attributes they *)
(* carry and whenever they come into the document; and for any number of   *)
(* pages and of texts.                                                     *)
(***************************************************************************)
EXTENDS FormValidation, UiPreferences, TLAPS

-----------------------------------------------------------------------------
(* FormValidation *)

Container == [class : {"valid", "error"}, label : {"none", "message"}, linked : BOOLEAN]

\* Rules are all of the rules of the attributes or none; a field that is not yet
\* there has none, and without a validator no field has any.
RulesOf(f) ==
    /\ options[f] \in {{}, parseElement(f)}
    /\ rules[f] \in {{}, parseElement(f)}
    /\ f \notin present => options[f] = {} /\ rules[f] = {}
    /\ ~ attached => rules[f] = {}

\* A marked field fails by its rules, and is checked at every key.
Marked(f) == shown[f].class = "error" => f \in submitted /\ Fails(f, value[f])

Sent == sent => attached /\ \A f \in present : ~ Fails(f, value[f])

FormInv ==
    /\ FormTypeOK
    /\ \A f \in Fields : RulesOf(f) /\ Marked(f)
    /\ Sent
    /\ SummaryIsOfLastRefusal

-----------------------------------------------------------------------------

LEMMA RulesAreNames ==
    ASSUME NEW f \in Fields
    PROVE  parseElement(f) \in SUBSET RuleNames /\ parseElement(f) # {}
  BY DEF parseElement, addMinMax, RuleNames

\* What the rules of a field find is what its attributes say.
LEMMA RulesSayWhatAttributesSay ==
    ASSUME NEW f \in Fields, NEW v \in Values, rules[f] = parseElement(f)
    PROVE  Fails(f, v) <=> Wrong(f, v)
  <1>1. rules[f] = addMinMax(f) \cup (IF f \in Required THEN {"required"} ELSE {})
                       \cup (IF f \in Formatted THEN {"email"} ELSE {}) \cup {"__dummy__"}
    BY DEF parseElement
  <1>2. Fails(f, v) <=> \/ "required" \in rules[f] /\ v = "empty"
                        \/ "minlength" \in rules[f] /\ v = "short"
                        \/ "rangelength" \in rules[f] /\ v \in {"short", "long"}
                        \/ "email" \in rules[f] /\ v = "malformed"
    BY <1>1 DEF Fails, Breaks, addMinMax
  <1>3. /\ "required" \in rules[f] <=> f \in Required
        /\ "minlength" \in rules[f] <=> f \in Unbounded
        /\ "rangelength" \in rules[f] <=> f \in Bounded \ Unbounded
        /\ "email" \in rules[f] <=> f \in Formatted
    BY <1>1, FieldAssumption DEF addMinMax
  <1>4. v = "long" => f \notin Unbounded \/ ~ Wrong(f, v)
    BY DEF Wrong
  <1> QED
    BY <1>2, <1>3, FieldAssumption DEF Wrong, Values

\* Whatever was shown before, what a check shows is an error only if it failed:
\* the rule that never fails makes every other outcome a success.
LEMMA ChecksShowWhatTheyFind ==
    ASSUME FormTypeOK, NEW f \in Fields, RulesOf(f), Marked(f), NEW v \in Values
    PROVE  /\ Shown(f, v) \in Container
           /\ Shown(f, v).class = "error" => Fails(f, v)
  <1>1. shown[f] \in Container
    BY DEF FormTypeOK, Container
  <1>2. onError(shown[f], f) \in Container /\ onError(shown[f], f).linked
    BY <1>1 DEF onError, Container
  <1>3. CASE Fails(f, v)
    BY <1>2, <1>3 DEF Shown
  <1>4. CASE ~ Fails(f, v) /\ rules[f] = {}
    <2>1. Shown(f, v) = shown[f]
      BY <1>4 DEF Shown, Succeeds
    <2>2. ~ Fails(f, value[f])
      BY <1>4 DEF Fails
    <2> QED
      BY <1>1, <2>1, <2>2 DEF Marked
  <1>5. CASE ~ Fails(f, v) /\ rules[f] = parseElement(f)
    <2>1. "__dummy__" \in rules[f]
      BY <1>5 DEF parseElement
    <2>2. Succeeds(f, v)
      BY <1>5, <2>1 DEF Succeeds
    <2>3. Shown(f, v) = onSuccess(onError(shown[f], f), f)
      BY <1>5, <2>2 DEF Shown
    <2> QED
      BY <1>2, <2>3 DEF onSuccess, Container
  <1> QED
    BY <1>3, <1>4, <1>5 DEF RulesOf

LEMMA InitForm == FormInit => FormInv
  <1> SUFFICES ASSUME FormInit PROVE FormInv
    OBVIOUS
  <1>1. FormTypeOK
    BY DEF FormInit, FormTypeOK, Values, Untouched, NoSummary
  <1>2. ASSUME NEW f \in Fields PROVE RulesOf(f) /\ Marked(f)
    BY DEF FormInit, RulesOf, Marked, Untouched
  <1>3. Sent /\ SummaryIsOfLastRefusal
    BY DEF FormInit, Sent, SummaryIsOfLastRefusal, NoSummary
  <1> QED
    BY <1>1, <1>2, <1>3 DEF FormInv

LEMMA AddFieldKeepsForm ==
    ASSUME FormInv, NEW f \in Fields, AddField(f)
    PROVE  FormInv'
  <1> USE DEF AddField, validator, FormInv
  <1>1. FormTypeOK'
    BY DEF FormTypeOK
  <1>2. ASSUME NEW g \in Fields PROVE RulesOf(g)' /\ Marked(g)'
    <2>1. parseElement(g)' = parseElement(g)
      BY DEF parseElement, addMinMax
    <2> QED
      BY <2>1 DEF RulesOf, Marked, Fails
  <1>3. ~ Fails(f, value[f])
    BY DEF RulesOf, Fails
  <1>4. Sent'
    BY <1>3 DEF Sent, Fails
  <1> QED
    BY <1>1, <1>2, <1>4 DEF SummaryIsOfLastRefusal

LEMMA ParseKeepsForm ==
    ASSUME FormInv, parse
    PROVE  FormInv'
  <1>1. \A f \in Fields : options'[f] = IF f \in present THEN parseElement(f) ELSE options[f]
    BY DEF parse
  <1>2. options' \in [Fields -> SUBSET RuleNames]
    BY RulesAreNames DEF parse, FormInv, FormTypeOK
  <1>3. rules' = IF attached THEN rules ELSE options'
    BY DEF parse, attachValidation
  <1>4. FormTypeOK'
    <2>1. rules' \in [Fields -> SUBSET RuleNames]
      BY <1>2, <1>3 DEF FormInv, FormTypeOK
    <2> QED
      BY <1>2, <2>1 DEF parse, attachValidation, FormInv, FormTypeOK
  <1>5. ASSUME NEW f \in Fields PROVE RulesOf(f)' /\ Marked(f)'
    <2>1. parseElement(f)' = parseElement(f)
      BY DEF parseElement, addMinMax
    <2>2. /\ options'[f] \in {{}, parseElement(f)}
          /\ f \notin present => options'[f] = {}
      BY <1>1 DEF FormInv, RulesOf
    <2>3. RulesOf(f)'
      BY <1>3, <2>1, <2>2 DEF FormInv, RulesOf, parse, attachValidation
    <2>4. CASE attached
      BY <1>3, <2>3, <2>4 DEF FormInv, Marked, Fails, parse
    <2>5. CASE ~ attached
      <3>1. ~ Fails(f, value[f])
        BY <2>5 DEF FormInv, RulesOf, Fails
      <3> QED
        BY <2>3, <3>1 DEF FormInv, Marked, parse
    <2> QED
      BY <2>4, <2>5
  <1>6. Sent'
    <2>1. sent' = sent /\ present' = present /\ value' = value /\ attached'
      BY DEF parse, attachValidation
    <2>2. sent => rules' = rules
      BY <1>3 DEF FormInv, Sent
    <2>3. sent => \A f \in present : Fails(f, value[f])' <=> Fails(f, value[f])
      BY <2>1, <2>2 DEF Fails
    <2> QED
      BY <2>1, <2>3 DEF FormInv, Sent
  <1> QED
    BY <1>4, <1>5, <1>6 DEF FormInv, SummaryIsOfLastRefusal, parse

\* The actions after which only one field may have another value or container.
LEMMA ChecksKeepForm ==
    ASSUME FormInv, NEW f \in Fields, NEW v \in Values, Check(f, v), ~ sent,
           value' = [value EXCEPT ![f] = v],
           UNCHANGED <<present, options, attached, rules, summary, refused, sent>>
    PROVE  FormInv'
  <1>1. Shown(f, v) \in Container /\ (Shown(f, v).class = "error" => Fails(f, v))
    BY ChecksShowWhatTheyFind DEF FormInv
  <1>2. shown' = [shown EXCEPT ![f] = Shown(f, v)]
    BY DEF Check
  <1>3. FormTypeOK'
    BY <1>1, <1>2 DEF FormInv, FormTypeOK, Check, Container
  <1>4. ASSUME NEW g \in Fields PROVE RulesOf(g)' /\ Marked(g)'
    <2>1. parseElement(g)' = parseElement(g)
      BY DEF parseElement, addMinMax
    <2>2. RulesOf(g)'
      BY <2>1 DEF FormInv, RulesOf
    <2>3. Marked(g)'
      <3>1. CASE g = f
        <4>1. shown'[f] = Shown(f, v) /\ value'[f] = v
          BY <1>2 DEF FormInv, FormTypeOK
        <4>2. Fails(f, v) => f \in submitted'
          BY DEF Check
        <4>3. Fails(f, value[f])' <=> Fails(f, v)
          BY <4>1 DEF Fails
        <4> QED
          BY <1>1, <3>1, <4>1, <4>2, <4>3 DEF Marked
      <3>2. CASE g # f
        <4>1. shown'[g] = shown[g] /\ value'[g] = value[g]
          BY <1>2, <3>2 DEF FormInv, FormTypeOK
        <4>2. submitted \subseteq submitted'
          BY DEF Check
        <4>3. Fails(g, value[g])' <=> Fails(g, value[g])
          BY <4>1 DEF Fails
        <4> QED
          BY <4>1, <4>2, <4>3 DEF FormInv, Marked
      <3> QED
        BY <3>1, <3>2
    <2> QED
      BY <2>2, <2>3
  <1> QED
    BY <1>3, <1>4 DEF FormInv, Sent, SummaryIsOfLastRefusal

LEMMA TypingKeepsForm ==
    ASSUME FormInv, NEW f \in Fields, NEW v \in Values, Type(f, v)
    PROVE  FormInv'
  <1>1. ~ sent /\ value' = [value EXCEPT ![f] = v]
    BY DEF Type
  <1>2. UNCHANGED <<present, options, attached, rules, summary, refused, sent>>
    BY DEF Type
  <1>3. CASE f \in submitted \cup invalid
    <2>1. Check(f, v)
      BY <1>3 DEF Type
    <2> QED
      BY <1>1, <1>2, <2>1, ChecksKeepForm
  <1>4. CASE f \notin submitted \cup invalid
    <2>1. UNCHANGED <<submitted, invalid, shown>>
      BY <1>4 DEF Type
    <2>2. FormTypeOK'
      BY <1>1, <1>2, <2>1 DEF FormInv, FormTypeOK
    <2>3. ASSUME NEW g \in Fields PROVE RulesOf(g)' /\ Marked(g)'
      <3>1. parseElement(g)' = parseElement(g)
        BY DEF parseElement, addMinMax
      <3>2. RulesOf(g)'
        BY <1>2, <3>1 DEF FormInv, RulesOf
      <3>3. g # f => value'[g] = value[g]
        BY <1>1 DEF FormInv, FormTypeOK
      <3>4. Marked(g)'
        BY <1>2, <1>4, <2>1, <3>3 DEF FormInv, Marked, Fails
      <3> QED
        BY <3>2, <3>4
    <2> QED
      BY <1>1, <1>2, <2>2, <2>3 DEF FormInv, Sent, SummaryIsOfLastRefusal
  <1> QED
    BY <1>3, <1>4

LEMMA BlurKeepsForm ==
    ASSUME FormInv, NEW f \in Fields, Blur(f)
    PROVE  FormInv'
  <1>1. PICK v : v = value[f]
    OBVIOUS
  <1>2. v \in Values /\ Check(f, v) /\ ~ sent
    BY <1>1 DEF FormInv, FormTypeOK, Blur
  <1>3. value' = [value EXCEPT ![f] = v]
    BY <1>1 DEF FormInv, FormTypeOK, Blur
  <1> QED
    BY <1>2, <1>3, ChecksKeepForm DEF Blur

LEMMA SubmitKeepsForm ==
    ASSUME FormInv, Submit
    PROVE  FormInv'
  <1> DEFINE checked == {f \in present : rules[f] # {}}
             errors == {f \in checked : Fails(f, value[f])}
  <1>1. /\ attached /\ ~ sent
        /\ submitted' = submitted \cup errors
        /\ invalid' = errors
        /\ shown' = [f \in Fields |-> IF f \in checked THEN Shown(f, value[f]) ELSE shown[f]]
        /\ summary' = IF errors # {} THEN onErrors(errors) ELSE summary
        /\ refused' = errors
        /\ sent' = (errors = {})
        /\ UNCHANGED <<present, value, options, attached, rules>>
    BY DEF Submit
  <1>2. errors \subseteq Fields
    BY DEF FormInv, FormTypeOK
  <1>3. \A f \in Fields : value[f] \in Values
    BY DEF FormInv, FormTypeOK
  <1>4. ASSUME NEW f \in Fields
        PROVE  /\ Shown(f, value[f]) \in Container
               /\ Shown(f, value[f]).class = "error" => Fails(f, value[f])
    BY <1>3, ChecksShowWhatTheyFind DEF FormInv
  <1>5. \A f \in present : Fails(f, value[f]) => f \in errors
    BY DEF Fails
  <1> HIDE DEF checked, errors
  <1>6. FormTypeOK'
    <2>1. shown' \in [Fields -> Container]
      BY <1>1, <1>4 DEF FormInv, FormTypeOK, Container
    <2>2. summary' \in [class : {"valid", "errors"}, list : SUBSET Fields]
      BY <1>1, <1>2 DEF FormInv, FormTypeOK, onErrors
    <2> QED
      BY <1>1, <1>2, <2>1, <2>2 DEF FormInv, FormTypeOK, Container
  <1>7. ASSUME NEW f \in Fields PROVE RulesOf(f)' /\ Marked(f)'
    <2>1. parseElement(f)' = parseElement(f)
      BY DEF parseElement, addMinMax
    <2>2. RulesOf(f)'
      BY <1>1, <2>1 DEF FormInv, RulesOf
    <2>3. Fails(f, value[f])' <=> Fails(f, value[f])
      BY <1>1 DEF Fails
    <2>4. Fails(f, value[f]) => f \in present
      BY DEF FormInv, RulesOf, Fails
    <2>5. shown'[f].class = "error" => Fails(f, value[f])
      BY <1>1, <1>4 DEF FormInv, Marked
    <2>6. Marked(f)'
      BY <1>1, <1>5, <2>3, <2>4, <2>5 DEF Marked
    <2> QED
      BY <2>2, <2>6
  <1>8. Sent'
    BY <1>1, <1>5 DEF Sent, Fails
  <1>9. SummaryIsOfLastRefusal'
    BY <1>1 DEF SummaryIsOfLastRefusal, onErrors
  <1> QED
    BY <1>6, <1>7, <1>8, <1>9 DEF FormInv

LEMMA ResetKeepsForm ==
    ASSUME FormInv, onReset
    PROVE  FormInv'
  <1>1. ASSUME NEW f \in Fields
        PROVE  shown'[f] \in Container /\ shown'[f].class # "error"
    BY DEF FormInv, FormTypeOK, onReset, Container
  <1>2. FormTypeOK'
    <2>1. shown' \in [Fields -> Container]
      BY <1>1 DEF onReset
    <2>2. summary' \in [class : {"valid", "errors"}, list : SUBSET Fields]
      BY DEF FormInv, FormTypeOK, onReset
    <2>3. value' \in [Fields -> Values]
      BY DEF onReset, Values
    <2> QED
      BY <2>1, <2>2, <2>3 DEF FormInv, FormTypeOK, onReset, Container
  <1>3. ASSUME NEW f \in Fields PROVE RulesOf(f)' /\ Marked(f)'
    <2>1. parseElement(f)' = parseElement(f)
      BY DEF parseElement, addMinMax
    <2> QED
      BY <1>1, <2>1 DEF FormInv, RulesOf, Marked, onReset
  <1>4. summary'.class = "valid"
    BY DEF FormInv, FormTypeOK, onReset
  <1> QED
    BY <1>2, <1>3, <1>4 DEF FormInv, Sent, SummaryIsOfLastRefusal, onReset

LEMMA StepsKeepForm == FormInv /\ [FormNext]_formVars => FormInv'
  <1> SUFFICES ASSUME FormInv, [FormNext]_formVars PROVE FormInv'
    OBVIOUS
  <1>1. CASE parse
    BY <1>1, ParseKeepsForm
  <1>2. CASE Submit
    BY <1>2, SubmitKeepsForm
  <1>3. CASE onReset
    BY <1>3, ResetKeepsForm
  <1>4. ASSUME NEW f \in Fields, AddField(f) PROVE FormInv'
    BY <1>4, AddFieldKeepsForm
  <1>5. ASSUME NEW f \in Fields, Blur(f) PROVE FormInv'
    BY <1>5, BlurKeepsForm
  <1>6. ASSUME NEW f \in Fields, NEW v \in Values, Type(f, v) PROVE FormInv'
    BY <1>6, TypingKeepsForm
  <1>7. CASE UNCHANGED formVars
    <2>1. FormTypeOK' /\ SummaryIsOfLastRefusal'
      BY <1>7 DEF FormInv, FormTypeOK, SummaryIsOfLastRefusal, formVars, validator
    <2>2. \A f \in Fields : parseElement(f)' = parseElement(f)
      BY DEF parseElement, addMinMax
    <2>3. \A f \in Fields : RulesOf(f)' /\ Marked(f)'
      BY <1>7, <2>2 DEF FormInv, RulesOf, Marked, Fails, formVars, validator
    <2>4. Sent'
      BY <1>7 DEF FormInv, Sent, Fails, formVars, validator
    <2> QED
      BY <2>1, <2>3, <2>4 DEF FormInv
  <1> QED
    BY <1>1, <1>2, <1>3, <1>4, <1>5, <1>6, <1>7 DEF FormNext

LEMMA FormInvariant == FormSpec => []FormInv
  BY InitForm, StepsKeepForm, PTL DEF FormSpec

-----------------------------------------------------------------------------

\* Every variable of the form keeps its type.
THEOREM FormTypeCorrect == FormSpec => []FormTypeOK
  <1>1. FormInv => FormTypeOK
    BY DEF FormInv
  <1> QED
    BY <1>1, FormInvariant, PTL

\* No mark of a field outlives the mistake it was made for (onError, onSuccess,
\* onReset), whatever the attributes of the fields are.
THEOREM MarksAreRight == FormSpec => []MarkedIsWrong
  <1>1. ASSUME FormInv, NEW f \in Fields, shown[f].class = "error" PROVE Wrong(f, value[f])
    <2>1. Fails(f, value[f]) /\ value[f] \in Values
      BY <1>1 DEF FormInv, Marked, FormTypeOK
    <2>2. rules[f] = parseElement(f)
      BY <1>1, <2>1 DEF FormInv, RulesOf, Fails
    <2> QED
      BY <2>1, <2>2, RulesSayWhatAttributesSay
  <1>2. FormInv => MarkedIsWrong
    BY <1>1 DEF MarkedIsWrong
  <1> QED
    BY <1>2, FormInvariant, PTL

\* A form goes out only when every field the validator knows is right by its
\* attributes (parseElement, addMinMax).
THEOREM SentFormsAreRight == FormSpec => []SentIsRight
  <1>1. ASSUME FormInv, sent, NEW f \in present, rules[f] # {} PROVE ~ Wrong(f, value[f])
    <2>1. f \in Fields /\ value[f] \in Values /\ ~ Fails(f, value[f])
      BY <1>1 DEF FormInv, Sent, FormTypeOK
    <2>2. rules[f] = parseElement(f)
      BY <1>1, <2>1 DEF FormInv, RulesOf
    <2> QED
      BY <2>1, <2>2, RulesSayWhatAttributesSay
  <1>2. FormInv => SentIsRight
    BY <1>1 DEF SentIsRight
  <1> QED
    BY <1>2, FormInvariant, PTL

\* The summary on display is that of the last submit that was refused (onErrors,
\* onReset).
THEOREM SummaryIsCurrent == FormSpec => []SummaryIsOfLastRefusal
  <1>1. FormInv => SummaryIsOfLastRefusal
    BY DEF FormInv
  <1> QED
    BY <1>1, FormInvariant, PTL

-----------------------------------------------------------------------------
(* UiPreferences *)

Places == {"closed", "loading", "ready", "stuck"} \cup InTheme \cup InLang
Live == {"ready", "clickTheme", "clickLang"}
PageType == [at : Places, value : Themes \cup Langs \cup {"unread"},
             theme : Themes \cup {"none"}, button : Themes \cup {"none"},
             text : [Sections -> Langs \cup {"served"}], langButton : Langs \cup {"none"}]

\* The button of the theme is right before the language is set, so that both are
\* when the listeners are attached.
Whole(t) ==
    /\ page[t].at \in Live \cup {"domLang"} => page[t].theme = page[t].button
    /\ page[t].at \in Live => \A s \in Sections : page[t].text[s] = page[t].langButton

\* A page that wrote last has got past the call that writes, and shows what is
\* stored.
Saved(t) ==
    /\ writer.theme = t =>
        /\ page[t].at \notin {"closed", "head"}
        /\ stored.theme \in Themes
        /\ stored.theme = page[t].theme
    /\ writer.lang = t =>
        /\ page[t].at \in Live
        /\ stored.lang \in Langs
        /\ stored.lang = page[t].langButton

Toggling(t) ==
    page[t].value # "unread" =>
        /\ page[t].at = "clickTheme" /\ writer.theme = t => page[t].value # page[t].theme
        /\ page[t].at = "clickLang" /\ writer.lang = t => page[t].value # page[t].langButton

PageInv ==
    /\ TypeOK
    /\ \A t \in Tabs : Whole(t) /\ Saved(t) /\ Toggling(t)

-----------------------------------------------------------------------------

LEMMA PagesAre ==
    ASSUME TypeOK, NEW t \in Tabs
    PROVE  /\ page \in [Tabs -> PageType]
           /\ page[t] \in PageType
           /\ \/ page[t].value = "unread"
              \/ page[t].at \in InTheme /\ page[t].value \in Themes
              \/ page[t].at \in InLang /\ page[t].value \in Langs
  BY DEF TypeOK, PageType, Places

LEMMA InitPages == Init => PageInv
  <1> SUFFICES ASSUME Init PROVE PageInv
    OBVIOUS
  <1>1. Closed \in PageType
    BY DEF Closed, PageType, Places, Themes, Langs
  <1>2. \A t \in Tabs : page[t] = Closed
    BY DEF Init
  <1>3. page \in [Tabs -> PageType]
    BY <1>1 DEF Init
  <1>4. TypeOK
    BY <1>2, <1>3 DEF Init, TypeOK, PageType, Places, Closed, NoWriter
  <1>5. ASSUME NEW t \in Tabs PROVE Whole(t) /\ Saved(t) /\ Toggling(t)
    BY <1>2, TabAssumption DEF Whole, Saved, Toggling, Closed, Live, Init, NoWriter
  <1> QED
    BY <1>4, <1>5 DEF PageInv

\* The steps that move one page and neither the storage nor what is known of it.
LEMMA MovesKeepPages ==
    ASSUME PageInv, NEW t \in Tabs, NEW r \in PageType,
           page' = [page EXCEPT ![t] = r],
           UNCHANGED <<stored, access, writer>>,
           \/ r.value = "unread"
           \/ r.at \in InTheme /\ r.value \in Themes
           \/ r.at \in InLang /\ r.value \in Langs,
           (Whole(t) /\ Saved(t) /\ Toggling(t))'
    PROVE  PageInv'
  <1>1. page' \in [Tabs -> PageType] /\ \A u \in Tabs : page'[u] = IF u = t THEN r ELSE page[u]
    BY PagesAre DEF PageInv
  <1>2. TypeOK'
    BY <1>1 DEF PageInv, TypeOK, PageType, Places
  <1>3. ASSUME NEW u \in Tabs, u # t PROVE (Whole(u) /\ Saved(u) /\ Toggling(u))'
    <2>1. page'[u] = page[u] /\ Whole(u) /\ Saved(u) /\ Toggling(u)
      BY <1>1, <1>3 DEF PageInv
    <2> QED
      BY <2>1 DEF Whole, Saved, Toggling
  <1> QED
    BY <1>2, <1>3 DEF PageInv

\* The steps that write.
LEMMA WritesKeepPages ==
    ASSUME PageInv, NEW t \in Tabs, NEW r \in PageType, NEW key \in {"theme", "lang"},
           NEW x \in IF key = "theme" THEN Themes ELSE Langs,
           page' = [page EXCEPT ![t] = r],
           stored' = [stored EXCEPT ![key] = x],
           writer' = [writer EXCEPT ![key] = t],
           UNCHANGED access,
           r.value = "unread",
           (Whole(t) /\ Saved(t) /\ Toggling(t))'
    PROVE  PageInv'
  <1>1. page' \in [Tabs -> PageType] /\ \A u \in Tabs : page'[u] = IF u = t THEN r ELSE page[u]
    BY PagesAre DEF PageInv
  <1>2. /\ stored \in [theme : Themes \cup {"none"}, lang : Langs \cup {"none"}]
        /\ writer \in [theme : Tabs \cup {"nobody"}, lang : Tabs \cup {"nobody"}]
    BY DEF PageInv, TypeOK
  <1>3. /\ stored' \in [theme : Themes \cup {"none"}, lang : Langs \cup {"none"}]
        /\ writer' \in [theme : Tabs \cup {"nobody"}, lang : Tabs \cup {"nobody"}]
    <2>1. CASE key = "theme"
      BY <1>2, <2>1
    <2>2. CASE key = "lang"
      BY <1>2, <2>2
    <2> QED
      BY <2>1, <2>2
  <1>4. TypeOK'
    BY <1>1, <1>3 DEF PageInv, TypeOK, PageType, Places
  <1>5. ASSUME NEW u \in Tabs, u # t PROVE (Whole(u) /\ Saved(u) /\ Toggling(u))'
    <2>1. page'[u] = page[u] /\ Whole(u) /\ Saved(u) /\ Toggling(u)
      BY <1>1, <1>5 DEF PageInv
    <2>2. /\ writer'.theme = u => writer.theme = u /\ stored'.theme = stored.theme
          /\ writer'.lang = u => writer.lang = u /\ stored'.lang = stored.lang
      <3>1. CASE key = "theme"
        BY <1>2, <1>5, <3>1
      <3>2. CASE key = "lang"
        BY <1>2, <1>5, <3>2
      <3> QED
        BY <3>1, <3>2
    <2> QED
      BY <2>1, <2>2 DEF Whole, Saved, Toggling
  <1> QED
    BY <1>4, <1>5 DEF PageInv
-----------------------------------------------------------------------------

\* An exception leaves a page as it was, and the script further on.
LEMMA ThrowKeepsPages ==
    ASSUME PageInv, NEW t \in Tabs, page[t].at \in InTheme \cup InLang, Throw(t)
    PROVE  PageInv'
  <1> DEFINE r == [page[t] EXCEPT !.at = AfterThrow(page[t].at), !.value = "unread"]
  <1>1. page \in [Tabs -> PageType] /\ page[t] \in PageType
    BY PagesAre DEF PageInv
  <1>2. AfterThrow(page[t].at) \in {"loading", "stuck", "ready"}
    BY DEF AfterThrow
  <1>3. r \in PageType /\ r.value = "unread"
    BY <1>1, <1>2 DEF PageType, Places
  <1>4. page' = [page EXCEPT ![t] = r] /\ UNCHANGED <<stored, access, writer>>
    BY <1>1 DEF Throw
  <1>5. page'[t] = r
    BY <1>1, <1>4
  <1>6. Whole(t) /\ Saved(t)
    BY DEF PageInv
  <1>7. /\ r.at = AfterThrow(page[t].at)
        /\ r.theme = page[t].theme /\ r.button = page[t].button
        /\ r.text = page[t].text /\ r.langButton = page[t].langButton
    BY <1>1 DEF PageType
  <1>8. r.at = "ready" => page[t].at \in {"clickTheme", "clickLang"}
    BY <1>7 DEF AfterThrow, InTheme, InLang
  <1>9. r.at \notin Live \cup {"domLang"} => page[t].at \notin Live
    BY <1>7 DEF AfterThrow, Live
  <1>10. Whole(t)'
    BY <1>2, <1>5, <1>6, <1>7, <1>8 DEF Whole, Live
  <1>11. Saved(t)'
    BY <1>2, <1>4, <1>5, <1>6, <1>7, <1>9 DEF Saved, Live
  <1>12. Toggling(t)'
    BY <1>3, <1>5 DEF Toggling
  <1> HIDE DEF r
  <1> QED
    BY <1>3, <1>4, <1>10, <1>11, <1>12, MovesKeepPages

\* What is read is a theme or a language, and a click reads one that the page
\* does not show if the page wrote last.
LEMMA ReadKeepsPages ==
    ASSUME PageInv, NEW t \in Tabs, Read(t)
    PROVE  PageInv'
  <1>1. page \in [Tabs -> PageType] /\ page[t] \in PageType
    BY PagesAre DEF PageInv
  <1>2. page[t].at \in InTheme \cup InLang
    BY DEF Read
  <1>3. CASE access = "closed"
    <2>1. Throw(t)
      BY <1>3 DEF Read
    <2> QED
      BY <1>2, <2>1, ThrowKeepsPages
  <1>4. CASE access # "closed"
    <2> DEFINE found == IF page[t].at \in InTheme THEN getTheme ELSE getLang
               x == IF page[t].at \in {"clickTheme", "clickLang"} THEN toggled(found) ELSE found
               r == [page[t] EXCEPT !.value = x]
    <2>1. page' = [page EXCEPT ![t] = r] /\ UNCHANGED <<stored, access, writer>>
      BY <1>1, <1>4 DEF Read
    <2>2. getTheme \in Themes /\ getLang \in Langs
      BY DEF getTheme, getLang, PageInv, TypeOK, Themes, Langs
    <2>3. \A y \in Themes : toggled(y) \in Themes /\ toggled(y) # y
      BY DEF toggled, Themes
    <2>4. \A y \in Langs : toggled(y) \in Langs /\ toggled(y) # y
      BY DEF toggled, Langs
    <2>5. \/ page[t].at \in InTheme /\ x \in Themes
          \/ page[t].at \in InLang /\ x \in Langs
      BY <1>2, <2>2, <2>3, <2>4
    <2>6. r \in PageType /\ r.at = page[t].at /\ r.value = x
      BY <1>1, <2>5 DEF PageType
    <2>7. /\ r.theme = page[t].theme /\ r.button = page[t].button
          /\ r.text = page[t].text /\ r.langButton = page[t].langButton
      BY <1>1 DEF PageType
    <2>8. page'[t] = r
      BY <1>1, <2>1
    <2>9. Whole(t) /\ Saved(t)
      BY DEF PageInv
    <2>10. Whole(t)'
      BY <2>6, <2>7, <2>8, <2>9 DEF Whole
    <2>11. Saved(t)'
      BY <2>1, <2>6, <2>7, <2>8, <2>9 DEF Saved
    <2>12. page[t].at = "clickTheme" /\ writer.theme = t => x # page[t].theme
      <3>1. SUFFICES ASSUME page[t].at = "clickTheme", writer.theme = t PROVE x # page[t].theme
        OBVIOUS
      <3>2. x = toggled(getTheme)
        BY <3>1 DEF InTheme
      <3>3. getTheme = page[t].theme
        BY <2>9, <3>1 DEF Saved, getTheme, Themes
      <3> QED
        BY <2>2, <2>3, <3>2, <3>3
    <2>13. page[t].at = "clickLang" /\ writer.lang = t => x # page[t].langButton
      <3>1. SUFFICES ASSUME page[t].at = "clickLang", writer.lang = t PROVE x # page[t].langButton
        OBVIOUS
      <3>2. x = toggled(getLang)
        BY <3>1 DEF InTheme
      <3>3. getLang = page[t].langButton
        BY <2>9, <3>1 DEF Saved, getLang, Langs
      <3> QED
        BY <2>2, <2>4, <3>2, <3>3
    <2>14. Toggling(t)'
      BY <2>1, <2>6, <2>7, <2>8, <2>12, <2>13 DEF Toggling
    <2>15. \/ r.at \in InTheme /\ r.value \in Themes
           \/ r.at \in InLang /\ r.value \in Langs
      BY <2>5, <2>6
    <2>16. r \in PageType
      BY <2>6
    <2>17. page' = [page EXCEPT ![t] = r]
      BY <2>1
    <2>18. UNCHANGED <<stored, access, writer>>
      BY <2>1
    <2> HIDE DEF r
    <2> QED
      BY <2>10, <2>11, <2>14, <2>15, <2>16, <2>17, <2>18, MovesKeepPages
  <1> QED
    BY <1>3, <1>4

\* setTheme shows on the button, where there is one, what it stores.
LEMMA SetThemeKeepsPages ==
    ASSUME PageInv, NEW t \in Tabs, setTheme(t)
    PROVE  PageInv'
  <1>1. page \in [Tabs -> PageType] /\ page[t] \in PageType
    BY PagesAre DEF PageInv
  <1>2. page[t].at \in InTheme /\ page[t].value \in Themes
    BY PagesAre DEF setTheme, PageInv, InTheme, InLang
  <1>3. CASE access # "open"
    <2>1. Throw(t)
      BY <1>3 DEF setTheme
    <2> QED
      BY <1>2, <2>1, ThrowKeepsPages
  <1>4. CASE access = "open"
    <2> DEFINE theme == page[t].value
               r == [page[t] EXCEPT !.at = AfterReturn(page[t].at), !.value = "unread", !.theme = theme,
                                    !.button = IF page[t].at = "head" THEN page[t].button ELSE theme]
    <2>1. /\ page' = [page EXCEPT ![t] = r]
          /\ stored' = [stored EXCEPT !.theme = theme]
          /\ writer' = [writer EXCEPT !.theme = t]
          /\ UNCHANGED access
      BY <1>1, <1>4 DEF setTheme
    <2>2. AfterReturn(page[t].at) = IF page[t].at = "head" THEN "loading"
                                    ELSE IF page[t].at = "domTheme" THEN "domLang" ELSE "ready"
      BY DEF AfterReturn
    <2>3. /\ r \in PageType /\ r.value = "unread" /\ r.at = AfterReturn(page[t].at) /\ r.theme = theme
          /\ page[t].at # "head" => r.button = theme
          /\ r.text = page[t].text /\ r.langButton = page[t].langButton
      BY <1>1, <1>2, <2>2 DEF PageType, Places, InLang
    <2>4. page'[t] = r
      BY <1>1, <2>1
    <2>5. Whole(t) /\ Saved(t)
      BY DEF PageInv
    <2>6. r.at = "ready" => page[t].at = "clickTheme"
      BY <1>2, <2>2, <2>3 DEF InTheme
    <2>7. Whole(t)'
      BY <2>2, <2>3, <2>4, <2>5, <2>6 DEF Whole, Live
    <2>8. /\ stored'.theme = theme /\ stored'.lang = stored.lang
          /\ writer'.theme = t /\ writer'.lang = writer.lang
      BY <2>1 DEF PageInv, TypeOK
    <2>9. writer.lang = t => page[t].at = "clickTheme"
      BY <1>2, <2>5 DEF Saved, Live, InTheme
    <2>10. Saved(t)'
      BY <1>2, <2>2, <2>3, <2>4, <2>5, <2>8, <2>9 DEF Saved, Live
    <2>11. Toggling(t)'
      BY <2>3, <2>4 DEF Toggling
    <2> HIDE DEF r, theme
    <2> QED
      BY <1>2, <2>1, <2>3, <2>7, <2>10, <2>11, WritesKeepPages DEF theme
  <1> QED
    BY <1>3, <1>4

\* The dictionary of a language has a text for every element.
LEMMA SetLangKeepsPages ==
    ASSUME PageInv, NEW t \in Tabs, setLang(t)
    PROVE  PageInv'
  <1>1. page \in [Tabs -> PageType] /\ page[t] \in PageType
    BY PagesAre DEF PageInv
  <1>2. page[t].at \in InLang /\ page[t].value \in Langs
    BY PagesAre DEF setLang, PageInv, InTheme, InLang
  <1>3. CASE access # "open"
    <2>1. Throw(t)
      BY <1>3 DEF setLang
    <2> QED
      BY <1>2, <2>1, ThrowKeepsPages
  <1>4. CASE access = "open"
    <2> DEFINE lang == page[t].value
               text == [s \in Sections |-> IF s \in translations[lang] THEN lang ELSE page[t].text[s]]
               r == [page[t] EXCEPT !.at = AfterReturn(page[t].at), !.value = "unread",
                                    !.text = text, !.langButton = lang]
    <2>1. /\ page' = [page EXCEPT ![t] = r]
          /\ stored' = [stored EXCEPT !.lang = lang]
          /\ writer' = [writer EXCEPT !.lang = t]
          /\ UNCHANGED access
      BY <1>1, <1>4 DEF setLang
    <2>2. AfterReturn(page[t].at) = "ready"
      BY <1>2 DEF AfterReturn, InLang
    <2>3. text = [s \in Sections |-> lang]
      BY <1>2 DEF translations
    <2>4. /\ r \in PageType /\ r.value = "unread" /\ r.at = "ready"
          /\ r.theme = page[t].theme /\ r.button = page[t].button
          /\ r.text = [s \in Sections |-> lang] /\ r.langButton = lang
      BY <1>1, <1>2, <2>2, <2>3 DEF PageType, Places
    <2>5. page'[t] = r
      BY <1>1, <2>1
    <2>6. Whole(t) /\ Saved(t)
      BY DEF PageInv
    <2>7. Whole(t)'
      BY <1>2, <2>4, <2>5, <2>6 DEF Whole, Live, InLang
    <2>8. /\ stored'.lang = lang /\ stored'.theme = stored.theme
          /\ writer'.lang = t /\ writer'.theme = writer.theme
      BY <2>1 DEF PageInv, TypeOK
    <2>9. Saved(t)'
      BY <1>2, <2>4, <2>5, <2>6, <2>8 DEF Saved, Live
    <2>10. Toggling(t)'
      BY <2>4, <2>5 DEF Toggling
    <2> HIDE DEF r, lang, text
    <2> QED
      BY <1>2, <2>1, <2>4, <2>7, <2>9, <2>10, WritesKeepPages DEF lang
  <1> QED
    BY <1>3, <1>4

\* A page is opened, is ready, is clicked.
LEMMA PlacesKeepPages ==
    ASSUME PageInv, NEW t \in Tabs, Open(t) \/ DomReady(t) \/ Click(t)
    PROVE  PageInv'
  <1>1. page \in [Tabs -> PageType] /\ page[t] \in PageType
    BY PagesAre DEF PageInv
  <1>2. PICK place \in {"head", "domTheme", "clickTheme", "clickLang"} :
            /\ page' = [page EXCEPT ![t].at = place]
            /\ UNCHANGED <<stored, access, writer>>
            /\ \/ page[t].at = "closed" /\ place = "head"
               \/ page[t].at = "loading" /\ place = "domTheme"
               \/ page[t].at = "ready" /\ place \in {"clickTheme", "clickLang"}
    BY DEF Open, DomReady, Click
  <1> DEFINE r == [page[t] EXCEPT !.at = place]
  <1>3. page' = [page EXCEPT ![t] = r] /\ page'[t] = r
    BY <1>1, <1>2
  <1>4. page[t].value = "unread"
    <2>1. page[t].at \notin InTheme \cup InLang
      BY <1>2 DEF InTheme, InLang
    <2> QED
      BY <2>1, PagesAre DEF PageInv
  <1>5. /\ r \in PageType /\ r.at = place /\ r.value = "unread"
        /\ r.theme = page[t].theme /\ r.button = page[t].button
        /\ r.text = page[t].text /\ r.langButton = page[t].langButton
    BY <1>1, <1>4 DEF PageType, Places, InTheme, InLang
  <1>6. Whole(t) /\ Saved(t)
    BY DEF PageInv
  <1>7. Whole(t)'
    BY <1>2, <1>3, <1>5, <1>6 DEF Whole, Live
  <1>8. Saved(t)'
    BY <1>2, <1>3, <1>5, <1>6 DEF Saved, Live
  <1>9. Toggling(t)'
    BY <1>3, <1>5 DEF Toggling
  <1>10. UNCHANGED <<stored, access, writer>>
    BY <1>2
  <1> HIDE DEF r
  <1> QED
    BY <1>3, <1>5, <1>7, <1>8, <1>9, <1>10, MovesKeepPages

\* A page that is closed has written nothing that it still shows.
LEMMA CloseKeepsPages ==
    ASSUME PageInv, NEW t \in Tabs, Close(t)
    PROVE  PageInv'
  <1>1. /\ page' = [page EXCEPT ![t] = Closed]
        /\ writer' = [k \in {"theme", "lang"} |-> IF writer[k] = t THEN "nobody" ELSE writer[k]]
        /\ UNCHANGED <<stored, access>>
    BY DEF Close
  <1>2. page \in [Tabs -> PageType]
    BY PagesAre DEF PageInv
  <1>3. Closed \in PageType
    BY DEF Closed, PageType, Places, Themes, Langs
  <1>4. page' \in [Tabs -> PageType] /\ \A u \in Tabs : page'[u] = IF u = t THEN Closed ELSE page[u]
    BY <1>1, <1>2, <1>3
  <1>5. writer \in [theme : Tabs \cup {"nobody"}, lang : Tabs \cup {"nobody"}]
    BY DEF PageInv, TypeOK
  <1>6. /\ writer' \in [theme : Tabs \cup {"nobody"}, lang : Tabs \cup {"nobody"}]
        /\ \A u \in Tabs : /\ writer'.theme = u => u # t /\ writer.theme = u
                           /\ writer'.lang = u => u # t /\ writer.lang = u
    BY <1>1, <1>5, TabAssumption
  <1>7. TypeOK'
    BY <1>1, <1>4, <1>6 DEF PageInv, TypeOK, PageType, Places, Closed
  <1>8. (Whole(t) /\ Saved(t) /\ Toggling(t))'
    BY <1>4, <1>6 DEF Whole, Saved, Toggling, Closed, Live
  <1>9. ASSUME NEW u \in Tabs, u # t PROVE (Whole(u) /\ Saved(u) /\ Toggling(u))'
    <2>1. page'[u] = page[u] /\ Whole(u) /\ Saved(u) /\ Toggling(u)
      BY <1>4, <1>9 DEF PageInv
    <2> QED
      BY <1>1, <1>6, <2>1 DEF Whole, Saved, Toggling
  <1> QED
    BY <1>7, <1>8, <1>9 DEF PageInv

\* The browser allows the storage or not, and the user empties it.
LEMMA StorageKeepsPages ==
    ASSUME PageInv, ChangeAccess \/ ClearStorage
    PROVE  PageInv'
  <1>1. CASE ChangeAccess
    BY <1>1 DEF ChangeAccess, PageInv, TypeOK, Whole, Saved, Toggling
  <1>2. CASE ClearStorage
    <2>1. UNCHANGED <<page, access>> /\ writer' = NoWriter
      BY <1>2 DEF ClearStorage
    <2>2. TypeOK'
      BY <1>2, <2>1 DEF ClearStorage, PageInv, TypeOK, NoWriter
    <2>3. ASSUME NEW t \in Tabs PROVE (Whole(t) /\ Saved(t) /\ Toggling(t))'
      <3>1. Whole(t)
        BY DEF PageInv
      <3> QED
        BY <2>1, <3>1, TabAssumption DEF Whole, Saved, Toggling, NoWriter
    <2> QED
      BY <2>2, <2>3 DEF PageInv
  <1> QED
    BY <1>1, <1>2

LEMMA NextKeepsPages == PageInv /\ [Next]_vars => PageInv'
  <1> SUFFICES ASSUME PageInv, [Next]_vars PROVE PageInv'
    OBVIOUS
  <1>1. CASE UNCHANGED vars
    BY <1>1 DEF vars, PageInv, TypeOK, Whole, Saved, Toggling
  <1>2. CASE Next
    BY <1>2, StorageKeepsPages, PlacesKeepPages, CloseKeepsPages, ReadKeepsPages,
       SetThemeKeepsPages, SetLangKeepsPages DEF Next
  <1> QED
    BY <1>1, <1>2

LEMMA PageInvHolds == Spec => []PageInv
  BY InitPages, NextKeepsPages, PTL DEF Spec

\* UiPreferences keeps its types: in particular only themes and languages are
\* ever stored, and a script is never given the one for the other.
THEOREM PagesTypeCorrect == Spec => []TypeOK
  <1>1. PageInv => TypeOK
    BY DEF PageInv
  <1> QED
    BY <1>1, PageInvHolds, PTL

\* A page whose buttons work is of one piece.
THEOREM LivePagesAreWhole == Spec => []LivePagesAgree
  <1>1. PageInv => LivePagesAgree
    BY DEF PageInv, LivePagesAgree, Whole, Live
  <1> QED
    BY <1>1, PageInvHolds, PTL

\* What a page shows is what it saved, until another page saves something else.
THEOREM PagesShowWhatTheySave == Spec => []ShownIsSaved
  <1>1. PageInv => ShownIsSaved
    BY DEF PageInv, ShownIsSaved, Saved
  <1> QED
    BY <1>1, PageInvHolds, PTL

\* A click changes the page, unless another page wrote since.
THEOREM ClicksWork == Spec => []ClicksChangeThePage
  <1>1. PageInv => ClicksChangeThePage
    BY DEF PageInv, ClicksChangeThePage, Toggling
  <1> QED
    BY <1>1, PageInvHolds, PTL
=============================================================================
