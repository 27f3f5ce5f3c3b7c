---------------------------- MODULE UiPreferences ----------------------------
(***************************************************************************)
(* The theme and the language of the pages of PamGateway.Ui (theme.js).    *)
(*                                                                         *)
(* Every page runs the script in its head, once more when its document is  *)
(* ready, and at every click on one of its two buttons.  The script keeps  *)
(* nothing of its own: it reads localStorage, which all pages share, and   *)
(* writes back what it shows.  A page is not told when another one writes. *)
(*                                                                         *)
(* A read of the storage, and a write with the changes to the page that    *)
(* follow it, are a step each: another page can come in between.  Either   *)
(* throws when the browser refuses the storage, the write alone when the   *)
(* storage is full.                                                        *)
(***************************************************************************)

CONSTANTS
    Tabs,
    Sections    \* groups of the elements with a data-i18n attribute

ASSUME TabAssumption == "nobody" \notin Tabs

Themes == {"light", "dark"}
Langs == {"ru", "en"}

VARIABLES
    stored,     \* localStorage: the theme and the language, or "none"
    access,     \* what the browser lets a page do with it
    page,       \* what a tab shows, and where its script is
    writer      \* history: the tab that wrote the theme, and the language, last

vars == <<stored, access, page, writer>>

-----------------------------------------------------------------------------

\* The keys the dictionary of a language has a text for.
translations == [lang \in Langs |-> Sections]

\* Where the script of a page is: in its head, past it, in the handler of
\* DOMContentLoaded, with its listeners, in one of them, or without them.
InTheme == {"head", "domTheme", "clickTheme"}
InLang == {"domLang", "clickLang"}
Closed == [at |-> "closed", value |-> "unread", theme |-> "none", button |-> "none",
           text |-> [s \in Sections |-> "served"], langButton |-> "none"]

NoWriter == [theme |-> "nobody", lang |-> "nobody"]

Init ==
    /\ stored = [theme |-> "none", lang |-> "none"]
    /\ access = "open"
    /\ page = [t \in Tabs |-> Closed]
    /\ writer = NoWriter

\* Cookies and site data are allowed or not, and the storage full or not.
ChangeAccess ==
    /\ \E a \in {"open", "full", "closed"} \ {access} : access' = a
    /\ UNCHANGED <<stored, page, writer>>

ClearStorage ==
    /\ stored' = [theme |-> "none", lang |-> "none"]
    /\ writer' = NoWriter
    /\ UNCHANGED <<access, page>>

-----------------------------------------------------------------------------

Open(t) ==
    /\ page[t].at = "closed"
    /\ page' = [page EXCEPT ![t].at = "head"]
    /\ UNCHANGED <<stored, access, writer>>

DomReady(t) ==
    /\ page[t].at = "loading"
    /\ page' = [page EXCEPT ![t].at = "domTheme"]
    /\ UNCHANGED <<stored, access, writer>>

Click(t) ==
    /\ page[t].at = "ready"
    /\ \E handler \in {"clickTheme", "clickLang"} : page' = [page EXCEPT ![t].at = handler]
    /\ UNCHANGED <<stored, access, writer>>

\* A script that runs is not interrupted.
Close(t) ==
    /\ page[t].at \in {"loading", "ready", "stuck"}
    /\ page' = [page EXCEPT ![t] = Closed]
    /\ writer' = [k \in {"theme", "lang"} |-> IF writer[k] = t THEN "nobody" ELSE writer[k]]
    /\ UNCHANGED <<stored, access>>

-----------------------------------------------------------------------------

\* What follows when a call returns: the listeners are attached after both.
AfterReturn(at) ==
    CASE at = "head"     -> "loading"
      [] at = "domTheme" -> "domLang"
      [] OTHER           -> "ready"

\* Mutant: the handler of DOMContentLoaded catches the exception.
GoOn(at) == IF at = "head" THEN "loading" ELSE "ready"

\* And when it throws: the head is over, the handler of DOMContentLoaded ends
\* before it attaches anything, that of a click has nothing more to do.
AfterThrow(at) ==
    CASE at = "head"                    -> "loading"
      [] at \in {"domTheme", "domLang"} -> "stuck"
      [] OTHER                          -> "ready"

Throw(t) ==
    /\ page' = [page EXCEPT ![t].at = AfterThrow(page[t].at), ![t].value = "unread"]
    /\ UNCHANGED <<stored, access, writer>>

getTheme == IF stored.theme = "none" THEN "light" ELSE stored.theme
getLang == IF stored.lang = "none" THEN "ru" ELSE stored.lang

\* Mutant: the comparisons are turned round.
same(x) == x

toggled(x) ==
    CASE x = "dark" -> "light" [] x = "light" -> "dark"
      [] x = "ru"   -> "en"    [] x = "en"    -> "ru"

\* getTheme, or getLang, with the argument it makes for the call that follows.
Read(t) ==
    LET found == IF page[t].at \in InTheme THEN getTheme ELSE getLang IN
    /\ page[t].at \in InTheme \cup InLang
    /\ page[t].value = "unread"
    /\ IF access = "closed" THEN Throw(t)
       ELSE /\ page' = [page EXCEPT ![t].value =
                            IF page[t].at \in {"clickTheme", "clickLang"} THEN toggled(found) ELSE found]
            /\ UNCHANGED <<stored, access, writer>>

\* Mutant: the page changes before the storage is written.
ShowAndSetTheme(t) ==
    LET theme == page[t].value
        shown == [page[t] EXCEPT !.value = "unread", !.theme = theme,
                                 !.button = IF page[t].at = "head" THEN @ ELSE theme] IN
    /\ page[t].at \in InTheme /\ page[t].value # "unread"
    /\ IF access # "open"
       THEN /\ page' = [page EXCEPT ![t] = [shown EXCEPT !.at = AfterThrow(page[t].at)]]
            /\ UNCHANGED <<stored, access, writer>>
       ELSE /\ page' = [page EXCEPT ![t] = [shown EXCEPT !.at = AfterReturn(page[t].at)]]
            /\ stored' = [stored EXCEPT !.theme = theme]
            /\ writer' = [writer EXCEPT !.theme = t]
            /\ UNCHANGED access

\* The buttons are in the body: in the head there is none.
setTheme(t) ==
    LET theme == page[t].value IN
    /\ page[t].at \in InTheme /\ page[t].value # "unread"
    /\ IF access # "open" THEN Throw(t)
       ELSE /\ stored' = [stored EXCEPT !.theme = theme]
            /\ page' = [page EXCEPT ![t].at = AfterReturn(page[t].at), ![t].value = "unread",
                                    ![t].theme = theme,
                                    ![t].button = IF page[t].at = "head" THEN @ ELSE theme]
            /\ writer' = [writer EXCEPT !.theme = t]
            /\ UNCHANGED access

\* An element whose key the dictionary does not have keeps its text.
setLang(t) ==
    LET lang == page[t].value IN
    /\ page[t].at \in InLang /\ page[t].value # "unread"
    /\ IF access # "open" THEN Throw(t)
       ELSE /\ stored' = [stored EXCEPT !.lang = lang]
            /\ page' = [page EXCEPT ![t].at = AfterReturn(page[t].at), ![t].value = "unread",
                                    ![t].text = [s \in Sections |->
                                        IF s \in translations[lang] THEN lang ELSE page[t].text[s]],
                                    ![t].langButton = lang]
            /\ writer' = [writer EXCEPT !.lang = t]
            /\ UNCHANGED access

Next ==
    \/ ChangeAccess
    \/ ClearStorage
    \/ \E t \in Tabs :
           \/ Open(t) \/ DomReady(t) \/ Click(t) \/ Close(t)
           \/ Read(t) \/ setTheme(t) \/ setLang(t)

Spec == Init /\ [][Next]_vars

-----------------------------------------------------------------------------

\* Every variable keeps its type.
TypeOK ==
    /\ stored \in [theme : Themes \cup {"none"}, lang : Langs \cup {"none"}]
    /\ access \in {"open", "full", "closed"}
    /\ page \in [Tabs -> [at : {"closed", "loading", "ready", "stuck"} \cup InTheme \cup InLang,
                          value : Themes \cup Langs \cup {"unread"},
                          theme : Themes \cup {"none"}, button : Themes \cup {"none"},
                          text : [Sections -> Langs \cup {"served"}],
                          langButton : Langs \cup {"none"}]]
    /\ \A t \in Tabs :
           \/ page[t].value = "unread"
           \/ page[t].at \in InTheme /\ page[t].value \in Themes
           \/ page[t].at \in InLang /\ page[t].value \in Langs
    /\ writer \in [theme : Tabs \cup {"nobody"}, lang : Tabs \cup {"nobody"}]

\* A page whose buttons work is of one piece: its theme is the one its button
\* says, and all its texts are in the language of its other button, wherever the
\* browser refused the storage while the page was loaded or clicked.
LivePagesAgree ==
    \A t \in Tabs : page[t].at \in {"ready", "clickTheme", "clickLang"} =>
        /\ page[t].theme = page[t].button
        /\ \A s \in Sections : page[t].text[s] = page[t].langButton

\* What a page shows is what it saved, until another page saves something else:
\* no page goes on with a setting that a reload would take back.
ShownIsSaved ==
    \A t \in Tabs :
        /\ writer.theme = t /\ page[t].at \notin {"closed", "head"} => stored.theme = page[t].theme
        /\ writer.lang = t /\ page[t].at \in {"ready", "clickTheme", "clickLang"} =>
               stored.lang = page[t].langButton

\* A click on a page changes what the page shows, unless the storage throws or
\* another page wrote since this one did: the handlers toggle what is stored and
\* not what is shown.
ClicksChangeThePage ==
    \A t \in Tabs : page[t].value # "unread" =>
        /\ page[t].at = "clickTheme" /\ writer.theme = t => page[t].value # page[t].theme
        /\ page[t].at = "clickLang" /\ writer.lang = t => page[t].value # page[t].langButton
=============================================================================
