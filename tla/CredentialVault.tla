--------------------------- MODULE CredentialVault ---------------------------
(***************************************************************************)
(* The credentials of one target: VaultController lets people check them   *)
(* out and in and rotates their passwords, and SessionsController checks   *)
(* one out for a session it creates and in again when it ends the session. *)
(*                                                                         *)
(* Both stores are plain lists in the memory of the API, whatever storage  *)
(* provider is configured.  A handler reads a record, decides, and writes  *)
(* two lists one after the other, with no lock around any of it, so that   *)
(* each read and each write is a step.  A write puts the whole record      *)
(* back, password included.  Two calls that have one credential's record   *)
(* in hand at once can undo each other's work; contended remembers the     *)
(* credentials this happened to, and the invariants say that whatever else *)
(* overlaps, it spoils nothing but those.                                  *)
(***************************************************************************)
EXTENDS Naturals, Sequences

CONSTANTS
    Credentials,
    BreakGlass,         \* credentials kept for emergencies
    Sessions,
    Person,             \* whoever checks out or in through the vault
    NoCredential,
    Calls,              \* requests to the API that are served at once
    MaxCheckouts,       \* bound: no call starts a checkout after these
    MaxRotations        \* bound: nor a rotation after these

ASSUME BreakGlassAssumption == BreakGlass \subseteq Credentials
ASSUME HolderAssumption == Person \notin Sessions /\ NoCredential \notin Credentials
ASSUME BoundsAssumption == MaxCheckouts \in Nat /\ MaxRotations \in Nat

VARIABLES
    credStatus,     \* status of each credential
    secret,         \* its password, by the rotation that made it
    rotations,      \* passwords generated so far
    checkouts,      \* the list of checkouts, oldest first
    session,        \* status of each session
    injected,       \* its InjectedCredentialId as the store gives it back
    call,           \* what each request is about to do
    provider,       \* Storage:Provider, where the sessions are kept
    contended       \* history: credentials two calls have worked on at once

vars == <<credStatus, secret, rotations, checkouts, session, injected, call,
          provider, contended>>

-----------------------------------------------------------------------------

\* CredentialStatus without Rotating and Disabled, which nothing assigns.
CredentialState == {"none", "Available", "CheckedOut"}
SessionState == {"none", "starting", "Active", "Terminated"}
Holder == Sessions \cup {Person}

\* given is the password in the reply to a checkout by a person; a session's
\* is read from the credential when its agent asks for it.
CheckoutRow == [cred : Credentials, holder : Holder, given : Nat, open : BOOLEAN]

\* entry is the checkout a check-in has found, 0 if none.
Work(steps, holders) ==
    [pc : steps, cred : Credentials, secret : Nat, holder : holders, entry : Nat]
Idle == [pc |-> "idle"]
CallState ==
    {Idle}
    \cup Work({"adding", "marking", "finding", "closing", "freeing"}, Holder)
    \cup Work({"starting"}, Sessions)
    \cup Work({"rotating"}, {Person})
    \cup [pc : {"looking"}, cred : Credentials, holder : Sessions]
    \cup [pc : {"ending"}, holder : Sessions]

\* A request working from the record of c it has just read.
Working(step, c, holder) ==
    [pc |-> step, cred |-> c, secret |-> secret[c], holder |-> holder, entry |-> 0]

\* Between reading the record of c and writing it back.
InHand(work, c) ==
    /\ work.pc \in {"adding", "marking", "finding", "closing", "freeing", "rotating"}
    /\ work.cred = c

Open(c) == {i \in DOMAIN checkouts : checkouts[i].cred = c /\ checkouts[i].open}

Init ==
    /\ credStatus = [c \in Credentials |-> "none"]
    /\ secret = [c \in Credentials |-> 0]
    /\ rotations = 0
    /\ checkouts = <<>>
    /\ session = [s \in Sessions |-> "none"]
    /\ injected = [s \in Sessions |-> NoCredential]
    /\ call = [h \in Calls |-> Idle]
    /\ provider \in {"InMemory", "Database"}
    /\ contended = {}

Step(h, next) ==
    /\ call' = [call EXCEPT ![h] = next]
    /\ contended' = contended \cup {c \in Credentials :
            InHand(next, c) /\ \E g \in Calls \ {h} : InHand(call[g], c)}
    /\ UNCHANGED provider
Begin(h, first) == call[h] = Idle /\ Step(h, first)
credVars == <<credStatus, secret, rotations>>
sessionVars == <<session, injected>>
callVars == <<call, provider, contended>>

-----------------------------------------------------------------------------
(* Taking a credential *)

CreateCredential(c) ==
    /\ credStatus[c] = "none"
    /\ credStatus' = [credStatus EXCEPT ![c] = "Available"]
    /\ UNCHANGED <<secret, rotations, checkouts, sessionVars, callVars>>

\* Mutant: a credential that is out is handed out again.
CheckoutAgain(h, c) ==
    /\ credStatus[c] # "none"
    /\ Len(checkouts) < MaxCheckouts
    /\ Begin(h, Working("adding", c, Person))
    /\ UNCHANGED <<credVars, checkouts, sessionVars>>

\* VaultController.Checkout.
Checkout(h, c) ==
    /\ credStatus[c] = "Available"
    /\ Len(checkouts) < MaxCheckouts
    /\ Begin(h, Working("adding", c, Person))
    /\ UNCHANGED <<credVars, checkouts, sessionVars>>

\* SessionsController.Create takes the first available credential of the
\* target that is not for emergencies.  Which one comes first is left open.
InjectCredential(h, s, c) ==
    /\ session[s] = "none"
    /\ credStatus[c] = "Available" /\ c \notin BreakGlass
    /\ Len(checkouts) < MaxCheckouts
    /\ Begin(h, Working("adding", c, s))
    /\ session' = [session EXCEPT ![s] = "starting"]
    /\ UNCHANGED <<credVars, checkouts, injected>>

\* Without one it creates the session all the same.
CreateBareSession(s) ==
    /\ session[s] = "none"
    /\ \A c \in Credentials \ BreakGlass : credStatus[c] # "Available"
    /\ session' = [session EXCEPT ![s] = "Active"]
    /\ UNCHANGED <<credVars, checkouts, injected, callVars>>

AddCheckout(h) ==
    /\ call[h].pc = "adding"
    /\ checkouts' = Append(checkouts, [cred |-> call[h].cred, holder |-> call[h].holder,
                                       given |-> call[h].secret, open |-> TRUE])
    /\ Step(h, [call[h] EXCEPT !.pc = "marking"])
    /\ UNCHANGED <<credVars, sessionVars>>

\* Mutant: a checkout by a person starts a session too.
MarkAndStart(h) ==
    /\ call[h].pc = "marking"
    /\ credStatus' = [credStatus EXCEPT ![call[h].cred] = "CheckedOut"]
    /\ secret' = [secret EXCEPT ![call[h].cred] = call[h].secret]
    /\ Step(h, [call[h] EXCEPT !.pc = "starting"])
    /\ UNCHANGED <<rotations, checkouts, sessionVars>>

MarkCheckedOut(h) ==
    /\ call[h].pc = "marking"
    /\ credStatus' = [credStatus EXCEPT ![call[h].cred] = "CheckedOut"]
    /\ secret' = [secret EXCEPT ![call[h].cred] = call[h].secret]
    /\ Step(h, IF call[h].holder = Person THEN Idle ELSE [call[h] EXCEPT !.pc = "starting"])
    /\ UNCHANGED <<rotations, checkouts, sessionVars>>

\* EfSessionStore has no column for the credential.
StartSession(h) ==
    /\ call[h].pc = "starting"
    /\ session' = [session EXCEPT ![call[h].holder] = "Active"]
    /\ injected' = [injected EXCEPT ![call[h].holder] =
                        IF provider = "Database" THEN NoCredential ELSE call[h].cred]
    /\ Step(h, Idle)
    /\ UNCHANGED <<credVars, checkouts>>

-----------------------------------------------------------------------------
(* Giving it back *)

\* VaultController.Checkin.
Checkin(h, c) ==
    /\ credStatus[c] = "CheckedOut"
    /\ Begin(h, Working("finding", c, Person))
    /\ UNCHANGED <<credVars, checkouts, sessionVars>>

\* Mutant: the session ends and its credential is forgotten.
TerminateOnly(h, s) ==
    /\ session[s] = "Active"
    /\ Begin(h, [pc |-> "ending", holder |-> s])
    /\ UNCHANGED <<credVars, checkouts, sessionVars>>

\* SessionsController.Terminate.
Terminate(h, s) ==
    /\ session[s] = "Active"
    /\ Begin(h, IF injected[s] = NoCredential
                THEN [pc |-> "ending", holder |-> s]
                ELSE [pc |-> "looking", cred |-> injected[s], holder |-> s])
    /\ UNCHANGED <<credVars, checkouts, sessionVars>>

\* CheckinCredential returns early from a credential that is not out.
LookUpCredential(h) ==
    /\ call[h].pc = "looking"
    /\ Step(h, IF credStatus[call[h].cred] = "CheckedOut"
               THEN Working("finding", call[h].cred, call[h].holder)
               ELSE [pc |-> "ending", holder |-> call[h].holder])
    /\ UNCHANGED <<credVars, checkouts, sessionVars>>

\* Both check-ins take the oldest open checkout of the credential, whosever.
FindCheckout(h) ==
    /\ call[h].pc = "finding"
    /\ \/ /\ Open(call[h].cred) = {}
          /\ Step(h, [call[h] EXCEPT !.pc = "freeing"])
       \/ \E i \in Open(call[h].cred) :
              /\ \A j \in Open(call[h].cred) : i <= j
              /\ Step(h, [call[h] EXCEPT !.pc = "closing", !.entry = i])
    /\ UNCHANGED <<credVars, checkouts, sessionVars>>

CloseCheckout(h) ==
    /\ call[h].pc = "closing"
    /\ checkouts' = [checkouts EXCEPT ![call[h].entry].open = FALSE]
    /\ Step(h, [call[h] EXCEPT !.pc = "freeing"])
    /\ UNCHANGED <<credVars, sessionVars>>

FreeCredential(h) ==
    /\ call[h].pc = "freeing"
    /\ credStatus' = [credStatus EXCEPT ![call[h].cred] = "Available"]
    /\ secret' = [secret EXCEPT ![call[h].cred] = call[h].secret]
    /\ Step(h, IF call[h].holder = Person THEN Idle
               ELSE [pc |-> "ending", holder |-> call[h].holder])
    /\ UNCHANGED <<rotations, checkouts, sessionVars>>

EndSession(h) ==
    /\ call[h].pc = "ending"
    /\ session' = [session EXCEPT ![call[h].holder] = "Terminated"]
    /\ Step(h, Idle)
    /\ UNCHANGED <<credVars, checkouts, injected>>

\* AgentsController.TerminateSession never looks at the credential.
EndSessionByAgent(s) ==
    /\ session[s] = "Active"
    /\ session' = [session EXCEPT ![s] = "Terminated"]
    /\ UNCHANGED <<credVars, checkouts, injected, callVars>>

\* The database fails to write the session, or the audit event before it.
FailSessionWrite(h) ==
    /\ provider = "Database"
    /\ call[h].pc \in {"starting", "ending"}
    /\ Step(h, Idle)
    /\ UNCHANGED <<credVars, checkouts, sessionVars>>

-----------------------------------------------------------------------------
(* Rotation *)

\* Mutant: a credential is rotated although someone has it.
RotateHeld(h, c) ==
    /\ credStatus[c] # "none"
    /\ rotations < MaxRotations
    /\ Begin(h, Working("rotating", c, Person))
    /\ UNCHANGED <<credVars, checkouts, sessionVars>>

Rotate(h, c) ==
    /\ credStatus[c] = "Available"
    /\ rotations < MaxRotations
    /\ Begin(h, Working("rotating", c, Person))
    /\ UNCHANGED <<credVars, checkouts, sessionVars>>

WriteRotation(h) ==
    /\ call[h].pc = "rotating"
    /\ rotations' = rotations + 1
    /\ secret' = [secret EXCEPT ![call[h].cred] = rotations + 1]
    /\ credStatus' = [credStatus EXCEPT ![call[h].cred] = "Available"]
    /\ Step(h, Idle)
    /\ UNCHANGED <<checkouts, sessionVars>>

-----------------------------------------------------------------------------

TakeStep(h) ==
    \/ \E c \in Credentials : Checkout(h, c) \/ \E s \in Sessions : InjectCredential(h, s, c)
    \/ AddCheckout(h)
    \/ MarkCheckedOut(h)
    \/ StartSession(h)

ReturnStep(h) ==
    \/ \E c \in Credentials : Checkin(h, c)
    \/ \E s \in Sessions : Terminate(h, s)
    \/ LookUpCredential(h)
    \/ FindCheckout(h)
    \/ CloseCheckout(h)
    \/ FreeCredential(h)
    \/ EndSession(h)
    \/ FailSessionWrite(h)

RotateStep(h) ==
    \/ \E c \in Credentials : Rotate(h, c)
    \/ WriteRotation(h)

Next ==
    \/ \E c \in Credentials : CreateCredential(c)
    \/ \E s \in Sessions : CreateBareSession(s) \/ EndSessionByAgent(s)
    \/ \E h \in Calls : TakeStep(h) \/ ReturnStep(h) \/ RotateStep(h)

Spec == Init /\ [][Next]_vars

-----------------------------------------------------------------------------
(* Invariants *)

\* Every variable keeps its type; only calls for a session get as far as
\* starting or ending one.
TypeOK ==
    /\ credStatus \in [Credentials -> CredentialState]
    /\ secret \in [Credentials -> Nat]
    /\ rotations \in Nat
    /\ checkouts \in Seq(CheckoutRow)
    /\ session \in [Sessions -> SessionState]
    /\ injected \in [Sessions -> Credentials \cup {NoCredential}]
    /\ call \in [Calls -> CallState]
    /\ provider \in {"InMemory", "Database"}
    /\ contended \subseteq Credentials

Uncontended == Credentials \ contended

\* A credential is in the hands of one holder: a second checkout is refused
\* until it is checked in.  Calls for other credentials, and for the same
\* sessions, may overlap as they like.
OneHolder == \A c \in Uncontended : \A i, j \in Open(c) : i = j

\* The same of every credential.  It is what the release notes promise, and
\* what two calls that both read the credential as Available break.
HandedOutOnce == \A c \in Credentials : \A i, j \in Open(c) : i = j

\* No call is between its two writes for the credential.
Settled(c) ==
    \A h \in Calls : call[h].pc \in {"marking", "freeing", "rotating"} => call[h].cred # c

\* The two lists agree: a credential is marked as checked out just when it has
\* an open checkout, so that it can neither be lost nor be given out twice;
\* neither the overlap of other calls, nor a session half written, nor an
\* agent that ends its session on its own comes between them.
StatusMatchesCheckouts ==
    \A c \in Uncontended : Settled(c) => (credStatus[c] = "CheckedOut" <=> Open(c) # {})

\* The password someone was given opens the target until the checkout is
\* closed: a credential is not rotated while it is out, and no record is
\* written back over a newer one.
PasswordInHandWorks ==
    \A c \in Uncontended :
        Settled(c) => \A i \in Open(c) : checkouts[i].given = secret[c]

\* When Terminate ends a session, nothing is checked out for it any more,
\* however its calls overlap with those of people and of other sessions.
TerminateReleases ==
    \A h \in Calls : call[h].pc = "ending" =>
        \A i \in DOMAIN checkouts :
            checkouts[i].open /\ checkouts[i].cred \in Uncontended =>
                checkouts[i].holder # call[h].holder

\* It does with the sessions in memory; a session read from the database has
\* lost its credential.
TerminateReleasesInMemory == provider = "InMemory" => TerminateReleases
=============================================================================
