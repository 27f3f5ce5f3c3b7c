------------------------ MODULE CredentialVaultProofs ------------------------
(***************************************************************************)
(* What overlapping calls leave intact in the vault, for any number of     *)
(* credentials, sessions, checkouts and calls and whichever store holds    *)
(* the sessions.  No lock keeps two calls from working on one credential;  *)
(* the theorems are about the credentials this has not happened to, while  *)
(* everything else overlaps as it likes.                                   *)
(***************************************************************************)
EXTENDS CredentialVault, TLAPS

-----------------------------------------------------------------------------
(* Type correctness, for any number of calls *)

LEMMA InitTypeOK == Init => TypeOK
BY HolderAssumption DEF Init, TypeOK, CredentialState, SessionState, CallState, Idle

\* The records the handlers put into call.
LEMMA WorkingTyped ==
  ASSUME TypeOK, NEW c \in Credentials, NEW x \in Holder
  PROVE  /\ Working("adding", c, x) \in CallState
         /\ Working("finding", c, x) \in CallState
         /\ Working("rotating", c, Person) \in CallState
BY DEF TypeOK, Working, CallState, Work, Holder

LEMMA WorkKinds ==
  ASSUME TypeOK, NEW h \in Calls
  PROVE  /\ call[h].pc \in {"adding", "marking", "finding", "closing", "freeing"} =>
                call[h] \in Work({"adding", "marking", "finding", "closing", "freeing"}, Holder)
         /\ call[h].pc = "starting" => call[h] \in Work({"starting"}, Sessions)
         /\ call[h].pc = "rotating" => call[h] \in Work({"rotating"}, {Person})
         /\ call[h].pc = "looking" =>
                call[h] \in [pc : {"looking"}, cred : Credentials, holder : Sessions]
         /\ call[h].pc = "ending" => call[h] \in [pc : {"ending"}, holder : Sessions]
BY DEF TypeOK, CallState, Work, Idle

\* What a step of one call does to the calls, and to the history of them.
LEMMA StepTyped ==
  ASSUME TypeOK, NEW h \in Calls, NEW k \in CallState, Step(h, k)
  PROVE  /\ call' \in [Calls -> CallState]
         /\ call'[h] = k
         /\ \A g \in Calls : g # h => call'[g] = call[g]
         /\ provider' = provider
         /\ contended \subseteq contended' /\ contended' \subseteq Credentials
         /\ \A c \in Credentials, g \in Calls :
                c \notin contended' /\ g # h => ~(InHand(k, c) /\ InHand(call[g], c))
BY DEF TypeOK, Step

LEMMA NextTypeOK == TypeOK /\ [Next]_vars => TypeOK'
<1> SUFFICES ASSUME TypeOK, [Next]_vars PROVE TypeOK'
  OBVIOUS
<1> USE DEF TypeOK, Step, Begin, credVars, sessionVars, callVars, CredentialState, SessionState
<1>1. CASE UNCHANGED vars
  BY <1>1 DEF vars
<1>2. ASSUME NEW c \in Credentials, CreateCredential(c) PROVE TypeOK'
  BY <1>2 DEF CreateCredential
<1>3. ASSUME NEW s \in Sessions, CreateBareSession(s) \/ EndSessionByAgent(s) PROVE TypeOK'
  BY <1>3 DEF CreateBareSession, EndSessionByAgent
<1>4. ASSUME NEW h \in Calls, TakeStep(h) PROVE TypeOK'
  <2>1. ASSUME NEW c \in Credentials, Checkout(h, c) PROVE TypeOK'
    BY <1>4, <2>1, WorkingTyped DEF Checkout, Holder
  <2>2. ASSUME NEW c \in Credentials, NEW s \in Sessions, InjectCredential(h, s, c) PROVE TypeOK'
    BY <1>4, <2>2, WorkingTyped DEF InjectCredential, Holder
  <2>3. CASE AddCheckout(h)
    <3>1. call[h] \in Work({"adding", "marking", "finding", "closing", "freeing"}, Holder)
      BY <1>4, <2>3, WorkKinds DEF AddCheckout
    <3>2. [call[h] EXCEPT !.pc = "marking"] \in CallState
      BY <3>1 DEF Work, CallState
    <3>3. checkouts' \in Seq(CheckoutRow)
      BY <2>3, <3>1 DEF AddCheckout, CheckoutRow, Work
    <3> QED BY <1>4, <2>3, <3>2, <3>3 DEF AddCheckout
  <2>4. CASE MarkCheckedOut(h)
    <3>1. call[h] \in Work({"adding", "marking", "finding", "closing", "freeing"}, Holder)
      BY <1>4, <2>4, WorkKinds DEF MarkCheckedOut
    <3>2. call[h].holder # Person => [call[h] EXCEPT !.pc = "starting"] \in CallState
      BY <3>1 DEF Work, CallState, Holder
    <3>3. Idle \in CallState
      BY DEF CallState
    <3>4. call[h].cred \in Credentials /\ call[h].secret \in Nat
      BY <3>1 DEF Work
    <3> QED BY <1>4, <2>4, <3>2, <3>3, <3>4 DEF MarkCheckedOut
  <2>5. CASE StartSession(h)
    <3>1. call[h].cred \in Credentials /\ call[h].holder \in Sessions
      BY <1>4, <2>5, WorkKinds DEF StartSession, Work
    <3>2. Idle \in CallState
      BY DEF CallState
    <3> QED BY <1>4, <2>5, <3>1, <3>2 DEF StartSession
  <2> QED BY <1>4, <2>1, <2>2, <2>3, <2>4, <2>5 DEF TakeStep
<1>5. ASSUME NEW h \in Calls, ReturnStep(h) PROVE TypeOK'
  <2>0. Idle \in CallState
    BY DEF CallState
  <2>1. ASSUME NEW c \in Credentials, Checkin(h, c) PROVE TypeOK'
    BY <1>5, <2>1, WorkingTyped DEF Checkin, Holder
  <2>2. ASSUME NEW s \in Sessions, Terminate(h, s) PROVE TypeOK'
    <3>1. /\ [pc |-> "ending", holder |-> s] \in CallState
          /\ injected[s] # NoCredential =>
                [pc |-> "looking", cred |-> injected[s], holder |-> s] \in CallState
      BY <2>2 DEF CallState
    <3> QED BY <1>5, <2>2, <3>1 DEF Terminate
  <2>3. CASE LookUpCredential(h)
    <3>1. call[h].cred \in Credentials /\ call[h].holder \in Sessions
      BY <1>5, <2>3, WorkKinds DEF LookUpCredential
    <3>2. [pc |-> "ending", holder |-> call[h].holder] \in CallState
      BY <3>1 DEF CallState
    <3> QED BY <1>5, <2>3, <3>1, <3>2, WorkingTyped DEF LookUpCredential, Holder
  <2>4. CASE FindCheckout(h)
    <3>1. call[h] \in Work({"adding", "marking", "finding", "closing", "freeing"}, Holder)
      BY <1>5, <2>4, WorkKinds DEF FindCheckout
    <3>2. [call[h] EXCEPT !.pc = "freeing"] \in CallState
      BY <3>1 DEF Work, CallState
    <3>3. \A i \in Nat : [call[h] EXCEPT !.pc = "closing", !.entry = i] \in CallState
      BY <3>1 DEF Work, CallState
    <3>4. Open(call[h].cred) \subseteq Nat
      BY DEF Open
    <3>5. PICK k \in CallState : Step(h, k) /\ UNCHANGED <<credVars, checkouts, sessionVars>>
      BY <2>4, <3>2, <3>3, <3>4 DEF FindCheckout
    <3> HIDE DEF Step
    <3> QED BY <1>5, <3>5, StepTyped
  <2>5. CASE CloseCheckout(h)
    <3>1. call[h] \in Work({"adding", "marking", "finding", "closing", "freeing"}, Holder)
      BY <1>5, <2>5, WorkKinds DEF CloseCheckout
    <3>2. [call[h] EXCEPT !.pc = "freeing"] \in CallState
      BY <3>1 DEF Work, CallState
    <3>3. checkouts' \in Seq(CheckoutRow)
      <4> PICK n \in Nat : checkouts \in [1 .. n -> CheckoutRow]
        OBVIOUS
      <4>1. \A i \in 1 .. n : [checkouts[i] EXCEPT !.open = FALSE] \in CheckoutRow
        BY DEF CheckoutRow
      <4>2. checkouts' \in [1 .. n -> CheckoutRow]
        BY <2>5, <4>1 DEF CloseCheckout
      <4>3. \A f \in [1 .. n -> CheckoutRow] : f \in Seq(CheckoutRow)
        OBVIOUS
      <4> QED BY <4>2, <4>3
    <3> QED BY <1>5, <2>5, <3>2, <3>3 DEF CloseCheckout
  <2>6. CASE FreeCredential(h)
    <3>1. call[h] \in Work({"adding", "marking", "finding", "closing", "freeing"}, Holder)
      BY <1>5, <2>6, WorkKinds DEF FreeCredential
    <3>2. call[h].holder # Person => [pc |-> "ending", holder |-> call[h].holder] \in CallState
      BY <3>1 DEF Work, CallState, Holder
    <3>3. call[h].cred \in Credentials /\ call[h].secret \in Nat
      BY <3>1 DEF Work
    <3> QED BY <1>5, <2>0, <2>6, <3>2, <3>3 DEF FreeCredential
  <2>7. CASE EndSession(h)
    <3>1. call[h].holder \in Sessions
      BY <1>5, <2>7, WorkKinds DEF EndSession
    <3> QED BY <1>5, <2>0, <2>7, <3>1 DEF EndSession
  <2>8. CASE FailSessionWrite(h)
    BY <1>5, <2>0, <2>8 DEF FailSessionWrite
  <2> QED BY <1>5, <2>1, <2>2, <2>3, <2>4, <2>5, <2>6, <2>7, <2>8 DEF ReturnStep
<1>6. ASSUME NEW h \in Calls, RotateStep(h) PROVE TypeOK'
  <2>1. ASSUME NEW c \in Credentials, Rotate(h, c) PROVE TypeOK'
    BY <1>6, <2>1, WorkingTyped DEF Rotate, Holder
  <2>2. CASE WriteRotation(h)
    <3>1. call[h].cred \in Credentials
      BY <1>6, <2>2, WorkKinds DEF WriteRotation, Work
    <3>2. Idle \in CallState
      BY DEF CallState
    <3> QED BY <1>6, <2>2, <3>1, <3>2 DEF WriteRotation
  <2> QED BY <1>6, <2>1, <2>2 DEF RotateStep
<1> QED BY <1>1, <1>2, <1>3, <1>4, <1>5, <1>6 DEF Next

\* Every variable keeps its type, however the calls interleave.
THEOREM VaultTypeCorrect == Spec => []TypeOK
<1> QED BY InitTypeOK, NextTypeOK, PTL DEF Spec

-----------------------------------------------------------------------------
(* What opening and closing a checkout does to the list *)

LEMMA OpenAdded ==
  ASSUME TypeOK, NEW row \in CheckoutRow, row.open, checkouts' = Append(checkouts, row)
  PROVE  /\ \A c \in Credentials :
                Open(c)' = IF c = row.cred THEN Open(c) \cup {Len(checkouts) + 1} ELSE Open(c)
         /\ \A i \in DOMAIN checkouts : checkouts'[i] = checkouts[i]
         /\ DOMAIN checkouts' = DOMAIN checkouts \cup {Len(checkouts) + 1}
         /\ checkouts'[Len(checkouts) + 1] = row
         /\ Len(checkouts) + 1 \notin DOMAIN checkouts
<1>1. /\ DOMAIN checkouts = 1 .. Len(checkouts) /\ Len(checkouts) \in Nat
      /\ DOMAIN checkouts' = 1 .. (Len(checkouts) + 1)
      /\ checkouts'[Len(checkouts) + 1] = row
  BY DEF TypeOK
<1>2. \A i \in DOMAIN checkouts : checkouts'[i] = checkouts[i]
  BY <1>1 DEF TypeOK
<1>3. DOMAIN checkouts' = DOMAIN checkouts \cup {Len(checkouts) + 1}
  BY <1>1
<1> QED BY <1>1, <1>2, <1>3 DEF Open

LEMMA OpenClosed ==
  ASSUME TypeOK, NEW e \in DOMAIN checkouts,
         checkouts' = [checkouts EXCEPT ![e].open = FALSE]
  PROVE  /\ \A c \in Credentials : Open(c)' = Open(c) \ {e}
         /\ DOMAIN checkouts' = DOMAIN checkouts
         /\ \A i \in DOMAIN checkouts :
                /\ checkouts'[i].cred = checkouts[i].cred
                /\ checkouts'[i].given = checkouts[i].given
                /\ checkouts'[i].holder = checkouts[i].holder
                /\ checkouts'[i].open = (checkouts[i].open /\ i # e)
<1>1. \A i \in DOMAIN checkouts : checkouts[i] \in CheckoutRow
  BY DEF TypeOK
<1>2. /\ DOMAIN checkouts' = DOMAIN checkouts
      /\ \A i \in DOMAIN checkouts :
            /\ checkouts'[i].cred = checkouts[i].cred
            /\ checkouts'[i].given = checkouts[i].given
            /\ checkouts'[i].holder = checkouts[i].holder
            /\ checkouts'[i].open = (checkouts[i].open /\ i # e)
  BY <1>1 DEF CheckoutRow
<1> QED BY <1>2 DEF Open

-----------------------------------------------------------------------------
(* The two lists agree *)

Matches(c) ==
    /\ credStatus[c] = "CheckedOut" <=> Open(c) # {}
    /\ \A i \in Open(c) : checkouts[i].given = secret[c]

\* The lists disagree about c only while a call has written the one and not yet
\* the other.
Written(c) == \E h \in Calls : call[h].pc \in {"marking", "freeing"} /\ call[h].cred = c

\* What a call has read is still so.
Current(h) ==
    /\ call[h].pc \in {"adding", "rotating"} => credStatus[call[h].cred] = "Available"
    /\ call[h].pc \in {"adding", "finding", "closing", "freeing"} =>
            call[h].secret = secret[call[h].cred]
    /\ call[h].pc \in {"finding", "closing"} => credStatus[call[h].cred] = "CheckedOut"
    /\ call[h].pc = "marking" =>
            /\ Open(call[h].cred) # {}
            /\ \A i \in Open(call[h].cred) :
                    checkouts[i].given = call[h].secret /\ checkouts[i].holder = call[h].holder
    /\ call[h].pc = "closing" => call[h].entry \in Open(call[h].cred)
    /\ call[h].pc = "freeing" => Open(call[h].cred) = {}

\* All is well with c, and with the call that has it in hand.
Right(c) ==
    /\ \A i, j \in Open(c) : i = j
    /\ ~ Written(c) => Matches(c)
    /\ \A h \in Calls : InHand(call[h], c) => Current(h)

\* No two calls have it in hand.
Alone(c) == \A g, h \in Calls : InHand(call[g], c) /\ InHand(call[h], c) => g = h

\* A call closes a checkout of the credential it works on, also of one that is
\* contended: that is why it spoils no other.
Entries ==
    \A h \in Calls : call[h].pc = "closing" =>
        /\ call[h].entry \in DOMAIN checkouts
        /\ checkouts[call[h].entry].cred = call[h].cred

VaultInv ==
    /\ TypeOK
    /\ Entries
    /\ \A c \in Uncontended : Alone(c) /\ Right(c)

LEMMA InitVaultInv == Init => VaultInv
<1> SUFFICES ASSUME Init PROVE VaultInv
  OBVIOUS
<1>1. \A c \in Credentials : Open(c) = {}
  <2>1. checkouts = <<>> /\ Len(checkouts) = 0 /\ checkouts \in Seq(CheckoutRow)
    BY DEF Init
  <2>2. DOMAIN checkouts = {}
    BY <2>1
  <2> QED BY <2>2 DEF Open
<1>2. \A c \in Credentials : credStatus[c] # "CheckedOut"
  BY DEF Init
<1>3. \A h \in Calls : call[h].pc = "idle"
  BY DEF Init, Idle
<1>4. \A c \in Credentials : Alone(c) /\ Right(c)
  BY <1>1, <1>2, <1>3 DEF Alone, Right, Matches, InHand
<1>5. Entries
  BY <1>3 DEF Entries
<1> QED BY <1>4, <1>5, InitTypeOK DEF VaultInv, Uncontended

\* While a call works on c and c is not contended, no other does, before its
\* step or after.
LEMMA OthersHandsOff ==
  ASSUME VaultInv, NEW h \in Calls, NEW k \in CallState, Step(h, k),
         NEW c \in Credentials, c \notin contended', InHand(call[h], c) \/ InHand(k, c),
         NEW g \in Calls, g # h
  PROVE  ~ InHand(call[g], c) /\ ~ InHand(call'[g], c)
<1>1. call'[g] = call[g] /\ c \in Uncontended /\ ~(InHand(k, c) /\ InHand(call[g], c))
  BY StepTyped DEF VaultInv, Uncontended
<1>2. InHand(call[h], c) => ~ InHand(call[g], c)
  BY <1>1 DEF VaultInv, Alone
<1> QED BY <1>1, <1>2

LEMMA AloneStep ==
  ASSUME VaultInv, NEW h \in Calls, NEW k \in CallState, Step(h, k),
         NEW c \in Credentials, c \notin contended'
  PROVE  Alone(c)'
<1> SUFFICES ASSUME NEW f \in Calls, NEW g \in Calls, InHand(call'[f], c), InHand(call'[g], c)
             PROVE  f = g
  BY DEF Alone, InHand
<1>1. /\ call'[h] = k /\ c \in Uncontended
      /\ f # h => call'[f] = call[f]
      /\ g # h => call'[g] = call[g]
  BY StepTyped DEF VaultInv, Uncontended
<1>2. CASE f # h /\ g # h
  BY <1>1, <1>2 DEF VaultInv, Alone
<1>3. CASE f = h \/ g = h
  <2>1. InHand(k, c)
    BY <1>1, <1>3
  <2>2. f = h /\ g = h
    BY <1>3, <2>1, OthersHandsOff
  <2> QED BY <2>2
<1> QED BY <1>2, <1>3

\* A step does not touch the record or the open checkouts of d.
Spared(d) ==
    /\ Open(d)' = Open(d)
    /\ credStatus'[d] = credStatus[d] /\ secret'[d] = secret[d]
    /\ \A i \in Open(d) : /\ checkouts'[i].given = checkouts[i].given
                          /\ checkouts'[i].holder = checkouts[i].holder

\* A credential that a step does not touch, and whose calls it does not move,
\* stays as right as it was.
LEMMA RightUntouched ==
  ASSUME NEW d \in Credentials, Right(d), Spared(d),
         \A g \in Calls : InHand(call[g], d) \/ InHand(call'[g], d) => call'[g] = call[g]
  PROVE  Right(d)'
<1> USE DEF Spared
<1>1. \A i, j \in Open(d)' : i = j
  BY DEF Right
<1>2. ASSUME ~ Written(d)' PROVE Matches(d)'
  <2>1. ~ Written(d)
    BY <1>2 DEF Written, InHand
  <2> QED BY <2>1 DEF Right, Matches
<1>3. ASSUME NEW g \in Calls, InHand(call'[g], d) PROVE Current(g)'
  <2>1. call'[g] = call[g] /\ InHand(call[g], d) /\ Current(g) /\ call[g].cred = d
    BY <1>3 DEF Right, InHand
  <2> QED BY <2>1 DEF Current
<1>4. \A g \in Calls : InHand(call[g], d)' => Current(g)'
  BY <1>3 DEF InHand
<1> QED BY <1>1, <1>2, <1>4 DEF Right

\* A step of a call for c spoils nothing but c, and not c either if it leaves
\* it right whenever it is not contended.
LEMMA RightStep ==
  ASSUME VaultInv, NEW h \in Calls, NEW k \in CallState, Step(h, k),
         NEW c \in Credentials, InHand(call[h], c) \/ InHand(k, c),
         \A d \in Credentials \ {c} :
            ~ InHand(call[h], d) /\ ~ InHand(k, d) /\ Spared(d),
         c \notin contended' =>
            /\ \A i, j \in Open(c)' : i = j
            /\ Matches(c)' \/ (k.pc \in {"marking", "freeing"} /\ k.cred = c)
            /\ Current(h)'
  PROVE  \A d \in Uncontended' : Alone(d)' /\ Right(d)'
<1> SUFFICES ASSUME NEW d \in Credentials, d \notin contended'
             PROVE  Right(d)'
  BY AloneStep DEF Uncontended
<1>1. /\ call'[h] = k /\ d \in Uncontended
      /\ \A g \in Calls : g # h => call'[g] = call[g]
  BY StepTyped DEF VaultInv, Uncontended
<1>2. CASE d # c
  <2>1. \A g \in Calls : InHand(call[g], d) \/ InHand(call'[g], d) => call'[g] = call[g]
    BY <1>1, <1>2
  <2>2. Right(d)
    BY <1>1 DEF VaultInv
  <2> QED BY <1>2, <2>1, <2>2, RightUntouched
<1>3. CASE d = c
  <2>1. \A g \in Calls : InHand(call'[g], c) => g = h
    BY <1>3, OthersHandsOff
  <2>2. ~ Written(c)' => Matches(c)'
    BY <1>1, <1>3 DEF Written
  <2>3. \A g \in Calls : InHand(call[g], c)' => Current(g)'
    BY <1>3, <2>1 DEF InHand
  <2> QED BY <1>3, <2>2, <2>3 DEF Right
<1> QED BY <1>2, <1>3

\* A step of a call that is about the session alone, or about its reply.
LEMMA RightAside ==
  ASSUME VaultInv, NEW h \in Calls, NEW k \in CallState, Step(h, k),
         \A d \in Credentials : ~ InHand(call[h], d) /\ ~ InHand(k, d),
         UNCHANGED <<credStatus, secret, checkouts>>
  PROVE  \A d \in Uncontended' : Alone(d)' /\ Right(d)'
<1> SUFFICES ASSUME NEW d \in Credentials, d \notin contended'
             PROVE  Right(d)'
  BY AloneStep DEF Uncontended
<1>1. /\ call'[h] = k /\ d \in Uncontended
      /\ \A g \in Calls : g # h => call'[g] = call[g]
  BY StepTyped DEF VaultInv, Uncontended
<1>2. \A g \in Calls : InHand(call[g], d) \/ InHand(call'[g], d) => call'[g] = call[g]
  BY <1>1
<1>3. Right(d) /\ Spared(d)
  BY <1>1 DEF VaultInv, Open, Spared
<1> QED BY <1>2, <1>3, RightUntouched

\* Rows keep their credential, so that a call that has found one still has it.
LEMMA EntriesStep ==
  ASSUME VaultInv, NEW h \in Calls, NEW k \in CallState, Step(h, k),
         \A i \in DOMAIN checkouts : i \in DOMAIN checkouts' /\ checkouts'[i].cred = checkouts[i].cred,
         k.pc = "closing" => k.entry \in DOMAIN checkouts /\ checkouts[k.entry].cred = k.cred
  PROVE  Entries'
BY StepTyped DEF VaultInv, Entries

LEMMA NextVaultInv == VaultInv /\ [Next]_vars => VaultInv'
<1> SUFFICES ASSUME VaultInv, [Next]_vars PROVE VaultInv'
  OBVIOUS
<1> DEFINE Good == Entries /\ \A d \in Uncontended : Alone(d) /\ Right(d)
<1>0. TypeOK /\ TypeOK'
  BY NextTypeOK DEF VaultInv
<1> SUFFICES Good'
  BY <1>0 DEF VaultInv
<1>1. ASSUME checkouts' = checkouts PROVE \A c \in Credentials : Open(c)' = Open(c)
  BY <1>1 DEF Open
\* Steps that write neither list and no call.
<1>2. ASSUME UNCHANGED <<credVars, checkouts, callVars>> PROVE Good'
  <2>1. Entries'
    BY <1>2 DEF VaultInv, Entries, callVars
  <2>2. ASSUME NEW d \in Uncontended' PROVE Alone(d)' /\ Right(d)'
    <3>1. d \in Uncontended /\ call' = call
      BY <1>2, <2>2 DEF Uncontended, callVars
    <3>2. Alone(d)'
      BY <3>1 DEF VaultInv, Alone
    <3>3. d \in Credentials /\ Right(d) /\ Open(d)' = Open(d)
      BY <1>1, <1>2, <3>1 DEF VaultInv, Uncontended
    <3>4. Right(d)'
      BY <1>2, <3>1, <3>3, RightUntouched DEF credVars, Spared
    <3> QED BY <3>2, <3>4
  <2> QED BY <2>1, <2>2
<1>3. ASSUME NEW c \in Credentials, CreateCredential(c) PROVE Good'
  <2>1. /\ UNCHANGED <<secret, checkouts, call, contended>>
        /\ credStatus' = [credStatus EXCEPT ![c] = "Available"] /\ credStatus[c] = "none"
    BY <1>3 DEF CreateCredential, callVars
  <2>2. Entries'
    BY <2>1 DEF VaultInv, Entries
  <2>3. ASSUME NEW d \in Uncontended' PROVE Alone(d)' /\ Right(d)'
    <3>1. d \in Uncontended /\ d \in Credentials /\ Alone(d) /\ Right(d)
      BY <2>1, <2>3 DEF Uncontended, VaultInv
    <3>2. Alone(d)'
      BY <2>1, <3>1 DEF Alone
    <3>3. Open(d)' = Open(d) /\ secret'[d] = secret[d]
      BY <1>1, <2>1, <3>1
    <3>4. CASE d # c
      <4>1. credStatus'[d] = credStatus[d]
        BY <1>0, <2>1, <3>1, <3>4 DEF TypeOK
      <4> QED BY <2>1, <3>1, <3>2, <3>3, <4>1, RightUntouched DEF Spared
    <3>5. CASE d = c
      <4>1. credStatus'[d] = "Available"
        BY <1>0, <2>1, <3>1, <3>5 DEF TypeOK
      <4>2. \A i, j \in Open(d)' : i = j
        BY <3>1, <3>3 DEF Right
      <4>3. ~ Written(d)' => Matches(d)'
        BY <2>1, <3>1, <3>3, <3>5, <4>1 DEF Right, Written, Matches
      <4>4. ASSUME NEW g \in Calls, InHand(call[g], d) PROVE Current(g)'
        <5>1. Current(g) /\ call[g].cred = d
          BY <3>1, <4>4 DEF Right, InHand
        <5>2. ~ call[g].pc \in {"adding", "finding", "closing", "rotating"}
          BY <2>1, <3>5, <5>1 DEF Current
        <5> QED BY <2>1, <3>3, <5>1, <5>2 DEF Current
      <4>5. \A g \in Calls : InHand(call[g], d)' => Current(g)'
        BY <2>1, <4>4 DEF InHand
      <4> QED BY <3>2, <4>2, <4>3, <4>5 DEF Right
    <3> QED BY <3>4, <3>5
  <2> QED BY <2>2, <2>3
\* A call reads a record and has it in hand.
<1>4. ASSUME NEW h \in Calls, NEW c \in Credentials, NEW x \in Holder,
             NEW step \in {"adding", "finding", "rotating"}, step = "rotating" => x = Person,
             credStatus[c] = IF step = "finding" THEN "CheckedOut" ELSE "Available",
             \A d \in Credentials : ~ InHand(call[h], d),
             Step(h, Working(step, c, x)), UNCHANGED <<credVars, checkouts>>
      PROVE  Good'
  <2>1. PICK k \in CallState : k = Working(step, c, x)
    BY <1>0, <1>4, WorkingTyped
  <2>2. k.pc = step /\ k.cred = c /\ k.secret = secret[c] /\ InHand(k, c)
        /\ \A d \in Credentials \ {c} : ~ InHand(k, d)
    BY <1>4, <2>1 DEF Working, InHand
  <2>3. Step(h, k) /\ call'[h] = k /\ UNCHANGED <<credStatus, secret, checkouts>>
    BY <1>0, <1>4, <2>1, StepTyped DEF credVars
  <2>4. \A d \in Credentials : Open(d)' = Open(d)
    BY <1>1, <2>3
  <2>5. Current(h)'
    BY <1>4, <2>2, <2>3 DEF Current
  <2>6. ASSUME c \notin contended' PROVE (\A i, j \in Open(c)' : i = j) /\ Matches(c)'
    <3>1. c \in Uncontended
      BY <1>0, <2>3, <2>6, StepTyped DEF Uncontended
    <3>2. Right(c)
      BY <3>1 DEF VaultInv
    <3>3. \A g \in Calls : ~ InHand(call[g], c)
      BY <1>4, <2>2, <2>3, <2>6, OthersHandsOff
    <3>4. Matches(c)
      BY <3>2, <3>3 DEF Right, Written, InHand
    <3> QED BY <2>3, <2>4, <3>2, <3>4 DEF Right, Matches
  <2>7. Entries'
    BY <1>4, <2>2, <2>3, EntriesStep
  <2>8. \A d \in Uncontended' : Alone(d)' /\ Right(d)'
    BY <1>4, <2>2, <2>3, <2>4, <2>5, <2>6, RightStep DEF Spared
  <2> QED BY <2>7, <2>8
\* A call moves on without a record in hand.
<1>5. ASSUME NEW h \in Calls, NEW k \in CallState, k.pc \in {"idle", "looking", "ending"}, Step(h, k),
             \A d \in Credentials : ~ InHand(call[h], d), UNCHANGED <<credVars, checkouts>>
      PROVE  Good'
  <2>1. \A d \in Credentials : ~ InHand(k, d)
    BY <1>5 DEF InHand
  <2>2. \A d \in Uncontended' : Alone(d)' /\ Right(d)'
    BY <1>5, <2>1, RightAside DEF credVars
  <2>3. Entries'
    BY <1>5, EntriesStep
  <2> QED BY <2>2, <2>3
<1>a. Idle \in CallState /\ Idle.pc = "idle"
  BY DEF CallState, Idle
<1>b. ASSUME NEW h \in Calls,
             call[h].pc \in {"adding", "marking", "finding", "closing", "freeing", "rotating"}
      PROVE  /\ call[h].cred \in Credentials /\ call[h].secret \in Nat /\ call[h].holder \in Holder
             /\ InHand(call[h], call[h].cred)
             /\ \A d \in Credentials \ {call[h].cred} : ~ InHand(call[h], d)
             /\ call[h].cred \notin contended' /\ contended \subseteq contended' =>
                    Current(h) /\ Right(call[h].cred)
  <2>1. call[h].cred \in Credentials /\ call[h].secret \in Nat /\ call[h].holder \in Holder
    BY <1>0, <1>b, WorkKinds DEF Work, Holder
  <2>2. InHand(call[h], call[h].cred) /\ \A d \in Credentials \ {call[h].cred} : ~ InHand(call[h], d)
    BY <1>b DEF InHand
  <2> QED BY <2>1, <2>2 DEF VaultInv, Uncontended, Right
<1>6. ASSUME NEW h \in Calls, TakeStep(h) PROVE Good'
  <2>1. ASSUME NEW c \in Credentials, NEW x \in Holder, credStatus[c] = "Available",
               Begin(h, Working("adding", c, x)), UNCHANGED <<credVars, checkouts>>
        PROVE  Good'
    <3>1. \A d \in Credentials : ~ InHand(call[h], d)
      BY <2>1 DEF Begin, Idle, InHand
    <3> QED BY <1>4, <1>6, <2>1, <3>1 DEF Begin
  <2>2. CASE AddCheckout(h)
    <3> DEFINE W == Work({"adding", "marking", "finding", "closing", "freeing"}, Holder)
    <3>1. call[h] \in W /\ call[h].pc = "adding"
      BY <1>0, <1>6, <2>2, WorkKinds DEF AddCheckout
    <3> PICK c \in Credentials, k \in W, row \in CheckoutRow :
            /\ c = call[h].cred
            /\ k = [call[h] EXCEPT !.pc = "marking"]
            /\ row = [cred |-> call[h].cred, holder |-> call[h].holder,
                      given |-> call[h].secret, open |-> TRUE]
      BY <3>1 DEF Work, CheckoutRow
    <3>2. /\ row.open /\ row.cred = c /\ row.given = call[h].secret
          /\ row.holder = call[h].holder /\ k \in CallState
      BY DEF CallState
    <3>3. checkouts' = Append(checkouts, row) /\ Step(h, k) /\ UNCHANGED <<credStatus, secret>>
      BY <2>2 DEF AddCheckout, credVars
    <3>4. /\ call'[h] = k /\ k.pc = "marking" /\ k.cred = c /\ k.secret = call[h].secret
          /\ k.holder = call[h].holder /\ contended \subseteq contended'
      BY <1>0, <1>6, <3>1, <3>2, <3>3, StepTyped DEF Work
    <3>5. /\ Open(c)' = Open(c) \cup {Len(checkouts) + 1}
          /\ checkouts'[Len(checkouts) + 1] = row
          /\ \A d \in Credentials \ {c} : Open(d)' = Open(d)
          /\ DOMAIN checkouts' = DOMAIN checkouts \cup {Len(checkouts) + 1}
          /\ \A i \in DOMAIN checkouts : checkouts'[i] = checkouts[i]
      BY <1>0, <3>2, <3>3, OpenAdded
    <3>6. \A d \in Credentials : \A i \in Open(d) :
                checkouts'[i].given = checkouts[i].given /\ checkouts'[i].holder = checkouts[i].holder
      BY <3>5 DEF Open
    <3>7. ASSUME c \notin contended' PROVE (\A i, j \in Open(c)' : i = j) /\ Current(h)'
      <4>1. Current(h) /\ Right(c) /\ InHand(call[h], c)
        BY <1>6, <1>b, <3>1, <3>4, <3>7
      <4>2. credStatus[c] = "Available"
        BY <3>1, <4>1 DEF Current
      <4>3. ~ Written(c)
        <5> SUFFICES ASSUME NEW g \in Calls, InHand(call[g], c), call[g].pc \in {"marking", "freeing"}
                     PROVE  FALSE
          BY DEF Written, InHand
        <5>1. g = h
          BY <1>6, <3>2, <3>3, <3>7, <4>1, OthersHandsOff
        <5> QED BY <3>1, <5>1
      <4>4. Open(c) = {}
        BY <4>1, <4>2, <4>3 DEF Right, Matches
      <4>5. Open(c)' = {Len(checkouts) + 1}
        BY <3>5, <4>4
      <4>6. checkouts'[Len(checkouts) + 1].given = k.secret
            /\ checkouts'[Len(checkouts) + 1].holder = k.holder
        BY <3>2, <3>4, <3>5
      <4> QED BY <3>4, <4>5, <4>6 DEF Current
    <3>8. Entries'
      BY <1>6, <3>2, <3>3, <3>4, <3>5, EntriesStep
    <3>9. \A d \in Credentials \ {c} : ~ InHand(k, d) /\ ~ InHand(call[h], d)
      BY <3>4 DEF InHand
    <3>10. InHand(k, c)
      BY <3>4 DEF InHand
    <3>11. \A d \in Credentials \ {c} :
                ~ InHand(call[h], d) /\ ~ InHand(k, d) /\ Spared(d)
      BY <3>3, <3>5, <3>6, <3>9 DEF Spared
    <3>12. c \notin contended' =>
                /\ \A i, j \in Open(c)' : i = j
                /\ Matches(c)' \/ (k.pc \in {"marking", "freeing"} /\ k.cred = c)
                /\ Current(h)'
      BY <3>4, <3>7
    <3> HIDE DEF W
    <3>13. \A d \in Uncontended' : Alone(d)' /\ Right(d)'
      BY <1>6, <3>2, <3>3, <3>10, <3>11, <3>12, RightStep
    <3> QED BY <3>8, <3>13
  <2>3. CASE MarkCheckedOut(h)
    <3>1. /\ call[h] \in Work({"adding", "marking", "finding", "closing", "freeing"}, Holder)
          /\ call[h].pc = "marking"
      BY <1>0, <1>6, <2>3, WorkKinds DEF MarkCheckedOut
    <3> PICK c \in Credentials, k \in CallState :
            /\ c = call[h].cred /\ k.pc \in {"idle", "starting"}
            /\ k = IF call[h].holder = Person THEN Idle ELSE [call[h] EXCEPT !.pc = "starting"]
      BY <1>a, <3>1 DEF Work, CallState, Holder
    <3>2. /\ UNCHANGED checkouts /\ Step(h, k)
          /\ credStatus' = [credStatus EXCEPT ![c] = "CheckedOut"]
          /\ secret' = [secret EXCEPT ![c] = call[h].secret]
      BY <2>3 DEF MarkCheckedOut
    <3>3. \A d \in Credentials : Open(d)' = Open(d)
      BY <1>1, <3>2
    <3>4. /\ credStatus'[c] = "CheckedOut" /\ secret'[c] = call[h].secret
          /\ \A d \in Credentials \ {c} : credStatus'[d] = credStatus[d] /\ secret'[d] = secret[d]
      BY <1>0, <3>2 DEF TypeOK
    <3>5. call'[h] = k /\ contended \subseteq contended'
      BY <1>0, <1>6, <3>2, StepTyped
    <3>6. ASSUME c \notin contended' PROVE (\A i, j \in Open(c)' : i = j) /\ Matches(c)'
      <4>1. Current(h) /\ Right(c)
        BY <1>6, <1>b, <3>1, <3>5, <3>6
      <4>2. Open(c) # {} /\ \A i \in Open(c) : checkouts[i].given = call[h].secret
        BY <3>1, <4>1 DEF Current
      <4> QED BY <3>2, <3>3, <3>4, <4>1, <4>2 DEF Matches, Right
    <3>7. Current(h)'
      BY <3>5 DEF Current
    <3>8. InHand(call[h], c) /\ \A d \in Credentials \ {c} : ~ InHand(k, d) /\ ~ InHand(call[h], d)
      BY <3>1 DEF InHand
    <3>9. \A d \in Uncontended' : Alone(d)' /\ Right(d)'
      BY <1>6, <3>2, <3>3, <3>4, <3>6, <3>7, <3>8, RightStep DEF Spared
    <3>10. Entries'
      BY <1>6, <3>2, EntriesStep
    <3> QED BY <3>9, <3>10
  <2>4. CASE StartSession(h)
    <3>1. \A d \in Credentials : ~ InHand(call[h], d)
      BY <2>4 DEF StartSession, InHand
    <3> QED BY <1>5, <1>6, <1>a, <2>4, <3>1 DEF StartSession
  <2> QED BY <1>6, <2>1, <2>2, <2>3, <2>4 DEF TakeStep, Checkout, InjectCredential, Holder
<1>7. ASSUME NEW h \in Calls, ReturnStep(h) PROVE Good'
  <2>1. ASSUME NEW c \in Credentials, Checkin(h, c) PROVE Good'
    <3>1. \A d \in Credentials : ~ InHand(call[h], d)
      BY <2>1 DEF Checkin, Begin, Idle, InHand
    <3> QED BY <1>4, <1>7, <2>1, <3>1 DEF Checkin, Begin, Holder
  <2>2. ASSUME NEW s \in Sessions, Terminate(h, s) PROVE Good'
    <3> PICK k \in CallState :
            /\ k = IF injected[s] = NoCredential
                   THEN [pc |-> "ending", holder |-> s]
                   ELSE [pc |-> "looking", cred |-> injected[s], holder |-> s]
            /\ k.pc \in {"looking", "ending"}
      <4>1. [pc |-> "ending", holder |-> s] \in CallState
        BY DEF CallState
      <4>2. injected[s] # NoCredential =>
                [pc |-> "looking", cred |-> injected[s], holder |-> s] \in CallState
        BY <1>0 DEF CallState, TypeOK
      <4> QED BY <4>1, <4>2
    <3>1. \A d \in Credentials : ~ InHand(call[h], d)
      BY <2>2 DEF Terminate, Begin, Idle, InHand
    <3> QED BY <1>5, <1>7, <2>2, <3>1 DEF Terminate, Begin
  <2>3. CASE LookUpCredential(h)
    <3>1. call[h].pc = "looking" /\ call[h].cred \in Credentials /\ call[h].holder \in Sessions
      BY <1>0, <1>7, <2>3, WorkKinds DEF LookUpCredential
    <3>2. \A d \in Credentials : ~ InHand(call[h], d)
      BY <3>1 DEF InHand
    <3>3. CASE credStatus[call[h].cred] = "CheckedOut"
      <4>1. Step(h, Working("finding", call[h].cred, call[h].holder)) /\ UNCHANGED <<credVars, checkouts>>
        BY <2>3, <3>3 DEF LookUpCredential
      <4> QED BY <1>4, <1>7, <3>1, <3>2, <3>3, <4>1 DEF Holder
    <3>4. CASE credStatus[call[h].cred] # "CheckedOut"
      <4>1. [pc |-> "ending", holder |-> call[h].holder] \in CallState
        BY <3>1 DEF CallState
      <4> PICK k \in CallState : k = [pc |-> "ending", holder |-> call[h].holder] /\ k.pc = "ending"
        BY <4>1
      <4> QED BY <1>5, <1>7, <2>3, <3>2, <3>4 DEF LookUpCredential
    <3> QED BY <3>3, <3>4
  <2>4. CASE FindCheckout(h)
    <3> DEFINE W == Work({"adding", "marking", "finding", "closing", "freeing"}, Holder)
    <3>1. call[h] \in W /\ call[h].pc = "finding" /\ call[h].cred \in Credentials
      BY <1>0, <1>7, <2>4, WorkKinds DEF FindCheckout, Work
    <3> PICK c \in Credentials : c = call[h].cred
      BY <3>1
    <3>2. PICK k \in W :
            /\ Step(h, k) /\ k.cred = c /\ k.secret = call[h].secret
            /\ \/ k.pc = "freeing" /\ Open(c) = {}
               \/ k.pc = "closing" /\ k.entry \in Open(c)
      <4>1. CASE Open(c) = {} /\ Step(h, [call[h] EXCEPT !.pc = "freeing"])
        <5>1. PICK k \in W : k = [call[h] EXCEPT !.pc = "freeing"]
          BY <3>1 DEF Work
        <5>2. k.pc = "freeing" /\ k.cred = c /\ k.secret = call[h].secret
          BY <3>1, <5>1 DEF Work
        <5> QED BY <4>1, <5>1, <5>2
      <4>2. ASSUME NEW i \in Open(c), Step(h, [call[h] EXCEPT !.pc = "closing", !.entry = i])
            PROVE  \E k \in W : /\ Step(h, k) /\ k.cred = c /\ k.secret = call[h].secret
                                /\ k.pc = "closing" /\ k.entry \in Open(c)
        <5>1. i \in Nat
          BY <1>0 DEF Open, TypeOK
        <5>2. PICK k \in W : k = [call[h] EXCEPT !.pc = "closing", !.entry = i]
          BY <3>1, <5>1 DEF Work
        <5>3. k.pc = "closing" /\ k.cred = c /\ k.secret = call[h].secret /\ k.entry = i
          BY <3>1, <5>2 DEF Work
        <5> QED BY <4>2, <5>2, <5>3
      <4> HIDE DEF W
      <4> QED BY <2>4, <4>1, <4>2 DEF FindCheckout
    <3>3. k \in CallState
      BY DEF CallState
    <3>4. call'[h] = k /\ contended \subseteq contended' /\ UNCHANGED <<credStatus, secret, checkouts>>
      BY <1>0, <1>7, <2>4, <3>2, <3>3, StepTyped DEF FindCheckout, credVars
    <3>5. \A d \in Credentials : Open(d)' = Open(d)
      BY <1>1, <3>4
    <3>6. /\ InHand(call[h], c) /\ InHand(k, c)
          /\ \A d \in Credentials \ {c} : ~ InHand(k, d) /\ ~ InHand(call[h], d)
      BY <3>1, <3>2 DEF InHand
    <3>7. ASSUME c \notin contended' PROVE (\A i, j \in Open(c)' : i = j) /\ Matches(c)' /\ Current(h)'
      <4>1. Current(h) /\ Right(c)
        BY <1>7, <1>b, <3>1, <3>4, <3>7
      <4>2. credStatus[c] = "CheckedOut" /\ call[h].secret = secret[c]
        BY <3>1, <4>1 DEF Current
      <4>3. ~ Written(c)
        <5> SUFFICES ASSUME NEW g \in Calls, InHand(call[g], c), call[g].pc \in {"marking", "freeing"}
                     PROVE  FALSE
          BY DEF Written, InHand
        <5>1. g = h
          BY <1>7, <3>2, <3>3, <3>6, <3>7, OthersHandsOff
        <5> QED BY <3>1, <5>1
      <4>4. Matches(c)
        BY <4>1, <4>3 DEF Right
      <4>5. k.pc = "closing" /\ k.entry \in Open(c)
        BY <3>2, <4>2, <4>4 DEF Matches
      <4>6. Current(h)'
        BY <3>2, <3>4, <3>5, <4>2, <4>5 DEF Current
      <4> QED BY <3>4, <3>5, <4>1, <4>4, <4>6 DEF Matches, Right
    <3>8. k.pc = "closing" => k.entry \in DOMAIN checkouts /\ checkouts[k.entry].cred = k.cred
      BY <3>2 DEF Open
    <3>9. Entries'
      BY <1>7, <3>2, <3>3, <3>4, <3>8, EntriesStep
    <3>10. \A d \in Uncontended' : Alone(d)' /\ Right(d)'
      BY <1>7, <3>2, <3>3, <3>4, <3>5, <3>6, <3>7, RightStep DEF Spared
    <3> QED BY <3>9, <3>10
  <2>5. CASE CloseCheckout(h)
    <3> DEFINE W == Work({"adding", "marking", "finding", "closing", "freeing"}, Holder)
    <3>1. call[h] \in W /\ call[h].pc = "closing"
      BY <1>0, <1>7, <2>5, WorkKinds DEF CloseCheckout
    <3> PICK c \in Credentials, k \in W, e \in Nat :
            c = call[h].cred /\ k = [call[h] EXCEPT !.pc = "freeing"] /\ e = call[h].entry
      BY <3>1 DEF Work
    <3>2. k \in CallState /\ k.pc = "freeing" /\ k.cred = c /\ k.secret = call[h].secret
      BY <3>1 DEF CallState, Work
    <3>3. checkouts' = [checkouts EXCEPT ![e].open = FALSE] /\ Step(h, k)
          /\ UNCHANGED <<credStatus, secret>>
      BY <2>5 DEF CloseCheckout, credVars
    <3>4. e \in DOMAIN checkouts /\ checkouts[e].cred = c
      BY <1>7, <3>1 DEF VaultInv, Entries
    <3>5. call'[h] = k /\ contended \subseteq contended'
      BY <1>0, <1>7, <3>2, <3>3, StepTyped
    <3>6. /\ \A d \in Credentials : Open(d)' = Open(d) \ {e}
          /\ DOMAIN checkouts' = DOMAIN checkouts
          /\ \A i \in DOMAIN checkouts :
                /\ checkouts'[i].cred = checkouts[i].cred
                /\ checkouts'[i].given = checkouts[i].given
                /\ checkouts'[i].holder = checkouts[i].holder
      BY <1>0, <3>3, <3>4, OpenClosed
    <3>7. \A d \in Credentials \ {c} :
                /\ Open(d)' = Open(d)
                /\ \A i \in Open(d) : /\ checkouts'[i].given = checkouts[i].given
                                      /\ checkouts'[i].holder = checkouts[i].holder
      <4>1. \A d \in Credentials \ {c} : e \notin Open(d)
        BY <3>4 DEF Open
      <4>2. \A d \in Credentials : Open(d) \subseteq DOMAIN checkouts
        BY DEF Open
      <4>3. \A d \in Credentials \ {c} : Open(d) \ {e} = Open(d)
        BY <4>1
      <4> QED BY <3>6, <4>2, <4>3
    <3>8. ASSUME c \notin contended' PROVE (\A i, j \in Open(c)' : i = j) /\ Current(h)'
      <4>1. Current(h) /\ Right(c)
        BY <1>7, <1>b, <3>1, <3>5, <3>8
      <4>2. e \in Open(c) /\ call[h].secret = secret[c]
        BY <3>1, <4>1 DEF Current
      <4>3. Open(c)' = {}
        BY <3>6, <4>1, <4>2 DEF Right
      <4> QED BY <3>2, <3>3, <3>5, <4>2, <4>3 DEF Current
    <3>9. InHand(k, c) /\ \A d \in Credentials \ {c} : ~ InHand(k, d) /\ ~ InHand(call[h], d)
      BY <3>2 DEF InHand
    <3>10. Entries'
      BY <1>7, <3>2, <3>3, <3>6, EntriesStep
    <3>11. \A d \in Credentials \ {c} :
                ~ InHand(call[h], d) /\ ~ InHand(k, d) /\ Spared(d)
      BY <3>3, <3>7, <3>9 DEF Spared
    <3>12. c \notin contended' =>
                /\ \A i, j \in Open(c)' : i = j
                /\ Matches(c)' \/ (k.pc \in {"marking", "freeing"} /\ k.cred = c)
                /\ Current(h)'
      BY <3>2, <3>8
    <3> HIDE DEF W
    <3>13. \A d \in Uncontended' : Alone(d)' /\ Right(d)'
      BY <1>7, <3>2, <3>3, <3>9, <3>11, <3>12, RightStep
    <3> QED BY <3>10, <3>13
  <2>6. CASE FreeCredential(h)
    <3>1. /\ call[h] \in Work({"adding", "marking", "finding", "closing", "freeing"}, Holder)
          /\ call[h].pc = "freeing"
      BY <1>0, <1>7, <2>6, WorkKinds DEF FreeCredential
    <3> PICK c \in Credentials, k \in CallState :
            /\ c = call[h].cred /\ k.pc \in {"idle", "ending"}
            /\ k = IF call[h].holder = Person THEN Idle
                   ELSE [pc |-> "ending", holder |-> call[h].holder]
      BY <1>a, <3>1 DEF Work, CallState, Holder
    <3>2. /\ UNCHANGED checkouts /\ Step(h, k)
          /\ credStatus' = [credStatus EXCEPT ![c] = "Available"]
          /\ secret' = [secret EXCEPT ![c] = call[h].secret]
      BY <2>6 DEF FreeCredential
    <3>3. \A d \in Credentials : Open(d)' = Open(d)
      BY <1>1, <3>2
    <3>4. /\ credStatus'[c] = "Available"
          /\ \A d \in Credentials \ {c} : credStatus'[d] = credStatus[d] /\ secret'[d] = secret[d]
      BY <1>0, <3>2 DEF TypeOK
    <3>5. call'[h] = k /\ contended \subseteq contended'
      BY <1>0, <1>7, <3>2, StepTyped
    <3>6. ASSUME c \notin contended' PROVE (\A i, j \in Open(c)' : i = j) /\ Matches(c)'
      <4>1. Current(h)
        BY <1>7, <1>b, <3>1, <3>5, <3>6
      <4>2. Open(c) = {}
        BY <3>1, <4>1 DEF Current
      <4> QED BY <3>3, <3>4, <4>2 DEF Matches
    <3>7. Current(h)'
      BY <3>5 DEF Current
    <3>8. InHand(call[h], c) /\ \A d \in Credentials \ {c} : ~ InHand(k, d) /\ ~ InHand(call[h], d)
      BY <3>1 DEF InHand
    <3>9. \A d \in Uncontended' : Alone(d)' /\ Right(d)'
      BY <1>7, <3>2, <3>3, <3>4, <3>6, <3>7, <3>8, RightStep DEF Spared
    <3>10. Entries'
      BY <1>7, <3>2, EntriesStep
    <3> QED BY <3>9, <3>10
  <2>7. CASE EndSession(h)
    <3>1. \A d \in Credentials : ~ InHand(call[h], d)
      BY <2>7 DEF EndSession, InHand
    <3> QED BY <1>5, <1>7, <1>a, <2>7, <3>1 DEF EndSession
  <2>8. CASE FailSessionWrite(h)
    <3>1. \A d \in Credentials : ~ InHand(call[h], d)
      BY <2>8 DEF FailSessionWrite, InHand
    <3> QED BY <1>5, <1>7, <1>a, <2>8, <3>1 DEF FailSessionWrite
  <2> QED BY <1>7, <2>1, <2>2, <2>3, <2>4, <2>5, <2>6, <2>7, <2>8 DEF ReturnStep
<1>8. ASSUME NEW h \in Calls, RotateStep(h) PROVE Good'
  <2>1. ASSUME NEW c \in Credentials, Rotate(h, c) PROVE Good'
    <3>1. \A d \in Credentials : ~ InHand(call[h], d)
      BY <2>1 DEF Rotate, Begin, Idle, InHand
    <3> QED BY <1>4, <1>8, <2>1, <3>1 DEF Rotate, Begin, Holder
  <2>2. CASE WriteRotation(h)
    <3>1. call[h] \in Work({"rotating"}, {Person}) /\ call[h].pc = "rotating"
      BY <1>0, <1>8, <2>2, WorkKinds DEF WriteRotation
    <3> PICK c \in Credentials : c = call[h].cred
      BY <3>1 DEF Work
    <3>2. /\ UNCHANGED checkouts /\ Step(h, Idle)
          /\ credStatus' = [credStatus EXCEPT ![c] = "Available"]
          /\ secret' = [secret EXCEPT ![c] = rotations + 1]
      BY <2>2 DEF WriteRotation
    <3>3. \A d \in Credentials : Open(d)' = Open(d)
      BY <1>1, <3>2
    <3>4. /\ credStatus'[c] = "Available"
          /\ \A d \in Credentials \ {c} : credStatus'[d] = credStatus[d] /\ secret'[d] = secret[d]
      BY <1>0, <3>2 DEF TypeOK
    <3>5. call'[h] = Idle /\ contended \subseteq contended'
      BY <1>0, <1>8, <1>a, <3>2, StepTyped
    <3>6. InHand(call[h], c) /\ \A d \in Credentials \ {c} : ~ InHand(Idle, d) /\ ~ InHand(call[h], d)
      BY <1>a, <3>1 DEF InHand
    <3>7. ASSUME c \notin contended' PROVE (\A i, j \in Open(c)' : i = j) /\ Matches(c)'
      <4>1. Current(h) /\ Right(c)
        BY <1>8, <1>b, <3>1, <3>5, <3>7
      <4>2. credStatus[c] = "Available"
        BY <3>1, <4>1 DEF Current
      <4>3. ~ Written(c)
        <5> SUFFICES ASSUME NEW g \in Calls, InHand(call[g], c), call[g].pc \in {"marking", "freeing"}
                     PROVE  FALSE
          BY DEF Written, InHand
        <5>1. g = h
          BY <1>8, <1>a, <3>2, <3>6, <3>7, OthersHandsOff
        <5> QED BY <3>1, <5>1
      <4>4. Open(c) = {}
        BY <4>1, <4>2, <4>3 DEF Right, Matches
      <4> QED BY <3>3, <3>4, <4>4 DEF Matches
    <3>8. Current(h)'
      BY <1>a, <3>5 DEF Current
    <3>9. \A d \in Uncontended' : Alone(d)' /\ Right(d)'
      BY <1>8, <1>a, <3>2, <3>3, <3>4, <3>6, <3>7, <3>8, RightStep DEF Spared
    <3>10. Entries'
      BY <1>8, <1>a, <3>2, EntriesStep
    <3> QED BY <3>9, <3>10
  <2> QED BY <1>8, <2>1, <2>2 DEF RotateStep
<1>9. ASSUME NEW s \in Sessions, CreateBareSession(s) \/ EndSessionByAgent(s) PROVE Good'
  BY <1>2, <1>9 DEF CreateBareSession, EndSessionByAgent
<1>10. ASSUME UNCHANGED vars PROVE Good'
  BY <1>2, <1>10 DEF vars, credVars, callVars
<1> HIDE DEF Good
<1> QED BY <1>3, <1>6, <1>7, <1>8, <1>9, <1>10 DEF Next

\* However calls overlap, a credential no two of them had in hand at once is in
\* the hands of one holder, the two lists agree about it, and its password,
\* once handed out, works until it is handed back, whatever the database does
\* to the sessions.
THEOREM UncontendedVault ==
  Spec => [](OneHolder /\ StatusMatchesCheckouts /\ PasswordInHandWorks)
<1>1. VaultInv => OneHolder /\ StatusMatchesCheckouts /\ PasswordInHandWorks
  <2>1. ASSUME VaultInv, NEW c \in Uncontended, Settled(c) PROVE Matches(c)
    BY <2>1 DEF VaultInv, Right, Settled, Written, Uncontended
  <2>2. ASSUME VaultInv PROVE OneHolder
    BY <2>2 DEF VaultInv, Right, OneHolder
  <2> QED BY <2>1, <2>2 DEF Matches, StatusMatchesCheckouts, PasswordInHandWorks
<1> QED BY InitVaultInv, NextVaultInv, <1>1, PTL DEF Spec

\* However calls overlap, none leaves a credential it had to itself marked as
\* out that nobody has, or marked as available that somebody has.
THEOREM ListsAgree == Spec => []StatusMatchesCheckouts
BY UncontendedVault, PTL

\* However calls overlap, none changes the password of a credential that is out
\* and that no other had in hand at the same time.
THEOREM PasswordsWork == Spec => []PasswordInHandWorks
BY UncontendedVault, PTL

-----------------------------------------------------------------------------
(* What Terminate leaves behind *)

HasOpen(s, c) ==
    \E i \in DOMAIN checkouts : checkouts[i].open /\ checkouts[i].holder = s /\ checkouts[i].cred = c

TakesFor(work, s) == work.pc \in {"adding", "marking", "starting"} /\ work.holder = s

ReturnsFor(work, s) ==
    work.pc \in {"looking", "finding", "closing", "freeing", "ending"} /\ work.holder = s

\* A session has an open checkout only of the credential its row names, or of
\* the one its Create is about to put there.
Owned ==
    \A s \in Sessions, c \in Credentials : HasOpen(s, c) =>
        \/ injected[s] = c
        \/ \E h \in Calls : call[h].pc \in {"marking", "starting"} /\ TakesFor(call[h], s)
                            /\ call[h].cred = c

\* One call creates a session, which has no credential in its row until then.
Taking ==
    \A s \in Sessions, h \in Calls : TakesFor(call[h], s) =>
        /\ session[s] = "starting" /\ injected[s] = NoCredential
        /\ \A g \in Calls : TakesFor(call[g], s) => g = h

\* The calls that end it come after, and work on the credential of its row.
Returning ==
    \A s \in Sessions, h \in Calls : ReturnsFor(call[h], s) =>
        /\ session[s] \in {"Active", "Terminated"}
        /\ call[h].pc = "ending" \/ injected[s] = call[h].cred

Fresh == \A s \in Sessions : session[s] = "none" => injected[s] = NoCredential

HoldInv == Owned /\ Taking /\ Returning /\ Fresh /\ TerminateReleases

\* Nothing that is not contended is checked out for s.
Empty(s) ==
    \A i \in DOMAIN checkouts :
        checkouts[i].open /\ checkouts[i].cred \in Uncontended => checkouts[i].holder # s

LEMMA InitHoldInv == Init => HoldInv
<1> SUFFICES ASSUME Init PROVE HoldInv
  OBVIOUS
<1>1. checkouts = <<>> /\ Len(checkouts) = 0 /\ checkouts \in Seq(CheckoutRow)
  BY DEF Init
<1>2. DOMAIN checkouts = {}
  BY <1>1
<1>3. \A h \in Calls : call[h].pc = "idle"
  BY DEF Init, Idle
<1>4. Fresh
  BY DEF Init, Fresh
<1>5. Owned /\ TerminateReleases
  BY <1>2 DEF Owned, HasOpen, TerminateReleases
<1>6. Taking /\ Returning
  BY <1>3 DEF Taking, Returning, TakesFor, ReturnsFor
<1> QED BY <1>4, <1>5, <1>6 DEF HoldInv

\* A session that runs, and whose row names no credential that is out, has
\* nothing.
LEMMA NothingHeld ==
  ASSUME TypeOK, HoldInv, NEW s \in Sessions, session[s] \in {"Active", "Terminated"},
         \A c \in Uncontended : injected[s] = c =>
            \A i \in Open(c) : checkouts[i].holder # s
  PROVE  Empty(s)
<1> SUFFICES ASSUME NEW i \in DOMAIN checkouts, checkouts[i].open,
                    checkouts[i].cred \in Uncontended, checkouts[i].holder = s
             PROVE  FALSE
  BY DEF Empty
<1> DEFINE c == checkouts[i].cred
<1>1. HasOpen(s, c) /\ i \in Open(c) /\ c \in Credentials
  BY DEF HasOpen, Open, Uncontended
<1>2. \A h \in Calls : ~ TakesFor(call[h], s)
  BY DEF HoldInv, Taking
<1>3. injected[s] = c
  BY <1>1, <1>2 DEF HoldInv, Owned
<1> QED BY <1>1, <1>3

\* Of the rows that a step adds or leaves open, it adds none for a session that
\* is being ended.
LEMMA ReleasesStep ==
  ASSUME TypeOK, TerminateReleases, NEW h \in Calls, NEW k \in CallState, Step(h, k),
         \A i \in DOMAIN checkouts' : checkouts'[i].open =>
            /\ i \in DOMAIN checkouts /\ checkouts[i].open
            /\ checkouts'[i].holder = checkouts[i].holder
            /\ checkouts'[i].cred = checkouts[i].cred,
         k.pc = "ending" => Empty(k.holder)
  PROVE  TerminateReleases'
<1> SUFFICES ASSUME NEW g \in Calls, call'[g].pc = "ending", NEW i \in DOMAIN checkouts',
                    checkouts'[i].open, checkouts'[i].cred \in Uncontended',
                    checkouts'[i].holder = call'[g].holder
             PROVE  FALSE
  BY DEF TerminateReleases
<1>1. i \in DOMAIN checkouts /\ checkouts[i].open /\ checkouts[i].cred \in Uncontended
      /\ checkouts[i].holder = call'[g].holder
  BY StepTyped DEF Uncontended
<1>2. CASE g = h
  BY <1>1, <1>2, StepTyped DEF Empty
<1>3. CASE g # h
  BY <1>1, <1>3, StepTyped DEF TerminateReleases
<1> QED BY <1>2, <1>3

\* Steps of a call that leave the sessions and the checkouts alone.
LEMMA HoldAside ==
  ASSUME TypeOK, HoldInv, NEW h \in Calls, NEW k \in CallState, Step(h, k),
         UNCHANGED <<checkouts, session, injected>>,
         \A s \in Sessions : /\ ~ (call[h].pc \in {"marking", "starting"} /\ TakesFor(call[h], s))
                             /\ ~ TakesFor(k, s),
         \A s \in Sessions : ReturnsFor(k, s) =>
            /\ session[s] \in {"Active", "Terminated"}
            /\ k.pc = "ending" \/ injected[s] = k.cred,
         k.pc = "ending" => Empty(k.holder)
  PROVE  HoldInv'
<1>1. call'[h] = k /\ \A g \in Calls : g # h => call'[g] = call[g]
  BY StepTyped
<1>2. Owned'
  <2> SUFFICES ASSUME NEW s \in Sessions, NEW c \in Credentials, HasOpen(s, c), injected[s] # c
               PROVE  \E g \in Calls : call'[g].pc \in {"marking", "starting"}
                                       /\ TakesFor(call'[g], s) /\ call'[g].cred = c
    BY DEF Owned, HasOpen, TakesFor
  <2>1. PICK g \in Calls : call[g].pc \in {"marking", "starting"} /\ TakesFor(call[g], s)
                           /\ call[g].cred = c
    BY DEF HoldInv, Owned
  <2>2. g # h
    BY <2>1
  <2> QED BY <1>1, <2>1, <2>2
<1>3. Taking'
  <2> SUFFICES ASSUME NEW s \in Sessions, NEW g \in Calls, TakesFor(call'[g], s)
               PROVE  /\ session[s] = "starting" /\ injected[s] = NoCredential
                      /\ \A f \in Calls : TakesFor(call'[f], s) => f = g
    BY DEF Taking, TakesFor
  <2>1. \A f \in Calls : TakesFor(call'[f], s) => f # h /\ TakesFor(call[f], s)
    BY <1>1
  <2> QED BY <2>1 DEF HoldInv, Taking
<1>4. Returning'
  <2> SUFFICES ASSUME NEW s \in Sessions, NEW g \in Calls, ReturnsFor(call'[g], s)
               PROVE  /\ session[s] \in {"Active", "Terminated"}
                      /\ call'[g].pc = "ending" \/ injected[s] = call'[g].cred
    BY DEF Returning, ReturnsFor
  <2> QED BY <1>1 DEF HoldInv, Returning
<1>5. Fresh'
  BY DEF HoldInv, Fresh
<1>6. TerminateReleases'
  BY ReleasesStep DEF HoldInv
<1> QED BY <1>2, <1>3, <1>4, <1>5, <1>6 DEF HoldInv

LEMMA NextHoldInv ==
  ASSUME provider = "InMemory", VaultInv, HoldInv, [Next]_vars
  PROVE  HoldInv'
<1>0. TypeOK /\ TypeOK'
  BY NextTypeOK DEF VaultInv
<1>a. Idle \in CallState /\ Idle.pc = "idle"
  BY DEF CallState, Idle
<1>b. \A s \in Sessions : ~ TakesFor(Idle, s) /\ ~ ReturnsFor(Idle, s)
  BY <1>a DEF TakesFor, ReturnsFor
<1>1. ASSUME NEW c \in Credentials, CreateCredential(c) PROVE HoldInv'
  BY <1>1 DEF CreateCredential, sessionVars, callVars, HoldInv, Owned, HasOpen, Taking, TakesFor,
              Returning, ReturnsFor, Fresh, TerminateReleases, Uncontended
<1>2. ASSUME NEW s \in Sessions, CreateBareSession(s) \/ EndSessionByAgent(s) PROVE HoldInv'
  <2>1. /\ UNCHANGED <<checkouts, injected, call, contended>> /\ session[s] \in {"none", "Active"}
        /\ \A t \in Sessions : t # s => session'[t] = session[t]
        /\ session'[s] \in {"Active", "Terminated"}
    BY <1>0, <1>2 DEF CreateBareSession, EndSessionByAgent, TypeOK, callVars
  <2>2. Owned' /\ TerminateReleases'
    BY <2>1 DEF HoldInv, Owned, HasOpen, TakesFor, TerminateReleases, Uncontended
  <2>3. Taking' /\ Returning' /\ Fresh'
    BY <2>1 DEF HoldInv, Taking, TakesFor, Returning, ReturnsFor, Fresh
  <2> QED BY <2>2, <2>3 DEF HoldInv
<1>3. ASSUME NEW h \in Calls, TakeStep(h) PROVE HoldInv'
  <2>1. ASSUME NEW c \in Credentials, Checkout(h, c) PROVE HoldInv'
    <3>1. PICK k \in CallState : k = Working("adding", c, Person)
      BY <1>0, WorkingTyped DEF Holder
    <3>2. /\ call[h].pc = "idle" /\ Step(h, k) /\ UNCHANGED <<checkouts, session, injected>>
          /\ k.pc = "adding" /\ k.holder = Person
      BY <2>1, <3>1 DEF Checkout, Begin, Working, Idle, sessionVars
    <3>3. \A s \in Sessions : ~ TakesFor(k, s) /\ ~ ReturnsFor(k, s)
      BY <3>2, HolderAssumption DEF TakesFor, ReturnsFor
    <3> QED BY <1>0, <1>3, <3>2, <3>3, HoldAside
  <2>2. ASSUME NEW c \in Credentials, NEW s \in Sessions, InjectCredential(h, s, c) PROVE HoldInv'
    <3>1. PICK k \in CallState : k = Working("adding", c, s)
      BY <1>0, WorkingTyped DEF Holder
    <3>2. /\ call[h].pc = "idle" /\ Step(h, k) /\ UNCHANGED <<checkouts, injected>>
          /\ k.pc = "adding" /\ k.holder = s
          /\ session[s] = "none" /\ session' = [session EXCEPT ![s] = "starting"]
      BY <2>2, <3>1 DEF InjectCredential, Begin, Working, Idle
    <3>3. /\ call'[h] = k /\ \A g \in Calls : g # h => call'[g] = call[g]
          /\ injected[s] = NoCredential /\ session'[s] = "starting"
          /\ \A t \in Sessions : t # s => session'[t] = session[t]
      BY <1>0, <1>3, <3>2, StepTyped DEF HoldInv, Fresh, TypeOK
    <3>4. \A g \in Calls : ~ TakesFor(call[g], s) /\ ~ ReturnsFor(call[g], s)
      BY <3>2 DEF HoldInv, Taking, Returning
    <3>5. Owned'
      <4> SUFFICES ASSUME NEW t \in Sessions, NEW d \in Credentials, HasOpen(t, d), injected[t] # d
                   PROVE  \E g \in Calls : call'[g].pc \in {"marking", "starting"}
                                           /\ TakesFor(call'[g], t) /\ call'[g].cred = d
        BY <3>2 DEF Owned, HasOpen, TakesFor
      <4>1. PICK g \in Calls : call[g].pc \in {"marking", "starting"} /\ TakesFor(call[g], t)
                               /\ call[g].cred = d
        BY DEF HoldInv, Owned
      <4> QED BY <3>2, <3>3, <4>1
    <3>6. Taking'
      <4> SUFFICES ASSUME NEW t \in Sessions, NEW g \in Calls, TakesFor(call'[g], t)
                   PROVE  /\ session'[t] = "starting" /\ injected[t] = NoCredential
                          /\ \A f \in Calls : TakesFor(call'[f], t) => f = g
        BY <3>2 DEF Taking, TakesFor
      <4>1. CASE t = s
        <5>1. \A f \in Calls : TakesFor(call'[f], s) => f = h
          BY <3>3, <3>4
        <5> QED BY <3>3, <4>1, <5>1
      <4>2. CASE t # s
        <5>1. \A f \in Calls : TakesFor(call'[f], t) => TakesFor(call[f], t)
          BY <3>2, <3>3, <4>2 DEF TakesFor
        <5> QED BY <3>3, <4>2, <5>1 DEF HoldInv, Taking
      <4> QED BY <4>1, <4>2
    <3>7. Returning'
      <4> SUFFICES ASSUME NEW t \in Sessions, NEW g \in Calls, ReturnsFor(call'[g], t)
                   PROVE  /\ session'[t] \in {"Active", "Terminated"}
                          /\ call'[g].pc = "ending" \/ injected[t] = call'[g].cred
        BY <3>2 DEF Returning, ReturnsFor
      <4>1. g # h /\ ReturnsFor(call[g], t)
        BY <3>2, <3>3 DEF ReturnsFor
      <4> QED BY <3>3, <3>4, <4>1 DEF HoldInv, Returning
    <3>8. Fresh'
      BY <3>2, <3>3 DEF HoldInv, Fresh
    <3>9. TerminateReleases'
      BY <1>0, <1>3, <3>2, ReleasesStep DEF HoldInv
    <3> QED BY <3>5, <3>6, <3>7, <3>8, <3>9 DEF HoldInv
  <2>3. CASE AddCheckout(h)
    <3> DEFINE W == Work({"adding", "marking", "finding", "closing", "freeing"}, Holder)
    <3>1. call[h] \in W /\ call[h].pc = "adding"
      BY <1>0, <1>3, <2>3, WorkKinds DEF AddCheckout
    <3> PICK k \in W, row \in CheckoutRow :
            /\ k = [call[h] EXCEPT !.pc = "marking"]
            /\ row = [cred |-> call[h].cred, holder |-> call[h].holder,
                      given |-> call[h].secret, open |-> TRUE]
      BY <3>1 DEF Work, CheckoutRow
    <3>2. /\ checkouts' = Append(checkouts, row) /\ row.open /\ UNCHANGED <<session, injected>>
          /\ Step(h, k) /\ k \in CallState
      BY <2>3 DEF AddCheckout, sessionVars, CallState
    <3>3. /\ k.pc = "marking" /\ k.holder = call[h].holder /\ k.cred = call[h].cred
          /\ row.holder = call[h].holder /\ row.cred = call[h].cred
      BY <3>1 DEF Work
    <3> HIDE DEF W
    <3>4. call'[h] = k /\ \A g \in Calls : g # h => call'[g] = call[g]
      BY <1>0, <1>3, <3>2, StepTyped
    <3>5. /\ DOMAIN checkouts' = DOMAIN checkouts \cup {Len(checkouts) + 1}
          /\ \A i \in DOMAIN checkouts : checkouts'[i] = checkouts[i]
          /\ checkouts'[Len(checkouts) + 1] = row
      BY <1>0, <3>2, OpenAdded
    <3>6. \A s \in Sessions : /\ TakesFor(call'[h], s) <=> TakesFor(call[h], s)
                              /\ ~ ReturnsFor(call'[h], s)
      BY <3>1, <3>3, <3>4 DEF TakesFor, ReturnsFor
    <3>7. Owned'
      <4> SUFFICES ASSUME NEW s \in Sessions, NEW c \in Credentials, HasOpen(s, c)', injected[s] # c
                   PROVE  \E g \in Calls : call'[g].pc \in {"marking", "starting"}
                                           /\ TakesFor(call'[g], s) /\ call'[g].cred = c
        BY <3>2 DEF Owned, TakesFor
      <4>1. CASE HasOpen(s, c)
        <5>1. PICK g \in Calls : call[g].pc \in {"marking", "starting"} /\ TakesFor(call[g], s)
                                 /\ call[g].cred = c
          BY <4>1 DEF HoldInv, Owned
        <5> QED BY <3>1, <3>4, <5>1
      <4>2. CASE ~ HasOpen(s, c)
        <5>1. row.holder = s /\ row.cred = c
          BY <3>5, <4>2 DEF HasOpen
        <5> QED BY <1>3, <3>3, <3>4, <5>1 DEF TakesFor
      <4> QED BY <4>1, <4>2
    <3>8. Taking'
      <4> SUFFICES ASSUME NEW s \in Sessions, NEW g \in Calls, TakesFor(call'[g], s)
                   PROVE  /\ session[s] = "starting" /\ injected[s] = NoCredential
                          /\ \A f \in Calls : TakesFor(call'[f], s) => f = g
        BY <3>2 DEF Taking, TakesFor
      <4>1. \A f \in Calls : TakesFor(call'[f], s) => TakesFor(call[f], s)
        BY <3>4, <3>6
      <4> QED BY <4>1 DEF HoldInv, Taking
    <3>9. Returning'
      <4> SUFFICES ASSUME NEW s \in Sessions, NEW g \in Calls, ReturnsFor(call'[g], s)
                   PROVE  /\ session[s] \in {"Active", "Terminated"}
                          /\ call'[g].pc = "ending" \/ injected[s] = call'[g].cred
        BY <3>2 DEF Returning, ReturnsFor
      <4> QED BY <3>4, <3>6 DEF HoldInv, Returning
    <3>10. Fresh'
      BY <3>2 DEF HoldInv, Fresh
    <3>11. TerminateReleases'
      <4> SUFFICES ASSUME NEW g \in Calls, call'[g].pc = "ending", NEW i \in DOMAIN checkouts',
                          checkouts'[i].open, checkouts'[i].cred \in Uncontended',
                          checkouts'[i].holder = call'[g].holder
                   PROVE  FALSE
        BY DEF TerminateReleases
      <4>1. g # h /\ call[g].pc = "ending" /\ call'[g].holder = call[g].holder
        BY <3>3, <3>4
      <4>2. call[g].holder \in Sessions
        BY <1>0, <4>1, WorkKinds
      <4>3. session[call[g].holder] \in {"Active", "Terminated"}
        BY <4>1, <4>2 DEF HoldInv, Returning, ReturnsFor
      <4>4. CASE i \in DOMAIN checkouts
        <5>1. checkouts[i].open /\ checkouts[i].holder = call[g].holder
              /\ checkouts[i].cred \in Uncontended
          BY <1>0, <1>3, <3>2, <3>5, <4>1, <4>4, StepTyped DEF Uncontended
        <5> QED BY <4>1, <4>4, <5>1 DEF HoldInv, TerminateReleases
      <4>5. CASE i \notin DOMAIN checkouts
        <5>1. call[h].holder = call[g].holder
          BY <3>3, <3>5, <4>1, <4>5
        <5>2. TakesFor(call[h], call[g].holder)
          BY <3>1, <5>1 DEF TakesFor
        <5>3. session[call[g].holder] = "starting"
          BY <1>3, <4>2, <5>2 DEF HoldInv, Taking
        <5> QED BY <4>3, <5>3
      <4> QED BY <4>4, <4>5
    <3> QED BY <3>7, <3>8, <3>9, <3>10, <3>11 DEF HoldInv
  <2>4. CASE MarkCheckedOut(h)
    <3>1. /\ call[h] \in Work({"adding", "marking", "finding", "closing", "freeing"}, Holder)
          /\ call[h].pc = "marking"
      BY <1>0, <1>3, <2>4, WorkKinds DEF MarkCheckedOut
    <3>2. CASE call[h].holder = Person
      <4>1. Step(h, Idle) /\ UNCHANGED <<checkouts, session, injected>>
        BY <2>4, <3>2 DEF MarkCheckedOut, sessionVars
      <4>2. \A s \in Sessions : ~ TakesFor(call[h], s)
        BY <3>2, HolderAssumption DEF TakesFor
      <4> QED BY <1>0, <1>3, <1>a, <1>b, <4>1, <4>2, HoldAside
    <3>3. CASE call[h].holder # Person
      <4>a. [call[h] EXCEPT !.pc = "starting"] \in CallState
        BY <3>1, <3>3 DEF Work, CallState, Holder
      <4>b. PICK k \in CallState : k = [call[h] EXCEPT !.pc = "starting"]
        BY <4>a
      <4>1. /\ k = [call[h] EXCEPT !.pc = "starting"] /\ k.pc = "starting"
            /\ k.holder = call[h].holder /\ k.cred = call[h].cred
        BY <3>1, <4>b DEF Work
      <4>2. Step(h, k) /\ UNCHANGED <<checkouts, session, injected>>
        BY <2>4, <3>3, <4>1 DEF MarkCheckedOut, sessionVars
      <4>3. call'[h] = k /\ \A g \in Calls : g # h => call'[g] = call[g]
        BY <1>0, <1>3, <4>2, StepTyped
      <4>4. \A s \in Sessions : /\ TakesFor(call'[h], s) <=> TakesFor(call[h], s)
                                /\ ~ ReturnsFor(call'[h], s)
        BY <3>1, <4>1, <4>3 DEF TakesFor, ReturnsFor
      <4>5. Owned'
        <5> SUFFICES ASSUME NEW s \in Sessions, NEW c \in Credentials, HasOpen(s, c), injected[s] # c
                     PROVE  \E g \in Calls : call'[g].pc \in {"marking", "starting"}
                                             /\ TakesFor(call'[g], s) /\ call'[g].cred = c
          BY <4>2 DEF Owned, HasOpen, TakesFor
        <5>1. PICK g \in Calls : call[g].pc \in {"marking", "starting"} /\ TakesFor(call[g], s)
                                 /\ call[g].cred = c
          BY DEF HoldInv, Owned
        <5> QED BY <4>1, <4>3, <4>4, <5>1
      <4>6. Taking'
        <5> SUFFICES ASSUME NEW s \in Sessions, NEW g \in Calls, TakesFor(call'[g], s)
                     PROVE  /\ session[s] = "starting" /\ injected[s] = NoCredential
                            /\ \A f \in Calls : TakesFor(call'[f], s) => f = g
          BY <4>2 DEF Taking, TakesFor
        <5>1. \A f \in Calls : TakesFor(call'[f], s) => TakesFor(call[f], s)
          BY <4>3, <4>4
        <5> QED BY <5>1 DEF HoldInv, Taking
      <4>7. Returning'
        <5> SUFFICES ASSUME NEW s \in Sessions, NEW g \in Calls, ReturnsFor(call'[g], s)
                     PROVE  /\ session[s] \in {"Active", "Terminated"}
                            /\ call'[g].pc = "ending" \/ injected[s] = call'[g].cred
          BY <4>2 DEF Returning, ReturnsFor
        <5> QED BY <4>3, <4>4 DEF HoldInv, Returning
      <4>8. Fresh'
        BY <4>2 DEF HoldInv, Fresh
      <4>9. TerminateReleases'
        BY <1>0, <1>3, <4>1, <4>2, ReleasesStep DEF HoldInv
      <4> QED BY <4>5, <4>6, <4>7, <4>8, <4>9 DEF HoldInv
    <3> QED BY <3>2, <3>3
  <2>5. CASE StartSession(h)
    <3>1. call[h].pc = "starting" /\ call[h].holder \in Sessions /\ call[h].cred \in Credentials
      BY <1>0, <1>3, <2>5, WorkKinds DEF StartSession, Work
    <3> PICK s \in Sessions, c \in Credentials : s = call[h].holder /\ c = call[h].cred
      BY <3>1
    <3>2. /\ Step(h, Idle) /\ UNCHANGED checkouts
          /\ injected' = [injected EXCEPT ![s] = c] /\ session' = [session EXCEPT ![s] = "Active"]
      BY <2>5 DEF StartSession
    <3>3. /\ call'[h] = Idle /\ \A g \in Calls : g # h => call'[g] = call[g]
          /\ injected'[s] = c /\ session'[s] = "Active"
          /\ \A t \in Sessions : t # s => injected'[t] = injected[t] /\ session'[t] = session[t]
      BY <1>0, <1>3, <1>a, <3>2, StepTyped DEF TypeOK
    <3>4. /\ session[s] = "starting" /\ injected[s] = NoCredential
          /\ \A g \in Calls : TakesFor(call[g], s) => g = h
      <4>1. TakesFor(call[h], s)
        BY <3>1 DEF TakesFor
      <4> QED BY <1>3, <4>1 DEF HoldInv, Taking
    <3>5. \A g \in Calls : ~ ReturnsFor(call[g], s)
      BY <3>4 DEF HoldInv, Returning
    <3>6. Owned'
      <4> SUFFICES ASSUME NEW t \in Sessions, NEW d \in Credentials, HasOpen(t, d), injected'[t] # d
                   PROVE  \E g \in Calls : call'[g].pc \in {"marking", "starting"}
                                           /\ TakesFor(call'[g], t) /\ call'[g].cred = d
        BY <3>2 DEF Owned, HasOpen, TakesFor
      <4>1. injected[t] # d
        BY <3>3, <3>4, HolderAssumption
      <4>2. PICK g \in Calls : call[g].pc \in {"marking", "starting"} /\ TakesFor(call[g], t)
                               /\ call[g].cred = d
        BY <4>1 DEF HoldInv, Owned
      <4>3. g # h
        BY <3>3, <4>2 DEF TakesFor
      <4> QED BY <3>3, <4>2, <4>3
    <3>7. Taking'
      <4> SUFFICES ASSUME NEW t \in Sessions, NEW g \in Calls, TakesFor(call'[g], t)
                   PROVE  /\ session'[t] = "starting" /\ injected'[t] = NoCredential
                          /\ \A f \in Calls : TakesFor(call'[f], t) => f = g
        BY DEF Taking, TakesFor
      <4>1. \A f \in Calls : TakesFor(call'[f], t) => f # h /\ TakesFor(call[f], t)
        BY <1>b, <3>3
      <4>2. t # s
        BY <3>4, <4>1
      <4> QED BY <3>3, <4>1, <4>2 DEF HoldInv, Taking
    <3>8. Returning'
      <4> SUFFICES ASSUME NEW t \in Sessions, NEW g \in Calls, ReturnsFor(call'[g], t)
                   PROVE  /\ session'[t] \in {"Active", "Terminated"}
                          /\ call'[g].pc = "ending" \/ injected'[t] = call'[g].cred
        BY DEF Returning, ReturnsFor
      <4>1. g # h /\ ReturnsFor(call[g], t) /\ call'[g] = call[g]
        BY <1>b, <3>3
      <4>2. t # s
        BY <3>5, <4>1
      <4> QED BY <3>3, <4>1, <4>2 DEF HoldInv, Returning
    <3>9. Fresh'
      BY <3>3 DEF HoldInv, Fresh
    <3>10. TerminateReleases'
      BY <1>0, <1>3, <1>a, <3>2, ReleasesStep DEF HoldInv
    <3> QED BY <3>6, <3>7, <3>8, <3>9, <3>10 DEF HoldInv
  <2> QED BY <1>3, <2>1, <2>2, <2>3, <2>4, <2>5 DEF TakeStep
<1>4. ASSUME NEW h \in Calls, ReturnStep(h) PROVE HoldInv'
  \* Steps on the way, for a person or for a session whose row names the credential.
  <2>a. ASSUME NEW k \in CallState, k.pc \in {"looking", "finding", "closing", "freeing"}, Step(h, k),
               UNCHANGED <<checkouts, session, injected>>,
               call[h].pc \in {"idle", "looking", "finding", "closing", "freeing"},
               \A s \in Sessions : ReturnsFor(k, s) =>
                  ReturnsFor(call[h], s) /\ k.cred = call[h].cred
        PROVE  HoldInv'
    <3>1. \A s \in Sessions : ~ TakesFor(k, s) /\ ~ TakesFor(call[h], s)
      BY <2>a DEF TakesFor
    <3>2. \A s \in Sessions : ReturnsFor(k, s) =>
              session[s] \in {"Active", "Terminated"} /\ injected[s] = k.cred
      BY <1>4, <2>a DEF HoldInv, Returning
    <3> QED BY <1>0, <1>4, <2>a, <3>1, <3>2, HoldAside
  \* Coming to the end of a session that has nothing.
  <2>b. ASSUME NEW k \in CallState, NEW s \in Sessions, k = [pc |-> "ending", holder |-> s], Step(h, k),
               UNCHANGED <<checkouts, session, injected>>,
               call[h].pc \in {"idle", "looking", "freeing"},
               session[s] \in {"Active", "Terminated"}, Empty(s)
        PROVE  HoldInv'
    <3>1. k.pc = "ending" /\ k.holder = s
      BY <2>b
    <3>2. \A t \in Sessions : /\ ~ TakesFor(k, t) /\ ~ TakesFor(call[h], t)
                              /\ ReturnsFor(k, t) => t = s
      BY <2>b, <3>1 DEF TakesFor, ReturnsFor
    <3> QED BY <1>0, <1>4, <2>b, <3>1, <3>2, HoldAside
  <2>1. ASSUME NEW c \in Credentials, Checkin(h, c) PROVE HoldInv'
    <3>1. PICK k \in CallState : k = Working("finding", c, Person)
      BY <1>0, WorkingTyped DEF Holder
    <3>2. /\ call[h].pc = "idle" /\ Step(h, k) /\ UNCHANGED <<checkouts, session, injected>>
          /\ k.pc = "finding" /\ k.holder = Person
      BY <2>1, <3>1 DEF Checkin, Begin, Working, Idle, sessionVars
    <3>3. \A s \in Sessions : ~ ReturnsFor(k, s)
      BY <3>2, HolderAssumption DEF ReturnsFor
    <3> QED BY <2>a, <3>2, <3>3
  <2>2. ASSUME NEW s \in Sessions, Terminate(h, s) PROVE HoldInv'
    <3>1. call[h].pc = "idle" /\ session[s] = "Active" /\ UNCHANGED <<checkouts, session, injected>>
      BY <2>2 DEF Terminate, Begin, Idle, sessionVars
    <3>2. CASE injected[s] = NoCredential
      <4>1. PICK k \in CallState : k = [pc |-> "ending", holder |-> s]
        BY DEF CallState
      <4>2. Step(h, k)
        BY <2>2, <3>2, <4>1 DEF Terminate, Begin
      <4>3. Empty(s)
        BY <1>0, <3>1, <3>2, NothingHeld, HolderAssumption DEF Uncontended
      <4> QED BY <2>b, <3>1, <4>1, <4>2, <4>3
    <3>3. CASE injected[s] # NoCredential
      <4>1. [pc |-> "looking", cred |-> injected[s], holder |-> s] \in CallState
        BY <1>0, <3>3 DEF CallState, TypeOK
      <4>2. PICK k \in CallState : k = [pc |-> "looking", cred |-> injected[s], holder |-> s]
        BY <4>1
      <4>3. k.pc = "looking" /\ k.cred = injected[s] /\ k.holder = s
        BY <4>2
      <4>4. Step(h, k)
        BY <2>2, <3>3, <4>2 DEF Terminate, Begin
      <4>5. \A t \in Sessions : /\ ~ TakesFor(k, t) /\ ~ TakesFor(call[h], t)
                                /\ ReturnsFor(k, t) => t = s
        BY <3>1, <4>3 DEF TakesFor, ReturnsFor
      <4> QED BY <1>0, <1>4, <3>1, <4>3, <4>4, <4>5, HoldAside
    <3> QED BY <3>2, <3>3
  <2>3. CASE LookUpCredential(h)
    <3>1. call[h].pc = "looking" /\ call[h].cred \in Credentials /\ call[h].holder \in Sessions
          /\ UNCHANGED <<checkouts, session, injected>>
      BY <1>0, <1>4, <2>3, WorkKinds DEF LookUpCredential, sessionVars
    <3> PICK s \in Sessions, c \in Credentials : s = call[h].holder /\ c = call[h].cred
      BY <3>1
    <3>2. ReturnsFor(call[h], s) /\ session[s] \in {"Active", "Terminated"} /\ injected[s] = c
      BY <1>4, <3>1 DEF HoldInv, Returning, ReturnsFor
    <3>3. CASE credStatus[c] = "CheckedOut"
      <4>1. PICK k \in CallState : k = Working("finding", c, s)
        BY <1>0, WorkingTyped DEF Holder
      <4>2. k.pc = "finding" /\ k.cred = c /\ k.holder = s
        BY <4>1 DEF Working
      <4>3. Step(h, k)
        BY <2>3, <3>3, <4>1 DEF LookUpCredential
      <4>4. \A t \in Sessions : ReturnsFor(k, t) => t = s
        BY <4>2 DEF ReturnsFor
      <4> QED BY <2>a, <3>1, <3>2, <4>2, <4>3, <4>4
    <3>4. CASE credStatus[c] # "CheckedOut"
      <4>1. PICK k \in CallState : k = [pc |-> "ending", holder |-> s]
        BY DEF CallState
      <4>2. Step(h, k)
        BY <2>3, <3>4, <4>1 DEF LookUpCredential
      <4>3. ASSUME c \in Uncontended, NEW i \in Open(c), checkouts[i].holder = s
            PROVE  FALSE
        <5>1. Right(c)
          BY <4>3 DEF VaultInv
        <5>2. Written(c)
          BY <3>4, <4>3, <5>1 DEF Right, Matches
        <5>3. PICK g \in Calls : call[g].pc \in {"marking", "freeing"} /\ call[g].cred = c
          BY <5>2 DEF Written
        <5>4. Current(g)
          BY <5>1, <5>3 DEF Right, InHand
        <5>5. call[g].pc = "marking" /\ call[g].holder = s
          BY <4>3, <5>3, <5>4 DEF Current
        <5>6. TakesFor(call[g], s)
          BY <5>5 DEF TakesFor
        <5>7. session[s] = "starting"
          BY <5>6 DEF HoldInv, Taking
        <5> QED BY <3>2, <5>7
      <4>4. Empty(s)
        BY <1>0, <3>2, <4>3, NothingHeld
      <4> QED BY <2>b, <3>1, <3>2, <4>1, <4>2, <4>4
    <3> QED BY <3>3, <3>4
  <2>4. CASE FindCheckout(h)
    <3> DEFINE W == Work({"adding", "marking", "finding", "closing", "freeing"}, Holder)
    <3>1. call[h] \in W /\ call[h].pc = "finding"
      BY <1>0, <1>4, <2>4, WorkKinds DEF FindCheckout
    <3>2. ASSUME NEW k \in W, Step(h, k), k.pc \in {"closing", "freeing"},
                 k.cred = call[h].cred, k.holder = call[h].holder
          PROVE  HoldInv'
      <4>1. k \in CallState
        BY DEF CallState
      <4>2. \A s \in Sessions : ReturnsFor(k, s) => ReturnsFor(call[h], s)
        BY <3>1, <3>2 DEF ReturnsFor
      <4>3. UNCHANGED <<checkouts, session, injected>>
        BY <2>4 DEF FindCheckout, sessionVars
      <4> HIDE DEF W
      <4> QED BY <2>a, <3>1, <3>2, <4>1, <4>2, <4>3
    <3>3. CASE Step(h, [call[h] EXCEPT !.pc = "freeing"])
      <4>1. PICK k \in W : k = [call[h] EXCEPT !.pc = "freeing"]
        BY <3>1 DEF Work
      <4>2. k.pc = "freeing" /\ k.cred = call[h].cred /\ k.holder = call[h].holder
        BY <3>1, <4>1 DEF Work
      <4> HIDE DEF W
      <4> QED BY <3>2, <3>3, <4>1, <4>2
    <3>4. ASSUME NEW i \in Open(call[h].cred), Step(h, [call[h] EXCEPT !.pc = "closing", !.entry = i])
          PROVE  HoldInv'
      <4>1. i \in Nat
        BY <1>0 DEF Open, TypeOK
      <4>2. PICK k \in W : k = [call[h] EXCEPT !.pc = "closing", !.entry = i]
        BY <3>1, <4>1 DEF Work
      <4>3. k.pc = "closing" /\ k.cred = call[h].cred /\ k.holder = call[h].holder
        BY <3>1, <4>2 DEF Work
      <4> HIDE DEF W
      <4> QED BY <3>2, <3>4, <4>2, <4>3
    <3> QED BY <2>4, <3>3, <3>4 DEF FindCheckout
  <2>5. CASE CloseCheckout(h)
    <3> DEFINE W == Work({"adding", "marking", "finding", "closing", "freeing"}, Holder)
    <3>1. call[h] \in W /\ call[h].pc = "closing"
      BY <1>0, <1>4, <2>5, WorkKinds DEF CloseCheckout
    <3> PICK k \in W, e \in Nat : k = [call[h] EXCEPT !.pc = "freeing"] /\ e = call[h].entry
      BY <3>1 DEF Work
    <3>2. /\ k \in CallState /\ k.pc = "freeing" /\ k.cred = call[h].cred
          /\ k.holder = call[h].holder /\ e \in DOMAIN checkouts
      BY <1>4, <3>1 DEF CallState, Work, VaultInv, Entries
    <3>3. /\ checkouts' = [checkouts EXCEPT ![e].open = FALSE] /\ UNCHANGED <<session, injected>>
          /\ Step(h, k)
      BY <2>5 DEF CloseCheckout, sessionVars
    <3> HIDE DEF W
    <3>4. /\ DOMAIN checkouts' = DOMAIN checkouts
          /\ \A i \in DOMAIN checkouts :
                /\ checkouts'[i].cred = checkouts[i].cred
                /\ checkouts'[i].holder = checkouts[i].holder
                /\ checkouts'[i].open = (checkouts[i].open /\ i # e)
      BY <1>0, <3>2, <3>3, OpenClosed
    <3>5. \A s \in Sessions, c \in Credentials : HasOpen(s, c)' => HasOpen(s, c)
      BY <3>4 DEF HasOpen
    <3>6. call'[h] = k /\ \A g \in Calls : g # h => call'[g] = call[g]
      BY <1>0, <1>4, <3>2, <3>3, StepTyped
    <3>7. \A s \in Sessions : /\ ~ TakesFor(call'[h], s) /\ ~ TakesFor(call[h], s)
                              /\ ReturnsFor(call'[h], s) => ReturnsFor(call[h], s)
      BY <3>1, <3>2, <3>6 DEF TakesFor, ReturnsFor
    <3>8. Owned'
      <4> SUFFICES ASSUME NEW s \in Sessions, NEW c \in Credentials, HasOpen(s, c), injected[s] # c
                   PROVE  \E g \in Calls : call'[g].pc \in {"marking", "starting"}
                                           /\ TakesFor(call'[g], s) /\ call'[g].cred = c
        BY <3>3, <3>5 DEF Owned, TakesFor
      <4>1. PICK g \in Calls : call[g].pc \in {"marking", "starting"} /\ TakesFor(call[g], s)
                               /\ call[g].cred = c
        BY DEF HoldInv, Owned
      <4> QED BY <3>6, <3>7, <4>1
    <3>9. Taking'
      <4> SUFFICES ASSUME NEW s \in Sessions, NEW g \in Calls, TakesFor(call'[g], s)
                   PROVE  /\ session[s] = "starting" /\ injected[s] = NoCredential
                          /\ \A f \in Calls : TakesFor(call'[f], s) => f = g
        BY <3>3 DEF Taking, TakesFor
      <4>1. \A f \in Calls : TakesFor(call'[f], s) => TakesFor(call[f], s)
        BY <3>6, <3>7
      <4> QED BY <4>1 DEF HoldInv, Taking
    <3>10. Returning'
      <4> SUFFICES ASSUME NEW s \in Sessions, NEW g \in Calls, ReturnsFor(call'[g], s)
                   PROVE  /\ session[s] \in {"Active", "Terminated"}
                          /\ call'[g].pc = "ending" \/ injected[s] = call'[g].cred
        BY <3>3 DEF Returning, ReturnsFor
      <4>1. CASE g = h
        BY <1>4, <3>1, <3>2, <3>6, <3>7, <4>1 DEF HoldInv, Returning
      <4>2. CASE g # h
        BY <3>6, <4>2 DEF HoldInv, Returning
      <4> QED BY <4>1, <4>2
    <3>11. Fresh'
      BY <3>3 DEF HoldInv, Fresh
    <3>12. TerminateReleases'
      BY <1>0, <1>4, <3>2, <3>3, <3>4, ReleasesStep DEF HoldInv
    <3> QED BY <3>8, <3>9, <3>10, <3>11, <3>12 DEF HoldInv
  <2>6. CASE FreeCredential(h)
    <3>1. /\ call[h] \in Work({"adding", "marking", "finding", "closing", "freeing"}, Holder)
          /\ call[h].pc = "freeing" /\ call[h].holder \in Holder
          /\ UNCHANGED <<checkouts, session, injected>>
      BY <1>0, <1>4, <2>6, WorkKinds DEF FreeCredential, Work, sessionVars
    <3>2. CASE call[h].holder = Person
      <4>1. Step(h, Idle)
        BY <2>6, <3>2 DEF FreeCredential
      <4>2. \A s \in Sessions : ~ TakesFor(call[h], s)
        BY <3>1 DEF TakesFor
      <4> QED BY <1>0, <1>4, <1>a, <1>b, <3>1, <4>1, <4>2, HoldAside
    <3>3. CASE call[h].holder # Person
      <4>1. PICK s \in Sessions : s = call[h].holder
        BY <3>1, <3>3 DEF Holder
      <4>2. PICK k \in CallState : k = [pc |-> "ending", holder |-> s]
        BY DEF CallState
      <4>3. Step(h, k)
        BY <2>6, <3>3, <4>1, <4>2 DEF FreeCredential
      <4>4. session[s] \in {"Active", "Terminated"} /\ injected[s] = call[h].cred
        BY <1>4, <3>1, <4>1 DEF HoldInv, Returning, ReturnsFor
      <4>5. ASSUME NEW c \in Uncontended, injected[s] = c PROVE Open(c) = {}
        <5>1. InHand(call[h], c) /\ Right(c)
          BY <3>1, <4>4, <4>5 DEF InHand, VaultInv
        <5>2. Current(h)
          BY <1>4, <5>1 DEF Right
        <5> QED BY <3>1, <4>4, <4>5, <5>2 DEF Current
      <4>6. Empty(s)
        BY <1>0, <4>4, <4>5, NothingHeld
      <4> QED BY <2>b, <3>1, <4>2, <4>3, <4>4, <4>6
    <3> QED BY <3>2, <3>3
  <2>7. CASE EndSession(h)
    <3>1. call[h].pc = "ending" /\ call[h].holder \in Sessions
      BY <1>0, <1>4, <2>7, WorkKinds DEF EndSession
    <3> PICK s \in Sessions : s = call[h].holder
      BY <3>1
    <3>2. /\ session' = [session EXCEPT ![s] = "Terminated"] /\ Step(h, Idle)
          /\ UNCHANGED <<checkouts, injected>>
      BY <2>7 DEF EndSession
    <3>3. /\ call'[h] = Idle /\ \A g \in Calls : g # h => call'[g] = call[g]
          /\ session'[s] = "Terminated"
          /\ \A t \in Sessions : t # s => session'[t] = session[t]
      BY <1>0, <1>4, <1>a, <3>2, StepTyped DEF TypeOK
    <3>4. session[s] \in {"Active", "Terminated"} /\ \A t \in Sessions : ~ TakesFor(call[h], t)
      BY <1>4, <3>1 DEF HoldInv, Returning, ReturnsFor, TakesFor
    <3>5. \A g \in Calls : ~ TakesFor(call[g], s)
      BY <3>4 DEF HoldInv, Taking
    <3>6. Owned'
      <4> SUFFICES ASSUME NEW t \in Sessions, NEW d \in Credentials, HasOpen(t, d), injected[t] # d
                   PROVE  \E g \in Calls : call'[g].pc \in {"marking", "starting"}
                                           /\ TakesFor(call'[g], t) /\ call'[g].cred = d
        BY <3>2 DEF Owned, HasOpen, TakesFor
      <4>1. PICK g \in Calls : call[g].pc \in {"marking", "starting"} /\ TakesFor(call[g], t)
                               /\ call[g].cred = d
        BY DEF HoldInv, Owned
      <4> QED BY <3>3, <3>4, <4>1
    <3>7. Taking'
      <4> SUFFICES ASSUME NEW t \in Sessions, NEW g \in Calls, TakesFor(call'[g], t)
                   PROVE  /\ session'[t] = "starting" /\ injected[t] = NoCredential
                          /\ \A f \in Calls : TakesFor(call'[f], t) => f = g
        BY <3>2 DEF Taking, TakesFor
      <4>1. \A f \in Calls : TakesFor(call'[f], t) => TakesFor(call[f], t)
        BY <1>b, <3>3
      <4>2. t # s
        BY <3>5, <4>1
      <4> QED BY <3>3, <4>1, <4>2 DEF HoldInv, Taking
    <3>8. Returning'
      <4> SUFFICES ASSUME NEW t \in Sessions, NEW g \in Calls, ReturnsFor(call'[g], t)
                   PROVE  /\ session'[t] \in {"Active", "Terminated"}
                          /\ call'[g].pc = "ending" \/ injected[t] = call'[g].cred
        BY <3>2 DEF Returning, ReturnsFor
      <4>1. ReturnsFor(call[g], t) /\ call'[g] = call[g]
        BY <1>b, <3>3
      <4> QED BY <3>3, <4>1 DEF HoldInv, Returning
    <3>9. Fresh'
      BY <3>2, <3>3 DEF HoldInv, Fresh
    <3>10. TerminateReleases'
      BY <1>0, <1>4, <1>a, <3>2, ReleasesStep DEF HoldInv
    <3> QED BY <3>6, <3>7, <3>8, <3>9, <3>10 DEF HoldInv
  <2>8. ~ FailSessionWrite(h)
    BY DEF FailSessionWrite
  <2> QED BY <1>4, <2>1, <2>2, <2>3, <2>4, <2>5, <2>6, <2>7, <2>8 DEF ReturnStep
<1>5. ASSUME NEW h \in Calls, RotateStep(h) PROVE HoldInv'
  <2>1. ASSUME NEW c \in Credentials, Rotate(h, c) PROVE HoldInv'
    <3>1. PICK k \in CallState : k = Working("rotating", c, Person)
      BY <1>0, WorkingTyped DEF Holder
    <3>2. /\ call[h].pc = "idle" /\ Step(h, k) /\ UNCHANGED <<checkouts, session, injected>>
          /\ k.pc = "rotating"
      BY <2>1, <3>1 DEF Rotate, Begin, Working, Idle, sessionVars
    <3>3. \A s \in Sessions : ~ TakesFor(k, s) /\ ~ ReturnsFor(k, s)
      BY <3>2 DEF TakesFor, ReturnsFor
    <3> QED BY <1>0, <1>5, <3>2, <3>3, HoldAside
  <2>2. CASE WriteRotation(h)
    BY <1>0, <1>5, <1>a, <1>b, <2>2, HoldAside DEF WriteRotation, sessionVars
  <2> QED BY <1>5, <2>1, <2>2 DEF RotateStep
<1>6. ASSUME UNCHANGED vars PROVE HoldInv'
  BY <1>6 DEF vars, HoldInv, Owned, HasOpen, Taking, TakesFor, Returning, ReturnsFor, Fresh,
              TerminateReleases, Uncontended
<1> QED BY <1>1, <1>2, <1>3, <1>4, <1>5, <1>6 DEF Next

HoldInMemory == provider = "InMemory" => HoldInv

\* With the in-memory stores SessionsController ends no session that still has
\* a credential out, however its calls overlap: not even one whose own checkout
\* was closed by hand and whose credential was taken by someone else, and not
\* when several of them end one session at once.
THEOREM TerminateReturnsCredential == Spec => []TerminateReleasesInMemory
<1>1. Init => HoldInMemory
  BY InitHoldInv DEF HoldInMemory
<1>2. [Next]_vars => provider' = provider
  BY DEF Next, vars, CreateCredential, CreateBareSession, EndSessionByAgent, TakeStep, Checkout,
         InjectCredential, AddCheckout, MarkCheckedOut, StartSession, ReturnStep, Checkin, Terminate,
         LookUpCredential, FindCheckout, CloseCheckout, FreeCredential, EndSession, FailSessionWrite,
         RotateStep, Rotate, WriteRotation, Begin, Step, callVars
<1>3. VaultInv /\ HoldInMemory /\ [Next]_vars => VaultInv' /\ HoldInMemory'
  BY <1>2, NextVaultInv, NextHoldInv DEF HoldInMemory
<1>4. HoldInMemory => TerminateReleasesInMemory
  BY DEF HoldInMemory, HoldInv, TerminateReleasesInMemory
<1> QED BY InitVaultInv, <1>1, <1>3, <1>4, PTL DEF Spec
=============================================================================
