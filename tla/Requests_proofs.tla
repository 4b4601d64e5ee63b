--------------------------- MODULE Requests_proofs ---------------------------
(***************************************************************************)
(* Proofs about SessionRequests for any users, administrators, overlapping *)
(* calls and seeds, issue numbers and spellings and any interleaving of    *)
(* them with hand-made issues, webhooks, passes and restarts, and about    *)
(* AccessPolicy for any accounts, lists, deployments and sessions, as      *)
(* parts of the composition Requests.                                      *)
(***************************************************************************)
EXTENDS Requests, WellFoundedInduction, TLAPS

Spellings == Spelling \cup {"canonical"}
CallStates == {"idle", "checked", "posted", "stop", "stopped", "late_create", "late_close"}
SeedStates == {"none", "probe", "create", "late"}

Issue == [st : {"none", "open", "closed"}, by : User \cup {Bot}, env : Env]
CallRecord == [at : CallStates, by : User \cup {Bot}, env : Env, n : Number \cup {0},
               spelling : Spellings]
Payload == [n : Number, spelling : Spellings, by : User]
Passing == [at : {"idle", "resolve", "load", "ensure"}, n : Number \cup {0}, env : Env \cup {"none"}]

Shape ==
  /\ issue \in [Number -> Issue]
  /\ closedHooks \subseteq Number /\ wanted \subseteq Number
  /\ call \in [Call -> CallRecord]
  /\ registry \subseteq Payload
  /\ seed \in [1..MaxSeeds -> SeedStates]
  /\ pass \in Passing
  /\ sandbox \in [Number -> Env \cup {"none"}]

\* An issue that exists; its author and its environment never change.
Exists(n) == n \in Number /\ issue[n].st # "none"

\* The App opens no issue that asks for an environment.
Issues == \A n \in Number : issue[n].by = Bot => issue[n].env = "plain"

\* What a call knows of its issue: a created one is the caller's, with the
\* environment the call carries.
CallOf(c) ==
  /\ call[c].at \in {"posted", "stop", "stopped", "late_close"} => Exists(call[c].n)
  /\ call[c].at \in {"checked", "posted", "late_create"} => call[c].by \in User
  /\ call[c].at = "posted" => /\ issue[call[c].n].by = call[c].by
                              /\ issue[call[c].n].env = call[c].env
Calls == \A c \in Call : CallOf(c)

\* A payload is held for the author of an issue that asks for a private one.
HeldFor(e) == Exists(e.n) /\ issue[e.n].by = e.by /\ issue[e.n].env = "private"
HandedOver == \A e \in registry : HeldFor(e)

\* The spawn under way carries the environment its issue asks for.
Spawning ==
  /\ pass.at # "idle" => Exists(pass.n)
  /\ pass.at = "load" => issue[pass.n].env = "named"
  /\ pass.at = "ensure" => pass.env = issue[pass.n].env

RunsAsAsked(n) == sandbox[n] # "none" => Exists(n) /\ sandbox[n] = issue[n].env
Running == \A n \in Number : RunsAsAsked(n)

HandOffInv == Shape /\ Issues /\ Calls /\ HandedOver /\ Spawning /\ Running

-----------------------------------------------------------------------------
(* What happens to the issues                                               *)

\* The number GitHub gives to a new issue was free.
LEMMA NewNumberIsFree ==
  ASSUME Free # {}
  PROVE  NewNumber \in Free
<1> DEFINE Below == {ss \in Nat \X Nat : ss[1] < ss[2]}
<1>0. IsWellFoundedOn(Below, Nat)
  BY NatLessThanWellFounded DEF OpToRel
<1>1. Free \subseteq Nat
  BY RequestsAssumption DEF Free
<1>2. PICK x \in Free : \A y \in Free : ~(<<y, x>> \in Below)
  <2> HIDE DEF Below
  <2> QED BY <1>0, <1>1, WFMin
<1>3. \A a, b \in Nat : a < b => <<a, b>> \in Below
  OBVIOUS
<1> HIDE DEF Below
<1>4. \A y \in Free : x \in Nat /\ y \in Nat /\ ~(y < x)
  BY <1>1, <1>2, <1>3
<1>5. \A y \in Free : x <= y
  BY <1>4
<1> QED BY <1>5 DEF NewNumber, Min

\* An issue that exists keeps its author and its environment.
Onward ==
  \A n \in Number : Exists(n) => /\ Exists(n)'
                                 /\ issue'[n].by = issue[n].by
                                 /\ issue'[n].env = issue[n].env

\* Opening an issue touches only a number that was free.
LEMMA OpenedIsNew ==
  ASSUME Shape, Issues, Free # {}, NEW by \in User \cup {Bot}, NEW env \in Env,
         by = Bot => env = "plain", Opened(by, env)
  PROVE  /\ NewNumber \in Number /\ issue[NewNumber].st = "none"
         /\ issue' \in [Number -> Issue]
         /\ issue'[NewNumber] = [st |-> "open", by |-> by, env |-> env]
         /\ \A n \in Number : n # NewNumber => issue'[n] = issue[n]
         /\ Onward /\ Issues'
<1>1. NewNumber \in Number /\ issue[NewNumber].st = "none"
  BY NewNumberIsFree DEF Free
<1> HIDE DEF NewNumber
<1>2. /\ issue'[NewNumber] = [st |-> "open", by |-> by, env |-> env]
      /\ \A n \in Number : n # NewNumber => issue'[n] = issue[n]
      /\ issue' \in [Number -> Issue]
  BY <1>1 DEF Opened, Shape, Issue
<1>3. Onward
  BY <1>1, <1>2 DEF Onward, Exists
<1>4. Issues'
  BY <1>1, <1>2 DEF Issues
<1> QED BY <1>1, <1>2, <1>3, <1>4

\* Closing keeps everything but the state.
LEMMA CloseKeeps ==
  ASSUME Shape, Issues, NEW n \in Number, Exists(n), Close(n)
  PROVE  /\ issue' \in [Number -> Issue]
         /\ closedHooks' \subseteq Number
         /\ Onward /\ Issues'
<1> DEFINE now == [issue[n] EXCEPT !.st = "closed"]
<1>1. issue' = [issue EXCEPT ![n] = now]
  BY DEF Close, Shape
<1>2. now \in Issue /\ now.st = "closed" /\ now.by = issue[n].by /\ now.env = issue[n].env
  BY DEF Shape, Issue
<1> HIDE DEF now
<1>3. closedHooks' \subseteq Number
  BY DEF Close, Shape
<1>4. /\ issue' \in [Number -> Issue] /\ issue'[n] = now
      /\ \A m \in Number : m # n => issue'[m] = issue[m]
  BY <1>1, <1>2 DEF Shape
<1>5. Onward /\ Issues'
  BY <1>2, <1>4 DEF Onward, Exists, Issues
<1> QED BY <1>3, <1>4, <1>5

\* Reopening too.
LEMMA ReopenKeeps ==
  ASSUME Shape, Issues, NEW n \in Number, Reopen(n)
  PROVE  issue' \in [Number -> Issue] /\ Onward /\ Issues'
<1> DEFINE now == [issue[n] EXCEPT !.st = "open"]
<1>1. issue' = [issue EXCEPT ![n] = now]
  BY DEF Reopen, Shape
<1>2. now \in Issue /\ now.st = "open" /\ now.by = issue[n].by /\ now.env = issue[n].env
  BY DEF Shape, Issue
<1> HIDE DEF now
<1>3. /\ issue' \in [Number -> Issue] /\ issue'[n] = now
      /\ \A m \in Number : m # n => issue'[m] = issue[m]
  BY <1>1, <1>2 DEF Shape
<1>4. Onward /\ Issues'
  BY <1>2, <1>3 DEF Onward, Exists, Issues, Reopen
<1> QED BY <1>3, <1>4

-----------------------------------------------------------------------------
(* The hand-off                                                             *)

\* What is known of an issue that exists stays so for whoever does not move.
LEMMA KnownStays ==
  ASSUME HandOffInv, Onward
  PROVE  /\ \A c \in Call : call'[c] = call[c] => CallOf(c)'
         /\ \A e \in registry : HeldFor(e)'
         /\ pass' = pass => Spawning'
         /\ \A n \in Number : sandbox'[n] = sandbox[n] => RunsAsAsked(n)'
<1>1. ASSUME NEW c \in Call, call'[c] = call[c]
      PROVE  CallOf(c)'
  <2>1. CallOf(c)
    BY DEF HandOffInv, Calls
  <2>2. Exists(call[c].n) => /\ call[c].n \in Number /\ issue'[call[c].n].st # "none"
                             /\ issue'[call[c].n].by = issue[call[c].n].by
                             /\ issue'[call[c].n].env = issue[call[c].n].env
    BY DEF Onward, Exists
  <2> QED BY <1>1, <2>1, <2>2 DEF CallOf, Exists
<1>2. \A e \in registry : HeldFor(e)'
  BY DEF HandOffInv, Onward, HandedOver, HeldFor, Exists
<1>3. pass' = pass => Spawning'
  BY DEF HandOffInv, Onward, Spawning, Exists
<1>4. \A n \in Number : sandbox'[n] = sandbox[n] => RunsAsAsked(n)'
  BY DEF HandOffInv, Onward, Running, RunsAsAsked, Exists
<1> QED BY <1>1, <1>2, <1>3, <1>4

\* The call that moves, alone: its record is well formed and says the truth.
LEMMA CallMoves ==
  ASSUME HandOffInv, Onward, NEW c \in Call, NEW r \in CallRecord,
         call' = [call EXCEPT ![c] = r], CallOf(c)'
  PROVE  call' \in [Call -> CallRecord] /\ Calls'
<1>1. \A d \in Call : d # c => call'[d] = call[d]
  BY DEF HandOffInv, Shape
<1>2. \A d \in Call : CallOf(d)'
  BY <1>1, KnownStays
<1> QED BY <1>2 DEF HandOffInv, Shape, Calls

\* An idle call knows nothing.
LEMMA EndCallKeeps ==
  ASSUME HandOffInv, Onward, NEW c \in Call, EndCall(c)
  PROVE  call' \in [Call -> CallRecord] /\ Calls'
<1>1. NoCall \in CallRecord
  BY DEF NoCall, CallRecord, CallStates, Env, Spellings
<1>2. call'[c] = NoCall
  BY DEF EndCall, HandOffInv, Shape
<1>3. CallOf(c)'
  BY <1>2 DEF CallOf, NoCall
<1> QED BY <1>1, <1>3, CallMoves DEF EndCall

\* What is left of a call whose task is gone is no more than its request.
LEMMA LeftKeeps ==
  ASSUME HandOffInv, Onward, NEW c \in Call, call'[c] = Left(call[c])
  PROVE  call'[c] \in CallRecord /\ CallOf(c)'
<1>0. call[c] \in CallRecord /\ CallOf(c)
  BY DEF HandOffInv, Shape, Calls
<1>1. CASE call[c].at = "checked"
  <2>1. call'[c] = [at |-> "late_create", by |-> call[c].by, env |-> call[c].env, n |-> 0,
                         spelling |-> "canonical"]
    BY <1>1 DEF Left, NoCall
  <2>2. call'[c] \in CallRecord
    BY <1>0, <2>1 DEF CallRecord, CallStates, Spellings
  <2>3. call[c].by \in User /\ call'[c].at = "late_create" /\ call'[c].by = call[c].by
    BY <1>0, <1>1, <2>1 DEF CallOf
  <2> QED BY <2>2, <2>3 DEF CallOf
<1>2. CASE call[c].at = "stop"
  <2>1. call'[c] = [at |-> "late_close", by |-> Bot, env |-> "plain", n |-> call[c].n,
                         spelling |-> "canonical"]
    BY <1>2 DEF Left, NoCall
  <2>2. Exists(call[c].n) /\ call[c].n \in Number
    BY <1>0, <1>2 DEF CallOf, Exists
  <2>3. call'[c] \in CallRecord
    BY <2>1, <2>2 DEF CallRecord, CallStates, Env, Spellings
  <2>4. call'[c].at = "late_close" /\ call'[c].n = call[c].n
    BY <2>1
  <2>5. Exists(call[c].n)'
    BY <2>2, <2>4 DEF Onward, Exists
  <2> QED BY <2>3, <2>4, <2>5 DEF CallOf
<1>3. CASE call[c].at \in {"late_create", "late_close"}
  <2>1. call'[c] = call[c]
    BY <1>3 DEF Left
  <2> QED BY <1>0, <2>1, KnownStays
<1>4. CASE call[c].at \notin {"checked", "stop", "late_create", "late_close"}
  <2>1. call'[c] = NoCall
    BY <1>4 DEF Left
  <2> QED BY <2>1 DEF CallOf, NoCall, CallRecord, CallStates, Env, Spellings
<1> QED BY <1>1, <1>2, <1>3, <1>4

\* An issue unchanged is an issue kept.
LEMMA SameIssues ==
  ASSUME Issues, UNCHANGED issue
  PROVE  Onward /\ Issues'
BY DEF Onward, Exists, Issues

\* A step of the canvas, of people and of the seeder touches neither the spawn
\* under way nor the runtimes, and hands over only what it knows.
LEMMA Outside ==
  ASSUME HandOffInv, Onward, Issues', UNCHANGED <<pass, sandbox>>,
         issue' \in [Number -> Issue], closedHooks' \subseteq Number, wanted' \subseteq Number,
         call' \in [Call -> CallRecord], Calls',
         registry' \subseteq Payload, \A e \in registry' \ registry : HeldFor(e)',
         seed' \in [1..MaxSeeds -> SeedStates]
  PROVE  HandOffInv'
<1>1. HandedOver'
  BY KnownStays DEF HandedOver
<1>2. Spawning' /\ Running'
  BY KnownStays DEF Running
<1>3. Shape'
  BY DEF HandOffInv, Shape
<1> QED BY <1>1, <1>2, <1>3 DEF HandOffInv

\* A step of the reconciler touches only the spawn under way, the runtimes and
\* what it drops from the registry.
LEMMA Inside ==
  ASSUME HandOffInv, UNCHANGED <<issue, closedHooks, call, seed, wanted>>,
         registry' \subseteq registry, pass' \in Passing, Spawning',
         sandbox' \in [Number -> Env \cup {"none"}], Running'
  PROVE  HandOffInv'
<1>1. Onward /\ Issues'
  BY SameIssues DEF HandOffInv
<1>2. Calls' /\ HandedOver'
  BY <1>1, KnownStays DEF Calls, HandedOver
<1>3. Shape'
  BY DEF HandOffInv, Shape
<1> QED BY <1>1, <1>2, <1>3 DEF HandOffInv

LEMMA HandOffStep ==
  ASSUME HandOffInv, [Next]_vars
  PROVE  HandOffInv'
<1> USE DEF HandOffInv
<1>0. /\ registry \subseteq Payload /\ issue \in [Number -> Issue]
      /\ closedHooks \subseteq Number /\ wanted \subseteq Number
      /\ call \in [Call -> CallRecord] /\ seed \in [1..MaxSeeds -> SeedStates]
      /\ pass \in Passing /\ sandbox \in [Number -> Env \cup {"none"}]
  BY DEF Shape
<1>1. ASSUME NEW u \in User, NEW env \in Env, OpenByHand(u, env)
      PROVE  HandOffInv'
  <2>1. u # Bot
    BY RequestsAssumption
  <2>2. issue' \in [Number -> Issue] /\ Onward /\ Issues'
    BY <1>1, <2>1, OpenedIsNew DEF OpenByHand
  <2>3. Calls'
    BY <1>1, <2>2, KnownStays DEF OpenByHand, Calls
  <2> QED BY <1>0, <1>1, <2>2, <2>3, Outside DEF OpenByHand
<1>2. ASSUME NEW c \in Call, NEW u \in User, NEW env \in Env, NEW sp \in Spelling,
             NEW labelled \in BOOLEAN, CreateSession(c, u, env, sp, labelled)
      PROVE  HandOffInv'
  <2> DEFINE r == [at |-> "checked", by |-> u, env |-> env, n |-> 0, spelling |-> sp]
  <2>1. Onward /\ Issues'
    BY <1>2, SameIssues DEF CreateSession
  <2>2. r \in CallRecord
    BY DEF CallRecord, CallStates, Spellings
  <2>3. call'[c] = r
    BY <1>0, <1>2 DEF CreateSession
  <2>4. CallOf(c)'
    BY <2>3 DEF CallOf
  <2>5. call' \in [Call -> CallRecord] /\ Calls'
    BY <1>2, <2>1, <2>2, <2>4, CallMoves DEF CreateSession
  <2> QED BY <1>0, <1>2, <2>1, <2>5, Outside DEF CreateSession
<1>3. ASSUME NEW c \in Call, CreateIssue(c)
      PROVE  HandOffInv'
  <2> DEFINE at == [call[c] EXCEPT !.at = "posted"]
             r == [at EXCEPT !.n = NewNumber]
             by == call[c].by
  <2>0. call[c].at = "checked" /\ CallOf(c) /\ call[c] \in CallRecord
    BY <1>0, <1>3 DEF CreateIssue, Calls
  <2>1. by \in User /\ by # Bot /\ call[c].env \in Env
    BY <2>0, RequestsAssumption DEF CallOf, CallRecord
  <2>2. /\ issue' \in [Number -> Issue] /\ Onward /\ Issues'
        /\ NewNumber \in Number
        /\ issue'[NewNumber] = [st |-> "open", by |-> by, env |-> call[c].env]
    BY <1>3, <2>1, OpenedIsNew DEF CreateIssue
  <2> HIDE DEF NewNumber
  <2>3. call' = [call EXCEPT ![c] = r]
    BY <1>0, <1>3 DEF CreateIssue
  <2>4. at \in CallRecord /\ at.at = "posted" /\ at.env = call[c].env /\ at.by = by
    BY <2>0 DEF CallRecord, CallStates
  <2> HIDE DEF at
  <2>5. r \in CallRecord /\ r.at = "posted" /\ r.n = NewNumber /\ r.env = call[c].env /\ r.by = by
    BY <2>2, <2>4 DEF CallRecord, CallStates
  <2>6. call'[c] = r
    BY <1>0, <2>3
  <2> HIDE DEF r, by
  <2>7. CallOf(c)'
    <3>1. call'[c].at = "posted" /\ call'[c].n = NewNumber /\ call'[c].env = call[c].env
          /\ call'[c].by = by
      BY <2>5, <2>6
    <3>2. Exists(call[c].n)'
      BY <2>2, <3>1 DEF Exists
    <3> QED BY <2>1, <2>2, <3>1, <3>2 DEF CallOf
  <2>8. call' \in [Call -> CallRecord] /\ Calls'
    BY <2>2, <2>3, <2>5, <2>7, CallMoves
  <2> QED BY <1>0, <1>3, <2>2, <2>8, Outside DEF CreateIssue
<1>4. ASSUME NEW c \in Call, HandOver(c)
      PROVE  HandOffInv'
  <2> DEFINE e == [n |-> call[c].n, spelling |-> call[c].spelling, by |-> call[c].by]
  <2>1. Onward /\ Issues'
    BY <1>4, SameIssues DEF HandOver
  <2>2. call' \in [Call -> CallRecord] /\ Calls'
    BY <1>4, <2>1, EndCallKeeps DEF HandOver
  <2>3. CallOf(c) /\ call[c].at = "posted"
    BY <1>4 DEF HandOver, Calls
  <2>4. e \in Payload
    BY <1>0, <2>3 DEF CallOf, Exists, CallRecord, Payload
  <2>5. ASSUME NEW f, f = e, call[c].env = "private"
        PROVE  HeldFor(f)'
    <3>1. /\ Exists(f.n) /\ issue[f.n].by = f.by /\ issue[f.n].env = "private"
      BY <2>3, <2>5 DEF CallOf
    <3> QED BY <1>4, <3>1 DEF Exists, HeldFor, HandOver
  <2>6. /\ registry' \subseteq Payload
        /\ \A f \in registry' \ registry : HeldFor(f)'
    <3> HIDE DEF HeldFor
    <3>1. registry' \subseteq registry \cup {e} /\ (call[c].env # "private" => registry' = registry)
      BY <1>4 DEF HandOver
    <3> HIDE DEF e
    <3> QED BY <1>0, <2>4, <2>5, <3>1
  <2> QED BY <1>0, <1>4, <2>1, <2>2, <2>6, Outside DEF HandOver
<1>5. ASSUME NEW c \in Call, CallLost(c)
      PROVE  HandOffInv'
  <2>1. Onward /\ Issues'
    BY <1>5, SameIssues DEF CallLost
  <2>2. call' = [call EXCEPT ![c] = call'[c]] /\ call'[c] = Left(call[c])
    BY <1>0, <1>5 DEF CallLost
  <2>3. call'[c] \in CallRecord /\ CallOf(c)'
    BY <2>1, <2>2, LeftKeeps
  <2>4. call' \in [Call -> CallRecord] /\ Calls'
    BY <2>1, <2>2, <2>3, CallMoves
  <2> QED BY <1>0, <1>5, <2>1, <2>4, Outside DEF CallLost
<1>6. ASSUME NEW c \in Call, NEW done \in BOOLEAN, LateCreate(c, done)
      PROVE  HandOffInv'
  <2>0. call[c].by \in User /\ call[c].by # Bot /\ call[c].env \in Env
    BY <1>0, <1>6, RequestsAssumption DEF LateCreate, Calls, CallOf, CallRecord
  <2>1. issue' \in [Number -> Issue] /\ Onward /\ Issues'
    <3>1. CASE done
      BY <1>6, <2>0, <3>1, OpenedIsNew DEF LateCreate
    <3>2. CASE ~done
      BY <1>0, <1>6, <3>2, SameIssues DEF LateCreate
    <3> QED BY <3>1, <3>2
  <2>2. call' \in [Call -> CallRecord] /\ Calls'
    BY <1>6, <2>1, EndCallKeeps DEF LateCreate
  <2> QED BY <1>0, <1>6, <2>1, <2>2, Outside DEF LateCreate
<1>7. ASSUME NEW c \in Call, NEW done \in BOOLEAN, LateClose(c, done)
      PROVE  HandOffInv'
  <2>0. Exists(call[c].n) /\ call[c].n \in Number
    BY <1>7 DEF LateClose, Calls, CallOf, Exists
  <2>1. issue' \in [Number -> Issue] /\ closedHooks' \subseteq Number /\ Onward /\ Issues'
    <3>1. CASE done
      BY <1>7, <2>0, <3>1, CloseKeeps DEF LateClose
    <3>2. CASE ~done
      BY <1>0, <1>7, <3>2, SameIssues DEF LateClose
    <3> QED BY <3>1, <3>2
  <2>2. call' \in [Call -> CallRecord] /\ Calls'
    BY <1>7, <2>1, EndCallKeeps DEF LateClose
  <2> QED BY <1>0, <1>7, <2>1, <2>2, Outside DEF LateClose
<1>8. ASSUME NEW c \in Call, NEW u \in User, NEW n \in Number, NEW sp \in Spelling,
             StopSession(c, u, n, sp)
      PROVE  HandOffInv'
  <2> DEFINE r == [at |-> "stop", by |-> Bot, env |-> "plain", n |-> n, spelling |-> sp]
  <2>1. Onward /\ Issues'
    BY <1>8, SameIssues DEF StopSession
  <2>2. r \in CallRecord
    BY DEF CallRecord, CallStates, Spellings, Env
  <2>3. call' = [call EXCEPT ![c] = r]
    <3> DEFINE at == [NoCall EXCEPT !.at = "stop"]
               of == [at EXCEPT !.n = n]
               q == [of EXCEPT !.spelling = sp]
    <3>1. call' = [call EXCEPT ![c] = q]
      BY <1>8 DEF StopSession
    <3>2. at = [at |-> "stop", by |-> Bot, env |-> "plain", n |-> 0, spelling |-> "canonical"]
      BY DEF NoCall
    <3> HIDE DEF at
    <3>3. of = [at |-> "stop", by |-> Bot, env |-> "plain", n |-> n, spelling |-> "canonical"]
      BY <3>2
    <3> HIDE DEF of
    <3>4. q = r
      BY <3>3
    <3> HIDE DEF q, r
    <3> QED BY <3>1, <3>4
  <2>4. call'[c] = r
    BY <1>0, <2>3
  <2>5. Exists(call[c].n)'
    BY <1>8, <2>4 DEF StopSession, Exists
  <2>6. CallOf(c)'
    BY <2>4, <2>5 DEF CallOf
  <2>7. call' \in [Call -> CallRecord] /\ Calls'
    BY <2>1, <2>2, <2>3, <2>6, CallMoves
  <2> QED BY <1>0, <1>8, <2>1, <2>7, Outside DEF StopSession
<1>9. ASSUME NEW c \in Call, StopClose(c)
      PROVE  HandOffInv'
  <2> DEFINE r == [call[c] EXCEPT !.at = "stopped"]
  <2>1. CallOf(c) /\ call[c].at = "stop" /\ Close(call[c].n)
    BY <1>9 DEF StopClose, Calls
  <2>2. Exists(call[c].n) /\ call[c].n \in Number
    BY <2>1 DEF CallOf, Exists
  <2>3. issue' \in [Number -> Issue] /\ closedHooks' \subseteq Number /\ Onward /\ Issues'
    BY <2>1, <2>2, CloseKeeps
  <2>4. call' = [call EXCEPT ![c] = r]
    BY <1>0, <1>9 DEF StopClose
  <2>5. r \in CallRecord /\ r.at = "stopped" /\ r.n = call[c].n
    BY <1>0 DEF CallRecord, CallStates
  <2>6. call'[c] = r
    BY <1>0, <2>4
  <2> HIDE DEF r
  <2>7. CallOf(c)'
    BY <2>2, <2>3, <2>5, <2>6 DEF CallOf, Exists, Onward
  <2>8. call' \in [Call -> CallRecord] /\ Calls'
    BY <2>3, <2>4, <2>5, <2>7, CallMoves
  <2> QED BY <1>0, <1>9, <2>3, <2>8, Outside DEF StopClose
<1>10. ASSUME NEW c \in Call, StopForget(c)
       PROVE  HandOffInv'
  <2>1. Onward /\ Issues'
    BY <1>10, SameIssues DEF StopForget
  <2>2. call' \in [Call -> CallRecord] /\ Calls'
    BY <1>10, <2>1, EndCallKeeps DEF StopForget
  <2>3. registry' \subseteq registry
    BY <1>10 DEF StopForget, RemoveIssue
  <2> QED BY <1>0, <1>10, <2>1, <2>2, <2>3, Outside DEF StopForget
<1>11. ASSUME NEW n \in Number, CloseByHand(n)
       PROVE  HandOffInv'
  <2>1. Exists(n) /\ Close(n)
    BY <1>11 DEF CloseByHand, IsOpen, Exists
  <2>2. issue' \in [Number -> Issue] /\ closedHooks' \subseteq Number /\ Onward /\ Issues'
    BY <2>1, CloseKeeps
  <2>3. Calls'
    BY <1>11, <2>2, KnownStays DEF CloseByHand, Calls
  <2> QED BY <1>0, <1>11, <2>2, <2>3, Outside DEF CloseByHand
<1>12. ASSUME NEW n \in Number, Reopen(n)
       PROVE  HandOffInv'
  <2>1. issue' \in [Number -> Issue] /\ Onward /\ Issues'
    BY <1>12, ReopenKeeps
  <2>2. Calls'
    BY <1>12, <2>1, KnownStays DEF Reopen, Calls
  <2> QED BY <1>0, <1>12, <2>1, <2>2, Outside DEF Reopen
<1>13. ASSUME NEW n \in Number, NeedChanges(n)
       PROVE  HandOffInv'
  <2>1. Onward /\ Issues'
    BY <1>13, SameIssues DEF NeedChanges
  <2>2. Calls'
    BY <1>13, <2>1, KnownStays DEF NeedChanges, Calls
  <2>3. wanted' \subseteq Number
    BY <1>0, <1>13 DEF NeedChanges
  <2> QED BY <1>0, <1>13, <2>1, <2>2, <2>3, Outside DEF NeedChanges
<1>14. ASSUME NEW n \in Number, NEW again \in BOOLEAN, IssueClosed(n, again)
       PROVE  HandOffInv'
  <2>1. Onward /\ Issues'
    BY <1>14, SameIssues DEF IssueClosed
  <2>2. Calls'
    BY <1>14, <2>1, KnownStays DEF IssueClosed, Calls
  <2>3. registry' \subseteq registry /\ closedHooks' \subseteq closedHooks
    BY <1>14 DEF IssueClosed, RemoveIssue
  <2> QED BY <1>0, <1>14, <2>1, <2>2, <2>3, Outside DEF IssueClosed
<1>15. ASSUME NEW t \in 1..MaxSeeds, InstallationCreated(t)
       PROVE  HandOffInv'
  <2>1. Onward /\ Issues'
    BY <1>15, SameIssues DEF InstallationCreated
  <2>2. Calls'
    BY <1>15, <2>1, KnownStays DEF InstallationCreated, Calls
  <2>3. seed' \in [1..MaxSeeds -> SeedStates]
    BY <1>0, <1>15 DEF InstallationCreated, SeedStates
  <2> QED BY <1>0, <1>15, <2>1, <2>2, <2>3, Outside DEF InstallationCreated
<1>16. ASSUME NEW t \in 1..MaxSeeds, NEW answered \in BOOLEAN, SeedProbe(t, answered)
       PROVE  HandOffInv'
  <2>1. Onward /\ Issues'
    BY <1>16, SameIssues DEF SeedProbe
  <2>2. Calls'
    BY <1>16, <2>1, KnownStays DEF SeedProbe, Calls
  <2>3. seed' \in [1..MaxSeeds -> SeedStates]
    BY <1>0, <1>16 DEF SeedProbe, SeedStates
  <2> QED BY <1>0, <1>16, <2>1, <2>2, <2>3, Outside DEF SeedProbe
<1>17. ASSUME NEW t \in 1..MaxSeeds, NEW done \in BOOLEAN, SeedCreate(t, done)
       PROVE  HandOffInv'
  <2>1. seed' \in [1..MaxSeeds -> SeedStates]
    BY <1>0, <1>17 DEF SeedCreate, SeedStates
  <2>2. issue' \in [Number -> Issue] /\ Onward /\ Issues'
    <3>1. CASE done
      <4>1. Opened(Bot, "plain") /\ Free # {} /\ "plain" \in Env
        BY <1>17, <3>1 DEF SeedCreate, Env
      <4> QED BY <4>1, OpenedIsNew
    <3>2. CASE ~done
      BY <1>0, <1>17, <3>2, SameIssues DEF SeedCreate
    <3> QED BY <3>1, <3>2
  <2>3. Calls'
    BY <1>17, <2>2, KnownStays DEF SeedCreate, Calls
  <2> QED BY <1>0, <1>17, <2>1, <2>2, <2>3, Outside DEF SeedCreate
<1>18. ASSUME NEW n \in Number, Begin(n)
       PROVE  HandOffInv'
  <2>1. pass' = [at |-> "resolve", n |-> n, env |-> "none"]
    BY <1>18 DEF Begin, NoPass
  <2>2. Spawning' /\ pass' \in Passing
    BY <1>18, <2>1 DEF Spawning, Begin, Exists, IsOpen, Passing
  <2>3. Running'
    BY <1>18 DEF Begin, Running, RunsAsAsked, Exists
  <2> QED BY <1>0, <1>18, <2>2, <2>3, Inside DEF Begin
<1>19. ASSUME NEW ok \in BOOLEAN, Resolve(ok)
       PROVE  HandOffInv'
  <2> DEFINE env == ResolveEnvironment(pass.n)
             load == [pass EXCEPT !.at = "load"]
             at == [pass EXCEPT !.at = "ensure"]
             resolved == [at EXCEPT !.env = env]
  <2>1. Exists(pass.n) /\ pass.n \in Number /\ pass \in Passing
    BY <1>0, <1>19 DEF Resolve, Spawning, Exists
  <2>2. /\ env = "load" => issue[pass.n].env = "named"
        /\ env \notin {"load", "blocked"} => env = issue[pass.n].env /\ env \in Env
    BY <1>0, <2>1 DEF ResolveEnvironment, Issues, Env, Issue
  <2>3. \/ pass' = NoPass
        \/ env = "load" /\ pass' = load
        \/ env \notin {"load", "blocked"} /\ pass' = resolved
    BY <1>19 DEF Resolve
  <2>4. load \in Passing /\ load.at = "load" /\ load.n = pass.n
    BY <2>1 DEF Passing
  <2>5. at \in Passing /\ at.at = "ensure" /\ at.n = pass.n
    BY <2>1 DEF Passing
  <2> HIDE DEF env, at, load
  <2>6. env \in Env => /\ resolved \in Passing /\ resolved.at = "ensure"
                       /\ resolved.n = pass.n /\ resolved.env = env
    BY <2>5 DEF Passing
  <2> HIDE DEF resolved
  <2>7. NoPass \in Passing /\ NoPass.at = "idle"
    BY DEF NoPass, Passing
  <2>8. UNCHANGED <<issue, closedHooks, call, registry, seed, wanted, sandbox>>
    BY <1>19 DEF Resolve
  <2>9. Spawning' /\ pass' \in Passing
    BY <2>1, <2>2, <2>3, <2>4, <2>6, <2>7, <2>8 DEF Spawning, Exists
  <2>10. Running'
    BY <2>8 DEF Running, RunsAsAsked, Exists
  <2> QED BY <1>0, <2>8, <2>9, <2>10, Inside
<1>20. ASSUME NEW ok \in BOOLEAN, LoadProfile(ok)
       PROVE  HandOffInv'
  <2> DEFINE at == [pass EXCEPT !.at = "ensure"]
             loaded == [at EXCEPT !.env = "named"]
  <2>1. at \in Passing /\ at.n = pass.n /\ at.at = "ensure"
    BY <1>0 DEF Passing
  <2>2. pass' = IF ok THEN loaded ELSE NoPass
    BY <1>0, <1>20 DEF LoadProfile, Passing
  <2> HIDE DEF at
  <2>3. loaded \in Passing /\ loaded.n = pass.n /\ loaded.at = "ensure" /\ loaded.env = "named"
    BY <2>1 DEF Passing, Env
  <2> HIDE DEF loaded
  <2>4. NoPass \in Passing
    BY DEF NoPass, Passing
  <2>5. Spawning'
    BY <1>20, <2>2, <2>3 DEF Spawning, LoadProfile, NoPass, Exists
  <2>6. Running'
    BY <1>20 DEF LoadProfile, Running, RunsAsAsked, Exists
  <2> QED BY <1>0, <1>20, <2>2, <2>3, <2>4, <2>5, <2>6, Inside DEF LoadProfile
<1>21. ASSUME NEW landed \in BOOLEAN, NEW confirmed \in BOOLEAN, EnsureSession(landed, confirmed)
       PROVE  HandOffInv'
  <2>1. Onward
    BY <1>21, SameIssues DEF EnsureSession
  <2>2. registry' \subseteq registry
    BY <1>21 DEF EnsureSession, Complete
  <2>3. /\ Exists(pass.n) /\ pass.n \in Number /\ pass.env = issue[pass.n].env
        /\ pass.env \in Env
    BY <1>0, <1>21 DEF EnsureSession, Spawning, Exists, Issue
  <2>4. /\ sandbox' \in [Number -> Env \cup {"none"}]
        /\ \A n \in Number : sandbox'[n] = sandbox[n] \/ (n = pass.n /\ sandbox'[n] = pass.env)
    BY <1>0, <1>21, <2>3 DEF EnsureSession
  <2>5. ASSUME NEW n \in Number
        PROVE  RunsAsAsked(n)'
    <3>1. CASE sandbox'[n] = sandbox[n]
      BY <2>1, <3>1, KnownStays
    <3>2. CASE n = pass.n /\ sandbox'[n] = pass.env
      BY <1>21, <2>3, <3>2 DEF RunsAsAsked, Exists, EnsureSession
    <3> QED BY <2>4, <3>1, <3>2
  <2>6. pass' \in Passing /\ Spawning'
    BY <1>21 DEF Spawning, EnsureSession, NoPass, Passing
  <2>7. Running'
    BY <2>5 DEF Running
  <2> QED BY <1>21, <2>2, <2>4, <2>6, <2>7, Inside DEF EnsureSession
<1>22. ASSUME NEW n \in Number, Kill(n)
       PROVE  HandOffInv'
  <2>1. Onward
    BY <1>22, SameIssues DEF Kill
  <2>2. /\ sandbox' \in [Number -> Env \cup {"none"}] /\ sandbox'[n] = "none"
        /\ \A m \in Number : m # n => sandbox'[m] = sandbox[m]
    BY <1>0, <1>22 DEF Kill
  <2>3. RunsAsAsked(n)'
    BY <2>2 DEF RunsAsAsked
  <2>4. Running'
    BY <2>1, <2>2, <2>3, KnownStays DEF Running
  <2>5. Spawning'
    BY <1>22, <2>1, KnownStays DEF Kill
  <2> QED BY <1>0, <1>22, <2>2, <2>4, <2>5, Inside DEF Kill
<1>23. ASSUME Restart
       PROVE  HandOffInv'
  <2>1. Onward /\ Issues'
    BY <1>23, SameIssues DEF Restart
  <2>2. Running'
    BY <1>23, <2>1, KnownStays DEF Restart, Running
  <2>3. HandedOver' /\ Spawning'
    BY <1>23 DEF Restart, HandedOver, Spawning, NoPass
  <2>4. \A c \in Call : call'[c] = Left(call[c])
    BY <1>23 DEF Restart
  <2>5. \A c \in Call : call'[c] \in CallRecord /\ CallOf(c)'
    BY <2>1, <2>4, LeftKeeps
  <2>6. call' \in [Call -> CallRecord] /\ Calls'
    BY <1>23, <2>5 DEF Restart, Calls
  <2>7. seed' \in [1..MaxSeeds -> SeedStates]
    BY <1>23 DEF Restart, SeedStates
  <2>8. Shape'
    BY <1>0, <1>23, <2>6, <2>7 DEF Shape, Restart, NoPass, Passing
  <2> QED BY <2>1, <2>2, <2>3, <2>6, <2>8
<1>24. CASE UNCHANGED vars
  BY <1>24 DEF vars, Shape, Issues, Calls, CallOf, HandedOver, HeldFor, Spawning, Running,
               RunsAsAsked, Exists
<1> QED
  BY <1>1, <1>2, <1>3, <1>4, <1>5, <1>6, <1>7, <1>8, <1>9, <1>10, <1>11, <1>12, <1>13, <1>14,
     <1>15, <1>16, <1>17, <1>18, <1>19, <1>20, <1>21, <1>22, <1>23, <1>24
  DEF Next, Spawn, RecoverCredentials

-----------------------------------------------------------------------------
(* Theorems                                                                 *)

LEMMA InitInv ==
  ASSUME Init
  PROVE  HandOffInv
<1>1. NoIssue \in Issue /\ NoCall \in CallRecord /\ NoPass \in Passing
  BY DEF NoIssue, NoCall, NoPass, Issue, CallRecord, CallStates, Env, Spellings, Passing
<1>2. Shape
  BY <1>1 DEF Init, Shape, SeedStates
<1>3. Issues /\ Calls /\ HandedOver /\ Spawning /\ Running
  BY DEF Init, Issues, NoIssue, Calls, CallOf, NoCall, HandedOver, Spawning, NoPass, Running,
         RunsAsAsked
<1> QED BY <1>2, <1>3 DEF HandOffInv

LEMMA Invariance == Spec => []HandOffInv
<1> QED BY InitInv, HandOffStep, PTL DEF Spec

\* The invariant gives the types and the promise of the spawn.
LEMMA InvGives ==
  ASSUME HandOffInv
  PROVE  TypeOK /\ SandboxIsAsAsked
<1> USE DEF HandOffInv
<1>1. TypeOK
  <2>1. \A n \in Number : issue[n].st \in {"none", "open", "closed"} /\ issue[n].by \in User \cup {Bot}
    BY DEF Shape, Issue
  <2>2. \A c \in Call : call[c].at \in CallStates
    BY DEF Shape, CallRecord
  <2>3. \A e \in registry : issue[e.n].by = e.by /\ issue[e.n].env = "private"
    BY DEF HandedOver, HeldFor
  <2>4. pass.at \in {"idle", "resolve", "load", "ensure"}
    BY DEF Shape, Passing
  <2> QED BY <2>1, <2>2, <2>3, <2>4 DEF Shape, CallStates, SeedStates, TypeOK
<1>2. SandboxIsAsAsked
  BY DEF Running, RunsAsAsked, SandboxIsAsAsked
<1> QED BY <1>1, <1>2

\* A runtime is started with exactly the environment its issue asks for, or not
\* at all (resolve_environment, complete_disposable_handoff), whatever is lost,
\* delivered again or restarted on the way.
THEOREM EnvironmentIsAsAsked == Spec => []SandboxIsAsAsked
<1>1. HandOffInv => SandboxIsAsAsked
  BY InvGives
<1> QED BY <1>1, Invariance, PTL

LEMMA KeptStep == HandOffInv /\ Next => ForgottenForAReasonStep
<1> SUFFICES ASSUME HandOffInv, Next, NEW e \in registry \ registry'
             PROVE  \/ sandbox'[e.n] = "private"
                    \/ e.n \in closedHooks
                    \/ \E c \in Call : call[c].at = "stopped" /\ call[c].n = e.n
                    \/ registry' = {} /\ pass' = NoPass
                       /\ \A c \in Call : call'[c].at \notin {"checked", "posted"}
  BY DEF ForgottenForAReasonStep
<1>1. ASSUME NEW c \in Call, StopForget(c)
      PROVE  call[c].at = "stopped" /\ call[c].n = e.n
  BY <1>1 DEF StopForget, RemoveIssue
<1>2. ASSUME NEW n \in Number, NEW again \in BOOLEAN, IssueClosed(n, again)
      PROVE  e.n \in closedHooks
  BY <1>2 DEF IssueClosed, RemoveIssue
<1>3. ASSUME NEW landed \in BOOLEAN, NEW confirmed \in BOOLEAN, EnsureSession(landed, confirmed)
      PROVE  sandbox'[e.n] = "private"
  <2>1. pass.env = "private" /\ e \in Lookup(pass.n) /\ confirmed
    BY <1>3 DEF EnsureSession, Complete
  <2>2. e.n = pass.n /\ pass.n \in Number /\ issue[pass.n].env = "private"
    BY <1>3, <2>1 DEF Lookup, HandOffInv, Spawning, Exists, EnsureSession
  <2>3. sandbox[pass.n] # "none" => sandbox[pass.n] = "private"
    BY <2>2 DEF HandOffInv, Running, RunsAsAsked
  <2> QED BY <1>3, <2>1, <2>2, <2>3 DEF EnsureSession, HandOffInv, Shape
<1>4. CASE Restart
  <2>1. \A c \in Call : call'[c] = Left(call[c])
    BY <1>4 DEF Restart
  <2>2. \A c \in Call : Left(call[c]).at \notin {"checked", "posted"}
    BY DEF Left, NoCall, HandOffInv, Shape, CallRecord
  <2> QED BY <1>4, <2>1, <2>2 DEF Restart
<1>5. ASSUME NEW c \in Call, HandOver(c)
      PROVE  FALSE
  BY <1>5 DEF HandOver
<1> QED
  BY <1>1, <1>2, <1>3, <1>4, <1>5 DEF Next, OpenByHand, CreateSession, CreateIssue, CallLost,
     LateCreate, LateClose, StopSession, StopClose, CloseByHand, Reopen, NeedChanges, Spawn,
     RecoverCredentials, Begin, Resolve, Kill, InstallationCreated, SeedProbe, SeedCreate,
     LoadProfile

\* A one-time environment leaves the registry only when a runtime has it, its
\* trigger was closed, or the process went down (RemoveIssue, Complete, Restart).
THEOREM PayloadsAreKept == Spec => ForgottenForAReason
<1>1. HandOffInv /\ [Next]_vars => [ForgottenForAReasonStep]_vars
  BY KeptStep
<1> QED BY <1>1, Invariance, PTL DEF Spec, ForgottenForAReason

----------------------------------------------------------------------------
(* The access policy                                                        *)

\* The facts the steps of the policy rest on: logins are texts, and what the
\* process loaded is a configuration it accepts.
AccessInv ==
  /\ login \in [Account -> Text] /\ policy \in Deployment /\ facts \in Session
  /\ aRegistry \in [ready : BOOLEAN, known : BOOLEAN]
  /\ A!FromVars(policy)

\* Whoever is not admitted is refused before any tier is tried (policy.rs).
LEMMA OutsiderIsDenied ==
  ASSUME NEW u, NEW capability, NEW admin, ~A!Allows(u)
  PROVE  A!Decide(capability, u, admin) = "none"
BY DEF A!Decide

LEMMA OutsiderGetsNothing ==
  ASSUME NEW u, NEW q \in A!Requests, NEW asked \in BOOLEAN, ~A!Allows(u)
  PROVE  A!Answer(u, q, asked).rows = {} /\ A!Inventory(u, q, asked).rows = {}
BY DEF A!Answer, A!Inventory

\* A caller who is no administrator is in the personal scope or refused.
LEMMA NarrowScope ==
  ASSUME NEW u, NEW q \in A!Requests, ~A!IsGlobalAdmin(u)
  PROVE  A!ResolveScope(u, q) =
           IF q.cross \/ q.requested = "global" THEN "forbidden" ELSE "mine"
BY DEF A!ResolveScope

LEMMA OwnAnswers ==
  ASSUME NEW u \in Account, NEW q \in A!Requests, NEW asked \in BOOLEAN,
         ~A!IsGlobalAdmin(u)
  PROVE  /\ \A row \in A!Answer(u, q, asked).rows : row.kind = "request" => row.actor = u
         /\ q.cross => A!Answer(u, q, asked).rows = {}
<1>1. A!ResolveScope(u, q) \in {"forbidden", "mine"}
  BY NarrowScope
<1>2. q.cross => A!ResolveScope(u, q) = "forbidden"
  BY NarrowScope
<1>3. \A row \in A!Rows(u, "mine", asked) : row.kind = "request" => row.actor = u
  BY DEF A!Rows
<1>4. A!Answer(u, q, asked).rows \in {{}, A!Rows(u, A!ResolveScope(u, q), asked)}
  BY DEF A!Answer
<1>5. A!ResolveScope(u, q) = "forbidden" => A!Answer(u, q, asked).rows = {}
  BY DEF A!Answer
<1> QED BY <1>1, <1>2, <1>3, <1>4, <1>5

LEMMA OwnRuntimes ==
  ASSUME NEW u \in Account, NEW q \in A!Requests, NEW asked \in BOOLEAN,
         ~A!IsGlobalAdmin(u)
  PROVE  /\ "orphan" \notin A!Inventory(u, q, asked).rows
         /\ "stamped" \in A!Inventory(u, q, asked).rows <=>
              q.requested # "global" /\ A!Allows(u) /\ A!Visibility(u, "mine") = "visible"
<1> DEFINE p == [q EXCEPT !.cross = FALSE]
<1>1. p \in A!Requests /\ p.cross = FALSE /\ p.requested = q.requested
  BY DEF A!Requests
<1>2. A!ResolveScope(u, p) = IF q.requested = "global" THEN "forbidden" ELSE "mine"
  BY <1>1, NarrowScope
<1>3. A!Visibility(u, "mine") = "visible" => aRegistry.ready
  BY DEF A!Visibility
<1> QED BY <1>2, <1>3 DEF A!Inventory, A!DecideRow, A!Runtimes

\* A list of ids alone is read without looking at any login.
LEMMA IdsDoNotMove ==
  ASSUME NEW list, A!ByIdOnly(list), NEW u
  PROVE  A!MatchesAny(list, u)' = A!MatchesAny(list, u)
BY DEF A!MatchesAny, A!EntryMatches, A!ByIdOnly, A!Blank

LEMMA TiersDoNotMove ==
  ASSUME UNCHANGED <<policy, facts>>, NEW u, facts.creator.id # 0,
         A!ByIdOnly(A!Listed(policy.entries)), A!ByIdOnly(A!Listed(policy.blocked)),
         A!ByIdOnly(policy.admins), A!ByIdOnly(policy.legacy),
         A!ByIdOnly(facts.collaborators), A!ByIdOnly(facts.log_access)
  PROVE  /\ A!Allows(u)' = A!Allows(u)
         /\ A!AdminTier(u, TRUE)' = A!AdminTier(u, TRUE)
         /\ A!CreatorTier(u)' = A!CreatorTier(u)
         /\ A!CollaboratorTier(u)' = A!CollaboratorTier(u)
         /\ A!LogTiers(u)' = A!LogTiers(u)
<1>1. A!IsGlobalAdmin(u)' = A!IsGlobalAdmin(u)
  BY IdsDoNotMove DEF A!IsGlobalAdmin
<1>2. A!Allows(u)' = A!Allows(u)
  BY <1>1, IdsDoNotMove DEF A!Allows, A!EffectiveModel, A!Listed
<1>3. A!CreatorTier(u)' = A!CreatorTier(u)
  BY DEF A!CreatorTier, A!CreatorMatches
<1>4. A!MatchesAny(facts.collaborators, u)' = A!MatchesAny(facts.collaborators, u)
  BY IdsDoNotMove
<1>5. A!MatchesAny(facts.log_access, u)' = A!MatchesAny(facts.log_access, u)
  BY IdsDoNotMove
<1>6. A!MatchesAny(policy.legacy, u)' = A!MatchesAny(policy.legacy, u)
  BY IdsDoNotMove
<1> QED
  BY <1>1, <1>2, <1>3, <1>4, <1>5, <1>6 DEF A!AdminTier, A!CollaboratorTier, A!LogTiers

LEMMA RightsStep ==
  ASSUME UNCHANGED <<policy, facts>>
  PROVE  A!RightsFollowTheIdStep
<1> SUFFICES ASSUME facts.creator.id # 0,
                    \A list \in {A!Listed(policy.entries), A!Listed(policy.blocked),
                                 policy.admins, policy.legacy, facts.collaborators,
                                 facts.log_access} : A!ByIdOnly(list),
                    NEW u \in Account, NEW capability \in A!Capabilities
             PROVE  A!Decide(capability, u, TRUE)' = A!Decide(capability, u, TRUE)
  BY DEF A!RightsFollowTheIdStep
<1> QED
  BY TiersDoNotMove DEF A!Decide, A!Capabilities

\* The projection only becomes ready; from then on a probe answers one of two.
LEMMA OracleStep ==
  ASSUME A!Next \/ UNCHANGED aRegistry
  PROVE  A!NoExistenceOracleStep
<1> SUFFICES ASSUME NEW u \in Account, aRegistry.ready,
                    A!Visibility(u, "mine") # "visible", A!Visibility(u, "mine")' # "visible"
             PROVE  A!Visibility(u, "mine")' = A!Visibility(u, "mine")
  BY DEF A!NoExistenceOracleStep
<1>1. aRegistry'.ready
  BY DEF A!Next, A!Rename, A!Publish
<1> QED BY <1>1 DEF A!Visibility

LEMMA AccessInitInv == A!Init => AccessInv
BY DEF A!Init, AccessInv

LEMMA AccessStep == AccessInv /\ A!Next => AccessInv'
<1> SUFFICES ASSUME AccessInv, A!Next
             PROVE  AccessInv'
  OBVIOUS
<1>1. UNCHANGED <<policy, facts>>
  BY DEF A!Next, A!Rename, A!Publish
<1>2. A!FromVars(policy)'
  BY <1>1 DEF AccessInv, A!FromVars, A!EffectiveModel
<1>3. login' \in [Account -> Text]
  BY DEF A!Next, A!Rename, A!Publish, AccessInv
<1>4. aRegistry' \in [ready : BOOLEAN, known : BOOLEAN]
  <2>1. ASSUME NEW u \in Account, NEW l \in Text, A!Rename(u, l)
        PROVE  aRegistry' = aRegistry
    BY <2>1 DEF A!Rename
  <2>2. ASSUME NEW known \in BOOLEAN, A!Publish(known)
        PROVE  aRegistry' \in [ready : BOOLEAN, known : BOOLEAN]
    BY <2>2 DEF A!Publish
  <2> QED BY <2>1, <2>2 DEF A!Next, AccessInv
<1> QED BY <1>1, <1>2, <1>3, <1>4 DEF AccessInv

LEMMA AccessInvGives == AccessInv => A!AccessSafe
<1> SUFFICES ASSUME AccessInv
             PROVE  A!AccessSafe
  OBVIOUS
<1>1. A!TypeOK
  BY DEF AccessInv, A!TypeOK, A!FromVars
<1>2. A!OutsiderHasNothing
  BY OutsiderIsDenied, OutsiderGetsNothing DEF A!OutsiderHasNothing
<1>3. A!OnlyOwnRows
  BY OwnAnswers, OwnRuntimes DEF A!OnlyOwnRows
<1> QED BY <1>1, <1>2, <1>3 DEF A!AccessSafe

----------------------------------------------------------------------------
(* The composition                                                          *)

\* What holds of the component that moves.
PartInv == HandOffInv /\ (part = "access" => AccessInv)

LEMMA PartStep == PartInv /\ [PartNext]_allVars => PartInv'
<1> SUFFICES ASSUME PartInv, [PartNext]_allVars
             PROVE  PartInv'
  OBVIOUS
<1>1. [Next]_vars
  BY DEF PartNext, allVars, vars, requestsVars
<1>2. HandOffInv'
  BY <1>1, HandOffStep DEF PartInv
<1>3. part' = part
  BY DEF PartNext, allVars
<1>4. part = "access" => A!Next \/ UNCHANGED accessVars
  BY DEF PartNext, allVars
<1>5. part = "access" => AccessInv'
  BY <1>4, AccessStep DEF PartInv, AccessInv, accessVars, A!FromVars, A!EffectiveModel
<1> QED BY <1>2, <1>3, <1>5 DEF PartInv

LEMMA PartInvariance == PartSpec => []PartInv
<1>1. PartInit => PartInv
  BY InitInv, AccessInitInv DEF PartInit, PartInv
<1> QED BY <1>1, PartStep, PTL DEF PartSpec

\* Whatever calls, seeds and passes overlap, whatever is lost, carried out late,
\* delivered again or restarted: the state has its type, a hand-off is held for
\* the author of an issue that asks for one (disposable_environment.rs), and a
\* runtime has the environment its issue asks for (resolve_environment).
THEOREM RequestsAreSafe == PartSpec => []RequestsSafe
<1>1. PartInv => RequestsSafe
  BY InvGives DEF PartInv, RequestsSafe
<1> QED BY <1>1, PartInvariance, PTL

\* For any accounts, lists, configurations, sessions and renamings: whoever the
\* deployment does not admit has no capability and no row, a caller who is no
\* administrator gets their own rows only, and the inventory agrees with the
\* probe (policy.rs, viewer.rs, activity.rs, authorize.rs).
THEOREM AccessIsSafe == PartSpec => []AccessSafe
<1>1. PartInv => AccessSafe
  BY AccessInvGives DEF PartInv, AccessSafe
<1> QED BY <1>1, PartInvariance, PTL

\* A step never moves rights that rest on ids to another login, never lets a
\* probe tell a foreign session from a missing one, and forgets a one-time
\* environment only for a reason (policy.rs, gate.rs, registry).
THEOREM StepsAreCareful == PartSpec => CarefulSteps
<1>1. PartInv /\ [PartNext]_allVars =>
        [/\ part = "requests" => ForgottenForAReasonStep
         /\ part = "access" => A!RightsFollowTheIdStep /\ A!NoExistenceOracleStep]_allVars
  <2> SUFFICES ASSUME PartInv, PartNext
               PROVE  /\ part = "requests" => ForgottenForAReasonStep
                      /\ part = "access" => A!RightsFollowTheIdStep /\ A!NoExistenceOracleStep
    OBVIOUS
  <2>1. part = "requests" => ForgottenForAReasonStep
    BY KeptStep DEF PartNext, PartInv
  <2>2. part = "access" => A!Next /\ UNCHANGED <<policy, facts>>
    BY DEF PartNext, A!Next, A!Rename, A!Publish
  <2> QED BY <2>1, <2>2, RightsStep, OracleStep
<1> QED BY <1>1, PartInvariance, PTL DEF PartSpec, CarefulSteps
=============================================================================
