--------------------------- MODULE Sessions_proofs ---------------------------
(***************************************************************************)
(* Proofs about the credentials of a session: their delivery to a sandbox, *)
(* for any number of credential files, sandbox identities, attempts,       *)
(* faults and changes of the trigger; the rotation of its token, for any   *)
(* sessions, interval, delays and number of failures; and the log stream   *)
(* of its pod, for any runs, lines, reports, capacities and failures.      *)
(***************************************************************************)
EXTENDS Sessions, FiniteSetTheorems, SequenceTheorems, WellFoundedInduction, TLAPS

\* A fleet lists identities, each once.
Fleet(f) == f \in Seq(Id) /\ IsInjective(f)

States == {"late", "running", "failed"}
Box == [state : States, files : SUBSET (0..Sentinel), up : BOOLEAN, engine : BOOLEAN,
        torn : BOOLEAN]

Pcs == {"idle", "probe", "ensure", "create", "adopt", "upload", "restore", "stop",
        "reap", "session", "replace", "rename", "repush"}
Pushes == {"upload", "restore", "repush"}

\* A push waits only at its beginning, and the reconciler's stay within their attempts.
Orderly(t) ==
  /\ t.wait => t.next = 1
  /\ t.pc = "adopt" => t.next = 1
  /\ t.pc \in {"adopt", "upload", "restore"} => t.tries <= MaxAttempts

\* What a push has written is there, unless its container was replaced since.
Written(t, b) ==
  t.pc \in Pushes /\ t.id \in Id /\ b[t.id].up /\ ~b[t.id].torn =>
    1..(t.next - 1) \subseteq b[t.id].files

TaskOK(t, b) == t \in Task /\ Orderly(t) /\ Written(t, b)

\* The sentinel and a started engine each show that the whole set is on disk, or
\* that the container came up in the middle of a push.
Complete(c) ==
  /\ c.torn => c.up
  /\ ~c.torn /\ (Sentinel \in c.files \/ c.engine) => 1..Files \subseteq c.files

Boxes(b) == b \in [Id -> Box] /\ \A i \in Id : Complete(b[i])

Flags ==
  /\ cache \in BOOLEAN /\ queued \in BOOLEAN /\ shield \in BOOLEAN
  /\ want \in {"pending", "idle", "closed"}
  /\ faults \in 0..MaxFaults /\ changes \in 0..MaxChanges

\* The watch never pushes.
SweepsOK(s, b) ==
  /\ s \in [Sweeps -> Task] /\ \A w \in Sweeps : TaskOK(s[w], b)
  /\ s["watch"].pc \notin Pushes

IInv ==
  /\ Fleet(fleet) /\ Flags
  /\ Boxes(box)
  /\ TaskOK(rec, box)
  /\ SweepsOK(sweep, box)

-----------------------------------------------------------------------------
(* The fleet                                                                *)

LEMMA LeastIsIn ==
  ASSUME NEW S \in SUBSET Nat, S # {}
  PROVE  Min(S) \in S
<1> DEFINE Below == {ss \in Nat \X Nat : ss[1] < ss[2]}
<1>0. IsWellFoundedOn(Below, Nat)
  BY NatLessThanWellFounded DEF OpToRel
<1>1. PICK x \in S : \A y \in S : ~(<<y, x>> \in Below)
  <2> HIDE DEF Below
  <2> QED BY <1>0, WFMin
<1>2. \A a, b \in Nat : a < b => <<a, b>> \in Below
  OBVIOUS
<1> HIDE DEF Below
<1>3. \A y \in S : x \in Nat /\ y \in Nat /\ ~(y < x)
  BY <1>1, <1>2
<1>4. \A y \in S : x <= y
  BY <1>3
<1> QED BY <1>4 DEF Min

LEMMA Places ==
  ASSUME NEW n \in Nat
  PROVE  IsFiniteSet(1..n) /\ Cardinality(1..n) = n
<1>1. 1 \in Int /\ n \in Int
  OBVIOUS
<1>2. IsFiniteSet(1..n) /\ Cardinality(1..n) = IF 1 > n THEN 0 ELSE n - 1 + 1
  BY <1>1, FS_Interval
<1> QED BY <1>2

\* Each identity is listed once, so a fleet is no longer than the identities are many.
LEMMA FleetIsShort ==
  ASSUME NEW f, Fleet(f)
  PROVE  Len(f) <= Cardinality(Id) /\ Cardinality(Id) \in Nat
<1>1. Len(f) \in Nat /\ f \in [1..Len(f) -> Id] /\ DOMAIN f = 1..Len(f)
  BY DEF Fleet
<1>2. f \in Injection(1..Len(f), Id)
  BY <1>1 DEF Fleet, IsInjective, Injection
<1>3. Cardinality(1..Len(f)) <= Cardinality(Id)
  BY <1>2, FS_Injection, CredsAssumption
<1>4. Cardinality(1..Len(f)) = Len(f)
  BY <1>1, Places
<1> QED BY <1>3, <1>4, FS_CardinalityType, CredsAssumption

LEMMA FleetIsBounded ==
  ASSUME NEW f, Fleet(f)
  PROVE  f \in BoundedSeq(Id, Cardinality(Id))
<1>1. Len(f) \in 0..Cardinality(Id) /\ f \in [1..Len(f) -> Id]
  BY FleetIsShort DEF Fleet
<1> QED BY <1>1 DEF BoundedSeq, SeqOf

\* Deleting a sandbox leaves a fleet.
LEMMA DeleteKeeps ==
  ASSUME Fleet(fleet), NEW i
  PROVE  Fleet(Delete(i))
<1>1. CASE i \notin Range(fleet)
  BY <1>1 DEF Delete
<1>2. CASE i \in Range(fleet)
  <2> DEFINE k == CHOOSE k \in DOMAIN fleet : fleet[k] = i
             g == RemoveAt(fleet, k)
  <2>1. k \in DOMAIN fleet
    BY <1>2 DEF Range
  <2> HIDE DEF k
  <2>2. Len(fleet) \in Nat /\ fleet \in Seq(Id) /\ k \in 1..Len(fleet)
    BY <2>1 DEF Fleet
  <2>3. /\ g \in Seq(Id) /\ Len(g) = Len(fleet) - 1
        /\ \A j \in 1..Len(g) : g[j] = IF j < k THEN fleet[j] ELSE fleet[j + 1]
    <3> DEFINE a == SubSeq(fleet, 1, k - 1)
               b == SubSeq(fleet, k + 1, Len(fleet))
    <3>1. a \in Seq(Id) /\ Len(a) = k - 1 /\ \A j \in 1..(k - 1) : a[j] = fleet[j]
      BY <2>2
    <3>2. /\ b \in Seq(Id) /\ Len(b) = Len(fleet) - k
          /\ \A j \in 1..(Len(fleet) - k) : b[j] = fleet[k + j]
      BY <2>2
    <3>3. g = a \o b
      BY DEF RemoveAt
    <3> HIDE DEF a, b, g
    <3>4. g \in Seq(Id) /\ Len(g) = Len(fleet) - 1
      BY <2>2, <3>1, <3>2, <3>3
    <3>5. ASSUME NEW j \in 1..Len(g)
          PROVE  g[j] = IF j < k THEN fleet[j] ELSE fleet[j + 1]
      <4>1. CASE j < k
        BY <2>2, <3>1, <3>2, <3>3, <3>4, <4>1
      <4>2. CASE ~(j < k)
        <5>1. j - (k - 1) \in 1..(Len(fleet) - k) /\ k + (j - (k - 1)) = j + 1
          BY <2>2, <3>4, <4>2
        <5>2. g[j] = b[j - (k - 1)]
          BY <2>2, <3>1, <3>2, <3>3, <3>4, <4>2
        <5> QED BY <3>2, <4>2, <5>1, <5>2
      <4> QED BY <4>1, <4>2
    <3> QED BY <3>4, <3>5
  <2>4. Delete(i) = g
    BY <1>2 DEF Delete, k
  <2> HIDE DEF g
  <2>5. IsInjective(g)
    <3>1. DOMAIN g = 1..Len(g) /\ DOMAIN fleet = 1..Len(fleet)
      BY <2>2, <2>3
    <3>2. \A m, n \in 1..Len(fleet) : fleet[m] = fleet[n] => m = n
      BY <3>1 DEF Fleet, IsInjective
    <3>3. ASSUME NEW m \in 1..Len(g), NEW n \in 1..Len(g), g[m] = g[n]
          PROVE  m = n
      BY <2>2, <2>3, <3>2, <3>3
    <3> QED BY <3>1, <3>3 DEF IsInjective
  <2> QED BY <2>3, <2>4, <2>5 DEF Fleet
<1> QED BY <1>1, <1>2

\* A new sandbox is not in the fleet yet.
LEMMA AppendKeeps ==
  ASSUME Fleet(fleet), NEW i \in Id, i \notin Range(fleet)
  PROVE  Fleet(Append(fleet, i))
<1> DEFINE g == Append(fleet, i)
<1>1. /\ g \in Seq(Id) /\ Len(g) = Len(fleet) + 1 /\ Len(fleet) \in Nat /\ g[Len(g)] = i
      /\ \A k \in 1..Len(fleet) : g[k] = fleet[k] /\ fleet[k] # i
  BY DEF Fleet, Range
<1> HIDE DEF g
<1>2. DOMAIN g = 1..Len(g) /\ DOMAIN fleet = 1..Len(fleet)
  BY <1>1 DEF Fleet
<1>3. IsInjective(g)
  BY <1>1, <1>2 DEF Fleet, IsInjective
<1> QED BY <1>1, <1>3 DEF Fleet, g

\* What a list shows first, and second.
LEMMA Listed ==
  ASSUME Fleet(fleet)
  PROVE  /\ Views \subseteq 1..Len(fleet) /\ Cardinality(Views) \in 0..Cardinality(Id)
         /\ Views # {} => ResolveOne \in Id /\ Cardinality(Views) # 0
         /\ ResolveOne \in Id \cup {Nobody}
         /\ Views # {} /\ Duplicates # {} => fleet[Min(Duplicates)] \in Id
<1>1. Len(fleet) \in Nat /\ DOMAIN fleet = 1..Len(fleet) /\ \A k \in DOMAIN fleet : fleet[k] \in Id
  BY DEF Fleet
<1>2. Views \subseteq 1..Len(fleet) /\ Views \subseteq Nat
  BY <1>1 DEF Views
<1>3. /\ IsFiniteSet(Views) /\ Cardinality(Views) <= Len(fleet) /\ Cardinality(Views) \in Nat
      /\ Views # {} => Cardinality(Views) # 0
  <2>1. IsFiniteSet(1..Len(fleet)) /\ Cardinality(1..Len(fleet)) = Len(fleet)
    BY <1>1, Places
  <2>2. IsFiniteSet(Views) /\ Cardinality(Views) <= Len(fleet)
    BY <1>2, <2>1, FS_Subset
  <2> QED BY <2>2, FS_CardinalityType, FS_EmptySet
<1>4. Cardinality(Views) \in 0..Cardinality(Id)
  BY <1>1, <1>3, FleetIsShort
<1>5. Views # {} => ResolveOne \in Id
  BY <1>1, <1>2, LeastIsIn DEF ResolveOne
<1>6. ResolveOne \in Id \cup {Nobody}
  BY <1>5 DEF ResolveOne
<1>7. Views # {} /\ Duplicates # {} => fleet[Min(Duplicates)] \in Id
  <2>1. Duplicates \subseteq Views
    BY DEF Duplicates
  <2> QED BY <1>1, <1>2, <2>1, LeastIsIn
<1> QED BY <1>2, <1>3, <1>4, <1>5, <1>6, <1>7

-----------------------------------------------------------------------------
(* Tasks                                                                    *)

LEMMA Ones == 1 \in 1..Sentinel /\ 1 <= MaxAttempts /\ 1 \in 1..(MaxAttempts + Cardinality(Id))
<1>1. Cardinality(Id) \in Nat
  BY CredsAssumption, FS_CardinalityType
<1> QED BY <1>1, CredsAssumption DEF Sentinel

\* A task that begins has written nothing yet.
LEMMA Unwritten ==
  ASSUME NEW t \in Task, Orderly(t), t.next = 1, NEW b
  PROVE  TaskOK(t, b)
<1>1. 1..(t.next - 1) = {}
  OBVIOUS
<1> QED BY <1>1 DEF TaskOK, Written

\* A task that begins, about any sandbox, is in order.
LEMMA Begins ==
  ASSUME NEW t \in Task, t.next = 1, t.pc = "stop" \/ t.tries = 1, NEW b
  PROVE  TaskOK(t, b)
<1>1. Orderly(t)
  BY Ones DEF Orderly
<1> QED BY <1>1, Unwritten

LEMMA BeginsIdle ==
  ASSUME NEW b
  PROVE  /\ TaskOK(Idle, b)
         /\ \A p \in Pcs : TaskOK([Idle EXCEPT !.pc = p], b)
         /\ \A p \in Pcs, i \in Id \cup {Nobody} : TaskOK([Idle EXCEPT !.pc = p, !.id = i], b)
         /\ \A n \in 1..(MaxAttempts + Cardinality(Id)) :
              TaskOK([Idle EXCEPT !.pc = "stop", !.tries = n], b)
<1>1. Idle \in Task /\ Idle.next = 1 /\ Idle.tries = 1
  BY Ones DEF Idle, Task
<1>2. TaskOK(Idle, b)
  BY <1>1, Begins
<1>3. ASSUME NEW p \in Pcs, NEW i \in Id \cup {Nobody}
      PROVE  TaskOK([Idle EXCEPT !.pc = p, !.id = i], b) /\ TaskOK([Idle EXCEPT !.pc = p], b)
  <2> DEFINE t == [Idle EXCEPT !.pc = p, !.id = i]
             u == [Idle EXCEPT !.pc = p]
  <2>1. t \in Task /\ t.next = 1 /\ t.tries = 1
    BY Ones DEF Idle, Task, Pcs
  <2>2. u \in Task /\ u.next = 1 /\ u.tries = 1
    BY Ones DEF Idle, Task, Pcs
  <2> HIDE DEF t, u
  <2>3. TaskOK(t, b) /\ TaskOK(u, b)
    BY <2>1, <2>2, Begins
  <2> QED BY <2>3 DEF t, u
<1>4. ASSUME NEW n \in 1..(MaxAttempts + Cardinality(Id))
      PROVE  TaskOK([Idle EXCEPT !.pc = "stop", !.tries = n], b)
  <2> DEFINE t == [Idle EXCEPT !.pc = "stop", !.tries = n]
  <2>1. t \in Task /\ t.next = 1 /\ t.pc = "stop"
    BY Ones DEF Idle, Task
  <2> HIDE DEF t
  <2>2. TaskOK(t, b)
    BY <2>1, Begins
  <2> QED BY <2>2 DEF t
<1> QED BY <1>2, <1>3, <1>4

\* A retry begins anew.
LEMMA Retries ==
  ASSUME NEW b, NEW c, NEW t, TaskOK(t, b), MayRetry(t)
  PROVE  TaskOK(RetryUpload(t), c)
<1>0. /\ t \in Task
      /\ t.tries \in 1..(MaxAttempts + Cardinality(Id)) /\ t.tries < MaxAttempts
      /\ Cardinality(Id) \in Nat /\ MaxAttempts \in Nat
  BY CredsAssumption, FS_CardinalityType DEF Task, MayRetry, TaskOK
<1>1. t.tries + 1 \in 1..(MaxAttempts + Cardinality(Id)) /\ t.tries + 1 <= MaxAttempts
  BY <1>0
<1> DEFINE r == [t EXCEPT !.tries = @ + 1, !.next = 1, !.wait = TRUE]
<1>2. r \in Task /\ r.next = 1 /\ r.tries = t.tries + 1
  BY <1>0, <1>1, Ones DEF Task
<1>3. RetryUpload(t) = r
  BY DEF RetryUpload
<1> HIDE DEF r
<1>4. Orderly(r)
  BY <1>1, <1>2 DEF Orderly
<1> QED BY <1>2, <1>3, <1>4, Unwritten

\* The wait before a retry ends, or a push begins on an adopted sandbox.
LEMMA Resumes ==
  ASSUME NEW b, NEW t, TaskOK(t, b)
  PROVE  /\ t.wait => TaskOK([t EXCEPT !.wait = FALSE], b)
         /\ t.pc = "adopt" => TaskOK([t EXCEPT !.pc = "restore"], b)
<1>1. t \in Task /\ Orderly(t)
  BY DEF TaskOK
<1>2. ASSUME t.wait PROVE TaskOK([t EXCEPT !.wait = FALSE], b)
  <2> DEFINE r == [t EXCEPT !.wait = FALSE]
  <2>1. r \in Task /\ r.next = t.next /\ r.pc = t.pc /\ r.tries = t.tries
    BY <1>1 DEF Task
  <2>2. t.next = 1
    BY <1>1, <1>2 DEF Orderly
  <2> HIDE DEF r
  <2>3. Orderly(r)
    BY <1>1, <2>1, <2>2 DEF Orderly
  <2>4. TaskOK(r, b)
    BY <2>1, <2>2, <2>3, Unwritten
  <2> QED BY <2>4 DEF r
<1>3. ASSUME t.pc = "adopt" PROVE TaskOK([t EXCEPT !.pc = "restore"], b)
  <2> DEFINE r == [t EXCEPT !.pc = "restore"]
  <2>1. r \in Task /\ r.next = t.next /\ r.pc = "restore" /\ r.tries = t.tries
    BY <1>1 DEF Task
  <2>2. t.next = 1 /\ t.tries <= MaxAttempts
    BY <1>1, <1>3 DEF Orderly
  <2> HIDE DEF r
  <2>3. Orderly(r)
    BY <2>1, <2>2 DEF Orderly
  <2>4. TaskOK(r, b)
    BY <2>1, <2>2, <2>3, Unwritten
  <2> QED BY <2>4 DEF r
<1> QED BY <1>2, <1>3

\* The files are pushed in their order, the sentinel last.
LEMMA InOrder ==
  Len(UploadOrder) = Sentinel /\ \A f \in 1..Sentinel : UploadOrder[f] = f
<1>1. Sentinel \in Nat
  BY CredsAssumption DEF Sentinel
<1>2. UploadOrder \in Seq(Nat) /\ Len(UploadOrder) = Sentinel
  BY <1>1 DEF UploadOrder
<1> QED BY <1>1, <1>2 DEF UploadOrder

-----------------------------------------------------------------------------
(* Containers                                                               *)

\* No container that is up has just come up or lost a file.
Keeps(b, c) ==
  \A i \in Id : c[i].up => /\ b[i].up /\ c[i].torn = b[i].torn
                           /\ \A f \in 1..Sentinel : f \in b[i].files => f \in c[i].files

\* Then no push loses what it has written.
LEMMA TaskStays ==
  ASSUME NEW b, NEW c, Keeps(b, c), NEW t, TaskOK(t, b)
  PROVE  TaskOK(t, c)
<1>1. t \in Task /\ Orderly(t) /\ Written(t, b)
  BY DEF TaskOK
<1>2. SUFFICES ASSUME t.pc \in Pushes, t.id \in Id, c[t.id].up, ~c[t.id].torn,
                      NEW f \in 1..(t.next - 1)
               PROVE  f \in c[t.id].files
  BY <1>1 DEF TaskOK, Written
<1>3. b[t.id].up /\ ~b[t.id].torn /\ f \in 1..Sentinel
  <2>1. b[t.id].up /\ ~b[t.id].torn
    BY <1>2 DEF Keeps
  <2>2. t.next \in 1..Sentinel /\ Sentinel \in Nat
    BY <1>1, CredsAssumption DEF Task, Sentinel
  <2> QED BY <1>2, <2>1, <2>2
<1>4. f \in b[t.id].files
  BY <1>1, <1>2, <1>3 DEF Written
<1> QED BY <1>2, <1>3, <1>4 DEF Keeps

LEMMA SweepsStay ==
  ASSUME NEW b, NEW c, Keeps(b, c), NEW s, SweepsOK(s, b)
  PROVE  SweepsOK(s, c)
BY TaskStays DEF SweepsOK

\* A new container is empty and down.
LEMMA FreshContainer ==
  ASSUME NEW b, Boxes(b), NEW i \in Id, NEW s \in States
  PROVE  Boxes([b EXCEPT ![i] = Fresh(s)]) /\ Keeps(b, [b EXCEPT ![i] = Fresh(s)])
<1> DEFINE c == [b EXCEPT ![i] = Fresh(s)]
<1>1. /\ Fresh(s) \in Box /\ Fresh(s).files = {}
      /\ ~Fresh(s).up /\ ~Fresh(s).engine /\ ~Fresh(s).torn
  BY DEF Fresh, Box
<1>2. c \in [Id -> Box] /\ c[i] = Fresh(s) /\ \A j \in Id : j # i => c[j] = b[j]
  BY <1>1 DEF Boxes
<1> HIDE DEF c
<1>3. Boxes(c)
  BY <1>1, <1>2 DEF Boxes, Complete
<1>4. Keeps(b, c)
  BY <1>1, <1>2 DEF Keeps
<1> QED BY <1>3, <1>4 DEF c

Filled(b, i, F) == [b EXCEPT ![i].files = F]

MayFill(b, i, F) ==
  /\ F \in SUBSET (0..Sentinel)
  /\ \A f \in 1..Sentinel : f \in b[i].files => f \in F
  /\ ~b[i].torn /\ Sentinel \in F => Sentinel \in b[i].files \/ 1..Files \subseteq F

\* The files of a container change: its credentials stay, the sentinel comes last.
LEMMA FilesChange ==
  ASSUME NEW b, Boxes(b), NEW i \in Id, NEW F, MayFill(b, i, F), NEW c, c = Filled(b, i, F)
  PROVE  Boxes(c) /\ Keeps(b, c) /\ c[i].files = F
<1> DEFINE d == [b[i] EXCEPT !.files = F]
<1>1. b[i] \in Box /\ c = [b EXCEPT ![i] = d] /\ b \in [Id -> Box]
  BY DEF Boxes, Filled
<1>2. d \in Box /\ d.files = F
  BY <1>1 DEF Box, MayFill
<1>3. d.up = b[i].up /\ d.engine = b[i].engine /\ d.torn = b[i].torn
  BY <1>1 DEF Box
<1> HIDE DEF d
<1>4. c \in [Id -> Box] /\ c[i] = d /\ \A j \in Id : j # i => c[j] = b[j]
  BY <1>1, <1>2
<1>5. 1..Files \subseteq 1..Sentinel
  BY CredsAssumption DEF Sentinel
<1>6. Complete(d)
  <2>1. Complete(b[i])
    BY DEF Boxes
  <2>2. 1..Files \subseteq b[i].files => 1..Files \subseteq F
    BY <1>5 DEF MayFill
  <2> QED BY <1>2, <1>3, <2>1, <2>2 DEF Complete, MayFill
<1>7. Boxes(c)
  BY <1>4, <1>6 DEF Boxes
<1>8. Keeps(b, c)
  BY <1>2, <1>3, <1>4 DEF Keeps, MayFill
<1> QED BY <1>2, <1>4, <1>7, <1>8

\* A push that finds its container up writes its next file, and goes on.
LEMMA Pushed ==
  ASSUME NEW b, Boxes(b), NEW t, TaskOK(t, b), t.pc \in Pushes, ~t.wait, t.id \in Id, b[t.id].up,
         NEW c, c = Filled(b, t.id, b[t.id].files \cup {t.next})
  PROVE  /\ Boxes(c) /\ Keeps(b, c)
         /\ t.next # Sentinel => TaskOK([t EXCEPT !.next = @ + 1], c)
<1> DEFINE F == b[t.id].files \cup {t.next}
           r == [t EXCEPT !.next = @ + 1]
<1>1. /\ t \in Task /\ Orderly(t) /\ t.next \in 1..Sentinel /\ Sentinel = Files + 1
      /\ Files \in Nat /\ b[t.id].files \subseteq 0..Sentinel /\ b \in [Id -> Box]
  BY CredsAssumption DEF TaskOK, Task, Sentinel, Boxes, Box
<1>2. ~b[t.id].torn => 1..(t.next - 1) \subseteq b[t.id].files
  BY DEF TaskOK, Written
<1>3. c = Filled(b, t.id, F)
  OBVIOUS
<1>4. F \in SUBSET (0..Sentinel)
  BY <1>1
<1>5. ~b[t.id].torn /\ Sentinel \in F => Sentinel \in b[t.id].files \/ 1..Files \subseteq F
  BY <1>1, <1>2
<1>6. ~b[t.id].torn => 1..t.next \subseteq F
  BY <1>1, <1>2
<1>7. MayFill(b, t.id, F)
  BY <1>4, <1>5 DEF MayFill
<1> HIDE DEF F
<1>8. Boxes(c) /\ Keeps(b, c) /\ c[t.id].files = F
  BY <1>3, <1>7, FilesChange
<1>9. ASSUME t.next # Sentinel PROVE TaskOK(r, c)
  <2>1. t.next + 1 \in 1..Sentinel
    BY <1>1, <1>9
  <2>2. r \in Task /\ r.next = t.next + 1 /\ r.id = t.id /\ r.pc = t.pc /\ r.tries = t.tries
    BY <1>1, <2>1 DEF Task
  <2>3. ~r.wait
    BY <1>1 DEF Task
  <2> HIDE DEF r
  <2>4. Orderly(r)
    BY <1>1, <2>2, <2>3 DEF Orderly, Pushes
  <2>5. c[r.id].up /\ ~c[r.id].torn => 1..(r.next - 1) \subseteq c[r.id].files
    <3>1. c[r.id].up => c[r.id].torn = b[t.id].torn
      BY <1>8, <2>2 DEF Keeps
    <3> QED BY <1>1, <1>6, <1>8, <2>2, <3>1
  <2> QED BY <2>2, <2>4, <2>5 DEF TaskOK, Written
<1> QED BY <1>8, <1>9 DEF r

Booted(b, i, torn) == [b EXCEPT ![i].up = TRUE, ![i].torn = torn]

\* A container comes up, and it is known whether a push is under way on it.
LEMMA ComesUp ==
  ASSUME NEW b, Boxes(b), NEW i \in Id, ~b[i].up, NEW v \in BOOLEAN, NEW c, c = Booted(b, i, v)
  PROVE  Boxes(c) /\ c[i].torn = v /\ \A j \in Id : j # i => c[j] = b[j]
<1> DEFINE d == [b[i] EXCEPT !.up = TRUE, !.torn = v]
<1>1. b[i] \in Box /\ c = [b EXCEPT ![i] = d] /\ b \in [Id -> Box]
  BY DEF Boxes, Booted
<1>2. d \in Box /\ d.files = b[i].files /\ d.engine = b[i].engine /\ d.up /\ d.torn = v
  BY <1>1 DEF Box
<1> HIDE DEF d
<1>3. c \in [Id -> Box] /\ c[i] = d /\ \A j \in Id : j # i => c[j] = b[j]
  BY <1>1, <1>2
<1>4. Complete(d)
  BY <1>2 DEF Boxes, Complete
<1> QED BY <1>2, <1>3, <1>4 DEF Boxes

LEMMA TaskUnharmed ==
  ASSUME NEW b, NEW c, NEW i \in Id, \A j \in Id : j # i => c[j] = b[j],
         NEW t, TaskOK(t, b), t.pc \in Pushes /\ t.id = i => t.next = 1 \/ c[i].torn
  PROVE  TaskOK(t, c)
<1>1. t \in Task /\ Orderly(t) /\ Written(t, b)
  BY DEF TaskOK
<1>2. CASE t.id = i /\ t.pc \in Pushes /\ t.next = 1
  BY <1>1, <1>2, Unwritten
<1>3. CASE ~(t.id = i /\ t.pc \in Pushes) \/ c[i].torn
  <2>1. Written(t, c)
    BY <1>1, <1>3 DEF Written
  <2> QED BY <1>1, <2>1 DEF TaskOK
<1> QED BY <1>2, <1>3

\* The engine starts behind the sentinel.
LEMMA EngineStarts ==
  ASSUME NEW b, Boxes(b), NEW i \in Id, Sentinel \in b[i].files,
         NEW c, c = [b EXCEPT ![i].engine = TRUE]
  PROVE  Boxes(c) /\ Keeps(b, c)
<1> DEFINE d == [b[i] EXCEPT !.engine = TRUE]
<1>1. b[i] \in Box /\ c = [b EXCEPT ![i] = d] /\ b \in [Id -> Box]
  BY DEF Boxes
<1>2. d \in Box /\ d.files = b[i].files /\ d.up = b[i].up /\ d.torn = b[i].torn
  BY <1>1 DEF Box
<1> HIDE DEF d
<1>3. c \in [Id -> Box] /\ c[i] = d /\ \A j \in Id : j # i => c[j] = b[j]
  BY <1>1, <1>2
<1>4. Complete(d)
  BY <1>2 DEF Boxes, Complete
<1>5. Keeps(b, c)
  BY <1>2, <1>3 DEF Keeps
<1> QED BY <1>3, <1>4, <1>5 DEF Boxes

-----------------------------------------------------------------------------
(* The steps                                                                *)

LEMMA Moves ==
  ASSUME NEW s, NEW b, SweepsOK(s, b), NEW w \in Sweeps, NEW t, TaskOK(t, b),
         w = "watch" => t.pc \notin Pushes
  PROVE  SweepsOK([s EXCEPT ![w] = t], b)
<1> DEFINE r == [s EXCEPT ![w] = t]
<1>1. s \in [Sweeps -> Task] /\ t \in Task
  BY DEF SweepsOK, TaskOK
<1>2. r \in [Sweeps -> Task] /\ r[w] = t /\ \A v \in Sweeps : v # w => r[v] = s[v]
  BY <1>1
<1> HIDE DEF r
<1>3. r["watch"].pc \notin Pushes
  BY <1>2 DEF SweepsOK, Sweeps
<1>4. \A v \in Sweeps : TaskOK(r[v], b)
  BY <1>2 DEF SweepsOK
<1>5. SweepsOK(r, b)
  BY <1>2, <1>3, <1>4 DEF SweepsOK
<1> QED BY <1>5 DEF r

\* One more fault is within the bound.
LEMMA FaultCounts ==
  ASSUME Flags, Fault
  PROVE  faults' \in 0..MaxFaults
BY CredsAssumption DEF Flags, Fault

LEMMA ReachableIsIn ==
  ASSUME Fleet(fleet), NEW i, Running(i)
  PROVE  i \in Id
BY DEF Running, Range, Fleet

\* What has moved nothing but one task, or a flag, is in order.
LEMMA RecMoves ==
  ASSUME IInv, TaskOK(rec', box), UNCHANGED <<fleet, box, sweep>>, Flags'
  PROVE  IInv'
BY DEF IInv

LEMMA SweepMoves ==
  ASSUME IInv, SweepsOK(sweep', box), UNCHANGED <<box, rec>>, Fleet(fleet'), Flags'
  PROVE  IInv'
BY DEF IInv

LEMMA BoxMoves ==
  ASSUME IInv, Boxes(box'), Keeps(box, box'), UNCHANGED <<fleet, rec, sweep>>, Flags'
  PROVE  IInv'
BY TaskStays, SweepsStay DEF IInv

LEMMA ObserveStep == IInv /\ Observe => IInv'
<1> SUFFICES ASSUME IInv, Observe PROVE IInv'
  OBVIOUS
<1>0. Flags' /\ UNCHANGED <<fleet, box, sweep>>
  BY DEF IInv, Observe, Flags
<1>1. TaskOK(rec', box)
  <2>1. /\ "ensure" \in Pcs /\ "stop" \in Pcs /\ "probe" \in Pcs
    BY DEF Pcs
  <2>2. Views # {} => Cardinality(Views) \in 1..(MaxAttempts + Cardinality(Id))
    <3>1. Cardinality(Id) \in Nat /\ MaxAttempts \in Nat
      BY CredsAssumption, FS_CardinalityType
    <3> QED BY Listed, <3>1 DEF IInv
  <2>3. \/ rec' = Idle \/ \E p \in Pcs : rec' = [Idle EXCEPT !.pc = p]
        \/ Views # {} /\ rec' = [Idle EXCEPT !.pc = "stop", !.tries = Cardinality(Views)]
    BY <2>1 DEF Observe, Become
  <2> QED BY <2>2, <2>3, BeginsIdle
<1> QED BY <1>0, <1>1, RecMoves

LEMMA ReconcilerMoves ==
  ASSUME IInv, Probe \/ Ensure \/ Adopt \/ LoseRollback
  PROVE  IInv'
<1>0. UNCHANGED <<fleet, box, sweep>>
  BY DEF Probe, Ensure, Adopt, LoseRollback
<1>1. Flags'
  <2>1. LoseRollback => Fault
    BY DEF LoseRollback
  <2> QED BY <2>1, FaultCounts DEF IInv, Flags, Probe, Ensure, Adopt, LoseRollback, StayWith
<1>2. "ensure" \in Pcs /\ "create" \in Pcs /\ "adopt" \in Pcs
  BY DEF Pcs
<1>3. TaskOK(rec', box)
  <2>1. CASE Probe
    <3>1. rec' = Idle \/ rec' = [Idle EXCEPT !.pc = "ensure"]
      BY <2>1 DEF Probe, Become
    <3> QED BY <1>2, <3>1, BeginsIdle
  <2>2. CASE Ensure
    <3>1. rec' = [Idle EXCEPT !.pc = "create"] \/ rec' = [Idle EXCEPT !.pc = "adopt", !.id = ResolveOne]
      BY <2>2 DEF Ensure, Become
    <3>2. ResolveOne \in Id \cup {Nobody}
      BY Listed DEF IInv
    <3>3. CASE rec' = [Idle EXCEPT !.pc = "create"]
      BY <1>2, <3>3, BeginsIdle
    <3>4. CASE rec' = [Idle EXCEPT !.pc = "adopt", !.id = ResolveOne]
      <4>1. TaskOK([Idle EXCEPT !.pc = "adopt", !.id = ResolveOne], box)
        BY <1>2, <3>2, BeginsIdle
      <4> QED BY <3>4, <4>1
    <3> QED BY <3>1, <3>3, <3>4
  <2>3. CASE Adopt
    <3>1. rec.pc = "adopt" /\ (rec' = Idle \/ rec' = [rec EXCEPT !.pc = "restore"])
      BY <2>3 DEF Adopt, Become
    <3>2. TaskOK(rec, box)
      BY DEF IInv
    <3>3. TaskOK([rec EXCEPT !.pc = "restore"], box)
      BY <3>1, <3>2, Resumes
    <3>4. TaskOK(Idle, box)
      BY BeginsIdle
    <3> QED BY <3>1, <3>3, <3>4
  <2>4. CASE LoseRollback
    BY <2>4, BeginsIdle DEF LoseRollback, Become
  <2> QED BY <2>1, <2>2, <2>3, <2>4
<1> QED BY <1>0, <1>1, <1>3, RecMoves

LEMMA CreateStep ==
  ASSUME IInv, NEW lost \in BOOLEAN, Create(lost)
  PROVE  IInv'
<1> DEFINE i == Min(Free)
<1>1. i \in Free
  <2>1. Free \subseteq Nat /\ Free # {}
    BY CredsAssumption DEF Free, Create
  <2> QED BY <2>1, LeastIsIn
<1>2. /\ fleet' = Append(fleet, i) /\ sweep' = sweep
      /\ box' = [box EXCEPT ![i] = Fresh(IF lost THEN "late" ELSE "running")]
      /\ rec' = IF lost THEN Idle ELSE [Idle EXCEPT !.pc = "upload", !.id = i]
  BY DEF Create, Become, Min
<1> HIDE DEF i
<1>3. i \in Id /\ i \notin Range(fleet)
  BY <1>1 DEF Free
<1>4. Fleet(fleet')
  BY <1>2, <1>3, AppendKeeps DEF IInv
<1>5. Boxes(box') /\ Keeps(box, box')
  BY <1>2, <1>3, FreshContainer DEF IInv, States
<1>6. TaskOK(rec', box')
  BY <1>2, <1>3, BeginsIdle DEF Pcs
<1>7. Flags'
  <2>1. lost => Fault
    BY DEF Create
  <2> QED BY <2>1, FaultCounts DEF IInv, Flags, Create, Quiet
<1>8. SweepsOK(sweep', box')
  BY <1>2, <1>5, SweepsStay DEF IInv
<1> QED BY <1>4, <1>5, <1>6, <1>7, <1>8 DEF IInv

LEMMA WriteFills ==
  ASSUME NEW i, NEW file, Write(i, file)
  PROVE  box' = Filled(box, i, box[i].files \cup {file})
BY DEF Write, Filled

LEMMA UploadStep == IInv /\ Upload => IInv'
<1> SUFFICES ASSUME IInv, Upload PROVE IInv'
  OBVIOUS
<1>0. /\ sweep' = sweep /\ TaskOK(rec, box) /\ rec \in Task /\ Boxes(box) /\ Fleet(fleet)
      /\ ~rec.wait /\ rec.pc \in {"upload", "restore"}
  BY DEF IInv, Upload, TaskOK
<1>1. Flags'
  BY DEF IInv, Flags, Upload, StayWith
<1>2. CASE /\ Reachable(rec.id)
           /\ Write(rec.id, UploadOrder[rec.next])
           /\ rec' = Idle \/ (rec' = [rec EXCEPT !.next = @ + 1] /\ rec.next # Sentinel)
           /\ fleet' = fleet
  <2>1. rec.id \in Id /\ box[rec.id].up /\ rec.next \in 1..Sentinel
    BY <1>0, <1>2, ReachableIsIn DEF Reachable, Task
  <2>2. box' = Filled(box, rec.id, box[rec.id].files \cup {rec.next})
    BY <1>2, <2>1, InOrder, WriteFills
  <2>3. /\ Boxes(box') /\ Keeps(box, box')
        /\ rec.next # Sentinel => TaskOK([rec EXCEPT !.next = @ + 1], box')
    BY <1>0, <2>1, <2>2, Pushed DEF Pushes
  <2>4. TaskOK(rec', box')
    BY <1>2, <2>3, BeginsIdle
  <2>5. SweepsOK(sweep', box')
    BY <1>0, <2>3, SweepsStay DEF IInv
  <2> QED BY <1>0, <1>1, <1>2, <2>3, <2>4, <2>5 DEF IInv
<1>3. CASE MayRetry(rec) /\ rec' = RetryUpload(rec) /\ UNCHANGED <<fleet, box>>
  <2>1. TaskOK(RetryUpload(rec), box)
    BY <1>0, <1>3, Retries
  <2> QED BY <1>0, <1>1, <1>3, <2>1, RecMoves
<1>4. CASE rec' = Idle /\ (fleet' = fleet \/ fleet' = Delete(rec.id)) /\ box' = box
  <2>1. Fleet(fleet')
    BY <1>0, <1>4, DeleteKeeps
  <2> QED BY <1>0, <1>1, <1>4, <2>1, BeginsIdle DEF IInv
<1>5. CASE /\ Reachable(rec.id)
           /\ Write(rec.id, UploadOrder[rec.next])
           /\ IF rec.next = Len(UploadOrder) THEN cache' = TRUE /\ Become(Idle)
              ELSE StayWith(cache) /\ Become([rec EXCEPT !.next = @ + 1])
           /\ StayWith(fleet)
  BY <1>2, <1>5, InOrder DEF Become, StayWith
<1>6. CASE /\ Running(rec.id) /\ ~box[rec.id].up /\ MayRetry(rec)
           /\ Become(RetryUpload(rec))
           /\ UNCHANGED <<fleet, box, cache>>
  BY <1>3, <1>6 DEF Become
<1>7. CASE /\ Become(Idle)
           /\ fleet' = IF rec.pc = "upload" THEN Delete(rec.id) ELSE fleet
           /\ UNCHANGED <<box, cache>>
  BY <1>4, <1>7 DEF Become
<1> QED BY <1>5, <1>6, <1>7 DEF Upload

LEMMA StopStep ==
  ASSUME IInv, NEW lost \in BOOLEAN, Stop(lost)
  PROVE  IInv'
<1>0. /\ sweep' = sweep /\ box' = box /\ TaskOK(rec, box) /\ rec \in Task /\ Fleet(fleet)
      /\ Orderly(rec) /\ rec.pc = "stop"
  BY DEF IInv, Stop, TaskOK
<1>1. Flags'
  <2>1. lost => Fault
    BY DEF Stop
  <2>2. shield' \in BOOLEAN
    BY DEF Stop
  <2> QED BY <2>1, <2>2, FaultCounts DEF IInv, Flags, Stop, Quiet
<1>2. Fleet(fleet')
  BY <1>0, DeleteKeeps DEF Stop
<1>3. TaskOK(rec', box)
  <2>1. rec' = Idle \/ (rec' = [rec EXCEPT !.tries = @ - 1] /\ rec.tries > 1)
    BY DEF Stop, Become
  <2>2. ASSUME rec.tries > 1 PROVE TaskOK([rec EXCEPT !.tries = @ - 1], box)
    <3> DEFINE r == [rec EXCEPT !.tries = @ - 1]
    <3>1. rec.tries \in 1..(MaxAttempts + Cardinality(Id)) /\ MaxAttempts \in Nat /\ Cardinality(Id) \in Nat
      BY <1>0, CredsAssumption, FS_CardinalityType DEF Task
    <3>2. rec.tries - 1 \in 1..(MaxAttempts + Cardinality(Id))
      BY <2>2, <3>1
    <3>3. r \in Task /\ r.next = rec.next /\ r.pc = "stop"
      BY <1>0, <3>2 DEF Task
    <3>4. r.wait => rec.wait
      BY <1>0 DEF Task
    <3> HIDE DEF r
    <3>5. Orderly(r) /\ Written(r, box)
      BY <1>0, <3>3, <3>4 DEF Orderly, Written, Pushes
    <3>6. TaskOK(r, box)
      BY <3>3, <3>5 DEF TaskOK
    <3> QED BY <3>6 DEF r
  <2>3. TaskOK(Idle, box)
    BY BeginsIdle
  <2> QED BY <2>1, <2>2, <2>3
<1> QED BY <1>0, <1>1, <1>2, <1>3 DEF IInv

LEMMA SweepSteps ==
  ASSUME IInv, NEW w \in Sweeps, ListFleet(w) \/ Reap(w)
  PROVE  IInv'
<1>0. UNCHANGED <<box, rec>> /\ SweepsOK(sweep, box) /\ Fleet(fleet)
  BY DEF IInv, ListFleet, Reap
<1>1. Flags'
  BY DEF IInv, Flags, ListFleet, Reap
<1>2. Fleet(fleet')
  BY <1>0, DeleteKeeps DEF ListFleet, Reap
<1>3. ASSUME NEW t, TaskOK(t, box), t.pc \notin Pushes, Move(w, t)
      PROVE  IInv'
  <2>1. SweepsOK([sweep EXCEPT ![w] = t], box)
    BY <1>0, <1>3, Moves
  <2>2. sweep' = [sweep EXCEPT ![w] = t]
    BY <1>3 DEF Move
  <2> QED BY <1>0, <1>1, <1>2, <2>1, <2>2, SweepMoves
<1>4. CASE Move(w, [Idle EXCEPT !.pc = "session"])
  <2> DEFINE t == [Idle EXCEPT !.pc = "session"]
  <2>1. TaskOK(t, box)
    BY BeginsIdle DEF Pcs
  <2>2. t.pc = "session"
    BY DEF Idle
  <2> HIDE DEF t
  <2> QED BY <1>3, <1>4, <2>1, <2>2 DEF t, Pushes
<1>5. CASE /\ Move(w, [Idle EXCEPT !.pc = "reap", !.id = fleet[Min(Duplicates)]])
           /\ Views # {} /\ Duplicates # {}
  <2> DEFINE t == [Idle EXCEPT !.pc = "reap", !.id = fleet[Min(Duplicates)]]
  <2>1. fleet[Min(Duplicates)] \in Id
    BY <1>0, <1>5, Listed
  <2>2. TaskOK(t, box)
    BY <2>1, BeginsIdle DEF Pcs
  <2>3. t.pc = "reap"
    BY DEF Idle
  <2> HIDE DEF t
  <2> QED BY <1>3, <1>5, <2>2, <2>3 DEF t, Pushes
<1> QED BY <1>4, <1>5 DEF ListFleet, Reap

\* A sweep goes on about a fleet and containers that stay.
LEMMA TurnsTo ==
  ASSUME IInv, NEW w \in Sweeps, NEW t, TaskOK(t, box), w = "watch" => t.pc \notin Pushes,
         Move(w, t), UNCHANGED <<fleet, box, rec>>, Flags'
  PROVE  IInv'
<1>1. SweepsOK([sweep EXCEPT ![w] = t], box)
  BY Moves DEF IInv
<1>2. sweep' = [sweep EXCEPT ![w] = t]
  BY DEF Move
<1> QED BY <1>1, <1>2, SweepMoves DEF IInv

\* The rotation turns to a new task while it changes a container.
LEMMA RotationWrites ==
  ASSUME IInv, Boxes(box'), Keeps(box, box'), NEW t, TaskOK(t, box'), Move("rotate", t),
         UNCHANGED <<fleet, rec>>, Flags'
  PROVE  IInv'
<1>1. SweepsOK(sweep, box') /\ TaskOK(rec', box')
  BY SweepsStay, TaskStays DEF IInv
<1>2. SweepsOK([sweep EXCEPT !["rotate"] = t], box')
  BY <1>1, Moves DEF Sweeps
<1>3. SweepsOK(sweep', box')
  BY <1>2 DEF Move
<1> QED BY <1>1, <1>3 DEF IInv

LEMMA WatchStep == IInv /\ Watch => IInv'
<1> SUFFICES ASSUME IInv, Watch PROVE IInv'
  OBVIOUS
<1>1. Flags'
  <2>1. queued' \in BOOLEAN
    BY DEF Watch, IInv, Flags
  <2> QED BY <2>1 DEF IInv, Flags, Watch
<1>2. TaskOK(Idle, box) /\ Idle.pc \notin Pushes
  BY BeginsIdle DEF Idle, Pushes
<1>3. Move("watch", Idle) /\ UNCHANGED <<fleet, box, rec>>
  BY DEF Watch
<1> QED BY <1>1, <1>2, <1>3, TurnsTo DEF Sweeps

LEMMA DeliverStep == IInv /\ Deliver => IInv'
<1> SUFFICES ASSUME IInv, Deliver PROVE IInv'
  OBVIOUS
<1>1. Flags' /\ UNCHANGED <<fleet, box, rec>>
  BY DEF Deliver, IInv, Flags, StayWith
<1>2. ASSUME NEW t, TaskOK(t, box), Move("rotate", t)
      PROVE  IInv'
  BY <1>1, <1>2, TurnsTo DEF Sweeps
<1>3. CASE Move("rotate", Idle)
  BY <1>2, <1>3, BeginsIdle
<1>4. ResolveOne \in Id \cup {Nobody}
  BY Listed DEF IInv
<1>5. CASE Move("rotate", [Idle EXCEPT !.pc = "replace", !.id = ResolveOne])
  <2> DEFINE t == [Idle EXCEPT !.pc = "replace", !.id = ResolveOne]
  <2>1. TaskOK(t, box)
    BY <1>4, BeginsIdle DEF Pcs
  <2> HIDE DEF t
  <2> QED BY <1>2, <1>5, <2>1 DEF t
<1>6. CASE Move("rotate", [Idle EXCEPT !.pc = "repush", !.id = ResolveOne])
  <2> DEFINE t == [Idle EXCEPT !.pc = "repush", !.id = ResolveOne]
  <2>1. TaskOK(t, box)
    BY <1>4, BeginsIdle DEF Pcs
  <2> HIDE DEF t
  <2> QED BY <1>2, <1>6, <2>1 DEF t
<1> QED BY <1>3, <1>5, <1>6 DEF Deliver

LEMMA ReplaceStep == IInv /\ Replace => IInv'
<1> SUFFICES ASSUME IInv, Replace PROVE IInv'
  OBVIOUS
<1> DEFINE t == sweep["rotate"]
<1>0. /\ TaskOK(t, box) /\ t \in Task /\ Orderly(t) /\ Boxes(box) /\ Fleet(fleet)
      /\ UNCHANGED <<fleet, rec>>
  BY DEF IInv, SweepsOK, Sweeps, TaskOK, Replace
<1>1. Flags'
  BY DEF Replace, IInv, Flags
<1>2. CASE Move("rotate", Idle) /\ StayWith(box)
  BY <1>0, <1>1, <1>2, BeginsIdle, TurnsTo DEF StayWith, Sweeps
<1>3. CASE /\ Reachable(t.id) /\ t.pc = "replace"
           /\ Write(t.id, Tmp) /\ Move("rotate", [t EXCEPT !.pc = "rename"])
  <2> DEFINE F == box[t.id].files \cup {Tmp}
             r == [t EXCEPT !.pc = "rename"]
  <2>1. t.id \in Id /\ box[t.id].files \subseteq 0..Sentinel /\ Sentinel \in Nat \ {0}
    BY <1>0, <1>3, ReachableIsIn, CredsAssumption DEF Reachable, Boxes, Box, Sentinel
  <2>2. box' = Filled(box, t.id, F)
    BY <1>3, WriteFills
  <2>3. MayFill(box, t.id, F)
    BY <2>1 DEF MayFill, Tmp
  <2>4. r \in Task /\ r.pc = "rename" /\ r.next = t.next /\ r.wait = t.wait
    BY <1>0 DEF Task
  <2> HIDE DEF F, r, t
  <2>5. Boxes(box') /\ Keeps(box, box')
    BY <1>0, <2>1, <2>2, <2>3, FilesChange
  <2>6. TaskOK(r, box')
    BY <1>0, <2>4 DEF TaskOK, Orderly, Written, Pushes
  <2> QED BY <1>0, <1>1, <1>3, <2>5, <2>6, RotationWrites DEF r
<1>4. CASE /\ Reachable(t.id)
           /\ box' = [box EXCEPT ![t.id].files = (@ \ {Tmp}) \cup {Token}]
           /\ Move("rotate", Idle)
  <2> DEFINE F == (box[t.id].files \ {Tmp}) \cup {Token}
  <2>1. /\ t.id \in Id /\ box[t.id].files \subseteq 0..Sentinel
        /\ Sentinel = Files + 1 /\ Files \in Nat
    BY <1>0, <1>4, ReachableIsIn, CredsAssumption DEF Reachable, Boxes, Box, Sentinel
  <2>2. box' = Filled(box, t.id, F)
    BY <1>4 DEF Filled
  <2>3. Sentinel \in F => Sentinel \in box[t.id].files \/ 1..Files \subseteq F
    BY <2>1 DEF Token
  <2>4. MayFill(box, t.id, F)
    BY <2>1, <2>3 DEF MayFill, Tmp, Token
  <2> HIDE DEF F, t
  <2>5. Boxes(box') /\ Keeps(box, box')
    BY <1>0, <2>1, <2>2, <2>4, FilesChange
  <2> QED BY <1>0, <1>1, <1>4, <2>5, BeginsIdle, RotationWrites
<1> QED BY <1>2, <1>3, <1>4 DEF Replace

LEMMA RepushStep == IInv /\ Repush => IInv'
<1> SUFFICES ASSUME IInv, Repush PROVE IInv'
  OBVIOUS
<1> DEFINE t == sweep["rotate"]
<1>0. /\ TaskOK(t, box) /\ t \in Task /\ Boxes(box) /\ Fleet(fleet) /\ t.pc = "repush" /\ ~t.wait
      /\ UNCHANGED <<fleet, rec>>
  BY DEF IInv, SweepsOK, Sweeps, TaskOK, Repush
<1>1. Flags'
  BY DEF Repush, IInv, Flags, StayWith
<1>2. CASE Move("rotate", Idle) /\ StayWith(box)
  BY <1>0, <1>1, <1>2, BeginsIdle, TurnsTo DEF StayWith, Sweeps
<1>3. CASE MayRetry(t) /\ Move("rotate", RetryUpload(t)) /\ UNCHANGED <<box, cache>>
  <2> HIDE DEF t
  <2>1. TaskOK(RetryUpload(t), box)
    BY <1>0, <1>3, Retries
  <2> QED BY <1>0, <1>1, <1>3, <2>1, TurnsTo DEF Sweeps
<1>4. CASE /\ Reachable(t.id) /\ Write(t.id, UploadOrder[t.next])
           /\ IF t.next = Len(UploadOrder) THEN cache' = TRUE /\ Move("rotate", Idle)
              ELSE StayWith(cache) /\ Move("rotate", [t EXCEPT !.next = @ + 1])
  <2> DEFINE r == [t EXCEPT !.next = @ + 1]
  <2> HIDE DEF t, r
  <2>1. t.id \in Id /\ box[t.id].up /\ t.next \in 1..Sentinel
    BY <1>0, <1>4, ReachableIsIn DEF Reachable, Task
  <2>2. box' = Filled(box, t.id, box[t.id].files \cup {t.next})
    BY <1>4, <2>1, InOrder, WriteFills
  <2>3. /\ Boxes(box') /\ Keeps(box, box')
        /\ t.next # Sentinel => TaskOK(r, box')
    BY <1>0, <2>1, <2>2, Pushed DEF Pushes, r
  <2>4. CASE t.next = Sentinel
    BY <1>0, <1>1, <1>4, <2>3, <2>4, InOrder, BeginsIdle, RotationWrites
  <2>5. CASE t.next # Sentinel
    <3>1. Move("rotate", r)
      BY <1>4, <2>5, InOrder DEF r
    <3> QED BY <1>0, <1>1, <2>3, <2>5, <3>1, RotationWrites
  <2> QED BY <2>4, <2>5
<1> QED BY <1>2, <1>3, <1>4 DEF Repush

LEMMA BackoffStep == IInv /\ Backoff => IInv'
<1> SUFFICES ASSUME IInv, Backoff PROVE IInv'
  OBVIOUS
<1>0. /\ Flags' /\ UNCHANGED <<fleet, box>> /\ TaskOK(rec, box)
      /\ TaskOK(sweep["rotate"], box)
  BY DEF IInv, Backoff, Flags, SweepsOK, Sweeps
<1>1. CASE rec.wait /\ Become([rec EXCEPT !.wait = FALSE]) /\ StayWith(sweep)
  <2>1. TaskOK([rec EXCEPT !.wait = FALSE], box)
    BY <1>0, <1>1, Resumes
  <2> QED BY <1>0, <1>1, <2>1, RecMoves DEF Become, StayWith
<1>2. CASE /\ sweep["rotate"].wait /\ StayWith(rec)
           /\ Move("rotate", [sweep["rotate"] EXCEPT !.wait = FALSE])
  <2> DEFINE t == [sweep["rotate"] EXCEPT !.wait = FALSE]
  <2>1. TaskOK(t, box)
    BY <1>0, <1>2, Resumes
  <2> HIDE DEF t
  <2> QED BY <1>0, <1>2, <2>1, TurnsTo DEF StayWith, Sweeps, t
<1> QED BY <1>1, <1>2 DEF Backoff

-----------------------------------------------------------------------------
(* The environment                                                          *)

LEMMA StartExecdStep ==
  ASSUME IInv, NEW i \in Id, StartExecd(i)
  PROVE  IInv'
<1>0. UNCHANGED <<fleet, rec, sweep>> /\ Flags' /\ box' = Booted(box, i, Uploading(i)) /\ ~box[i].up
  BY DEF IInv, StartExecd, Flags, Booted
<1>1. Boxes(box') /\ (Uploading(i) => box'[i].torn) /\ \A j \in Id : j # i => box'[j] = box[j]
  <2>1. Uploading(i) \in BOOLEAN
    BY DEF Uploading
  <2>2. Boxes(box) /\ Boxes(box') /\ box'[i].torn = Uploading(i) /\ \A j \in Id : j # i => box'[j] = box[j]
    BY <1>0, <2>1, ComesUp DEF IInv
  <2> QED BY <2>2
<1>2. ASSUME NEW t, TaskOK(t, box),
             t.pc \in Pushes /\ t.id = i /\ t.next > 1 /\ ~t.wait => box'[i].torn
      PROVE  TaskOK(t, box')
  <2>1. t \in Task /\ Orderly(t) /\ t.next \in 1..Sentinel /\ Sentinel \in Nat
    BY <1>2, CredsAssumption DEF TaskOK, Task, Sentinel
  <2>2. t.pc \in Pushes /\ t.id = i => t.next = 1 \/ box'[i].torn
    BY <1>2, <2>1 DEF Orderly
  <2> QED BY <1>1, <1>2, <2>2, TaskUnharmed
<1>3. ASSUME NEW t \in {rec, sweep["rotate"]}
      PROVE  t.pc \in Pushes /\ t.id = i /\ t.next > 1 /\ ~t.wait => box'[i].torn
  BY <1>1 DEF Uploading, Pushes
<1>4. TaskOK(rec', box')
  BY <1>0, <1>2, <1>3 DEF IInv
<1>5. ASSUME NEW w \in Sweeps PROVE TaskOK(sweep[w], box')
  <2>1. CASE w = "rotate"
    BY <1>2, <1>3, <2>1 DEF IInv, SweepsOK
  <2>2. CASE w = "watch"
    BY <1>2, <2>2 DEF IInv, SweepsOK
  <2> QED BY <2>1, <2>2 DEF Sweeps
<1>6. SweepsOK(sweep', box')
  BY <1>0, <1>5 DEF IInv, SweepsOK
<1> QED BY <1>0, <1>1, <1>4, <1>6 DEF IInv

LEMMA ContainerSteps ==
  ASSUME IInv, NEW i \in Id, Gate(i) \/ GateTimeout(i) \/ Restart(i) \/ Materialize(i)
  PROVE  IInv'
<1>0. UNCHANGED <<fleet, rec, sweep>> /\ Boxes(box)
  BY DEF IInv, Gate, GateTimeout, Restart, Materialize
<1>1. Flags'
  <2>1. GateTimeout(i) \/ Restart(i) => Fault
    BY DEF GateTimeout, Restart
  <2> QED BY <2>1, FaultCounts DEF IInv, Flags, Gate, GateTimeout, Restart, Materialize
<1>2. Boxes(box') /\ Keeps(box, box')
  <2>1. CASE Gate(i)
    BY <1>0, <2>1, EngineStarts DEF Gate, Holds
  <2>2. CASE GateTimeout(i)
    BY <1>0, <2>2, FreshContainer DEF GateTimeout, States
  <2>3. CASE Restart(i) \/ Materialize(i)
    BY <1>0, <2>3, FreshContainer DEF Restart, Materialize, States
  <2> QED BY <2>1, <2>2, <2>3
<1> QED BY <1>0, <1>1, <1>2, BoxMoves

LEMMA AllIdle ==
  ASSUME NEW b
  PROVE  SweepsOK([w \in Sweeps |-> Idle], b)
<1>1. TaskOK(Idle, b) /\ Idle \in Task /\ Idle.pc \notin Pushes
  BY BeginsIdle DEF TaskOK, Idle, Pushes
<1> QED BY <1>1 DEF SweepsOK, Sweeps

LEMMA CrashStep == IInv /\ Crash => IInv'
<1> SUFFICES ASSUME IInv, Crash PROVE IInv'
  OBVIOUS
<1>1. Flags'
  BY FaultCounts DEF IInv, Crash, Flags
<1>2. TaskOK(rec', box') /\ SweepsOK(sweep', box')
  BY BeginsIdle, AllIdle DEF Crash, Become
<1> QED BY <1>1, <1>2 DEF IInv, Crash

LEMMA OutsideSteps ==
  ASSUME IInv,
         Resync \/ ExpireShield \/ (\E w \in {"pending", "idle", "closed"} : Change(w)) \/ UNCHANGED vars
  PROVE  IInv'
<1>0. UNCHANGED <<fleet, box, rec, sweep>>
  BY DEF Resync, ExpireShield, Change, vars
<1>1. Flags'
  <2>1. CASE Resync \/ ExpireShield \/ UNCHANGED vars
    BY <2>1 DEF IInv, Flags, Resync, ExpireShield, vars
  <2>2. ASSUME NEW w \in {"pending", "idle", "closed"}, Change(w) PROVE Flags'
    BY <2>2, CredsAssumption DEF IInv, Flags, Change
  <2> QED BY <2>1, <2>2
<1> QED BY <1>0, <1>1 DEF IInv

-----------------------------------------------------------------------------
(* The theorem                                                              *)

LEMMA InitOK == Init => IInv
<1> SUFFICES ASSUME Init PROVE IInv
  OBVIOUS
<1>1. Fleet(fleet)
  <2>1. fleet = <<>>
    BY DEF Init
  <2>2. <<>> \in Seq(Id) /\ DOMAIN <<>> = {}
    OBVIOUS
  <2>3. Fleet(<<>>)
    BY <2>2 DEF Fleet, IsInjective
  <2> QED BY <2>1, <2>3
<1>2. Flags
  <2>1. /\ cache = FALSE /\ queued = FALSE /\ shield = FALSE /\ want = "pending"
        /\ faults = 0 /\ changes = 0
    BY DEF Init
  <2>2. 0 \in 0..MaxFaults /\ 0 \in 0..MaxChanges
    BY CredsAssumption
  <2> QED BY <2>1, <2>2 DEF Flags
<1>3. Boxes(box)
  <2>1. Fresh("late") \in Box /\ Complete(Fresh("late"))
    BY DEF Fresh, Box, States, Complete
  <2> QED BY <2>1 DEF Init, Boxes
<1>4. TaskOK(rec, box) /\ SweepsOK(sweep, box)
  BY BeginsIdle, AllIdle DEF Init
<1> QED BY <1>1, <1>2, <1>3, <1>4 DEF IInv

LEMMA NextOK == IInv /\ [Next]_vars => IInv'
<1> SUFFICES ASSUME IInv, [Next]_vars PROVE IInv'
  OBVIOUS
<1>1. CASE Step
  BY <1>1, ObserveStep, ReconcilerMoves, CreateStep, UploadStep, StopStep, SweepSteps, WatchStep,
     DeliverStep, ReplaceStep, RepushStep, BackoffStep DEF Step
<1>2. CASE Environment
  BY <1>2, StartExecdStep, ContainerSteps, CrashStep, OutsideSteps DEF Environment
<1>3. CASE UNCHANGED vars
  BY <1>3, OutsideSteps
<1> QED BY <1>1, <1>2, <1>3 DEF Next

LEMMA IInvIsSafe == IInv => CredsSafe
<1> SUFFICES ASSUME IInv PROVE CredsSafe
  OBVIOUS
<1>1. fleet \in BoundedSeq(Id, Cardinality(Id)) /\ IsInjective(fleet)
  BY FleetIsBounded DEF IInv, Fleet
<1>2. box \in [Id -> [state : {"late", "running", "failed"}, files : SUBSET (0..Sentinel),
                      up : BOOLEAN, engine : BOOLEAN, torn : BOOLEAN]]
  BY DEF IInv, Boxes, Box, States
<1>3. rec \in Task /\ (rec.pc \in {"upload", "restore"} => rec.tries <= MaxAttempts)
  BY DEF IInv, TaskOK, Orderly
<1>4. sweep \in [Sweeps -> Task]
  BY DEF IInv, SweepsOK
<1>5. TypeOK
  BY <1>1, <1>2, <1>3, <1>4 DEF IInv, Flags, TypeOK
<1>6. StartedComplete
  BY DEF IInv, Boxes, Complete, StartedComplete
<1> QED BY <1>5, <1>6 DEF CredsSafe

\* The engine of a sandbox only ever starts with the whole credential set on
\* disk, whoever pushed it and whatever retries, crashes and restarts came
\* between, but in a container that came up between two requests of one push; and
\* no upload outlives its attempts (spawn.rs upload_creds, creds.rs
\* wait_for_creds_complete).
THEOREM CredsAreSafe == Spec => []CredsSafe
<1>1. Init => IInv
  BY InitOK
<1>2. IInv /\ [Next]_vars => IInv'
  BY NextOK
<1>3. IInv => CredsSafe
  BY IInvIsSafe
<1> QED BY <1>1, <1>2, <1>3, PTL DEF Spec

\* What stands behind it: a sentinel without the whole set is only ever the end of
\* a push during which its container was replaced (the order of build_bundle, and a
\* retry that starts over).
SentinelIsLast ==
  \A i \in Id : Holds(i, Sentinel) /\ ~box[i].torn => 1..Files \subseteq box[i].files

THEOREM TheSentinelIsLast == Spec => []SentinelIsLast
<1>1. Init => IInv
  BY InitOK
<1>2. IInv /\ [Next]_vars => IInv'
  BY NextOK
<1>3. IInv => SentinelIsLast
  BY DEF IInv, Boxes, Complete, SentinelIsLast, Holds
<1> QED BY <1>1, <1>2, <1>3, PTL DEF Spec


-----------------------------------------------------------------------------
(* The rotation of the tokens                                               *)

RoundsOf(set) ==
  [kind : {"none", "full", "repair"}, todo : SUBSET set, attempted : SUBSET set,
   retryable : SUBSET set]
Entries == [in : BOOLEAN, due : 0..R!Longest(Interval), delay : Initial..Interval]

RotationShape ==
  /\ role \in [Rotating -> {"well", "broken", "revoked"}] /\ age \in [Rotating -> 0..Ttl]
  /\ live \subseteq Rotating /\ reported \subseteq Rotating
  /\ next \in 0..R!Longest(Interval) /\ fleetDelay \in Initial..Interval
  /\ pending \in [Rotating -> Entries] /\ pass \in RoundsOf(Rotating)
  /\ pass.todo \subseteq pass.attempted /\ pass.retryable \subseteq pass.attempted
  /\ pass.todo \cap pass.retryable = {}
  /\ pass.kind = "none" => pass.attempted = {}
  /\ rFaults \in 0..MaxRotationFaults

\* The time to the next attempt to rotate a session's token, unless one fails.
Sooner(n, e) == IF e.in /\ e.due <= n THEN e.due ELSE n
Wait(p, kept, n, s) ==
  IF s \in p.todo THEN 0
  ELSE IF s \in p.retryable THEN R!Longest(kept[s].delay)
  ELSE Sooner(n, kept[s])

\* The delays of a session that is well have grown by its own failures alone, and
\* what they cost is spent.
DelaysEarned(delay, left) ==
  /\ fleetDelay <= delay[rFaults]
  /\ \A s \in Rotating : role[s] = "well" => pending[s].delay <= delay[rFaults]
  /\ \A s \in pass.retryable : role[s] = "well" =>
       /\ R!NextDelay(R!Kept[s].delay) <= delay[rFaults]
       /\ R!Longest(R!Kept[s].delay) + left[rFaults] <= left[0]
  /\ left[rFaults] <= left[0]
  /\ next + left[rFaults] <= Interval + left[0]

\* A token lives on until the next attempt and all failures still to come.
TokensLast(left) ==
  \A s \in live : role[s] = "well" =>
    age[s] + Wait(pass, R!Kept, next, s) + left[rFaults] <= Interval + left[0]

RotationInv(delay, left) == RotationShape /\ DelaysEarned(delay, left) /\ TokensLast(left)

Tables(delay, left) ==
  /\ delay \in [0..MaxRotationFaults -> Initial..Interval]
  /\ left \in [0..MaxRotationFaults -> 0..Ttl] /\ Affordable(delay, left)

LEMMA AmountsAre ==
  Interval \in Nat /\ Initial \in Nat \ {0} /\ Ttl \in Nat /\ MaxRotationFaults \in Nat
BY RotationAssumption

\* Delays and what they may last.
LEMMA DelaysGrow ==
  /\ \A d \in Initial..Interval :
       /\ d \in Nat /\ R!NextDelay(d) \in Initial..Interval /\ d <= R!NextDelay(d)
       /\ R!Longest(d) \in Nat \ {0} /\ R!Longest(d) <= R!Longest(Interval)
  /\ \A d, e \in Initial..Interval :
       d <= e => R!NextDelay(d) <= R!NextDelay(e) /\ R!Longest(d) <= R!Longest(e)
  /\ Initial \in Initial..Interval /\ Interval \in Initial..Interval
  /\ R!Longest(Interval) \in Nat /\ Interval <= R!Longest(Interval)
BY RotationAssumption DEF R!NextDelay, R!Lesser, R!Longest

LEMMA Longests == \A d \in Initial..Interval : \A n \in R!Jittered(d) : n \in Nat /\ n <= R!Longest(d)
BY RotationAssumption DEF R!Jittered, R!Longest

LEMMA TablesAre ==
  ASSUME NEW delay, NEW left, Tables(delay, left), RotationShape
  PROVE  /\ delay[rFaults] \in Initial..Interval /\ left[rFaults] \in Nat /\ left[0] \in Nat
         /\ delay[0] = Initial
         /\ rFaults < MaxRotationFaults =>
              /\ delay[rFaults + 1] = R!NextDelay(delay[rFaults])
              /\ delay[rFaults + 1] \in Initial..Interval /\ left[rFaults + 1] \in Nat
              /\ left[rFaults] = left[rFaults + 1] + R!Longest(delay[rFaults])
         /\ Interval + left[0] < Ttl
BY RotationAssumption DEF Tables, Affordable, RotationShape

LEMMA NoEntryIs ==
  /\ R!NoEntry \in Entries /\ R!NoEntry.in = FALSE /\ R!NoEntry.delay = Initial
  /\ R!NoEntry.due = 0
BY AmountsAre, DelaysGrow DEF R!NoEntry, Entries

\* What is kept of the backlog.
LEMMA KeptIs ==
  ASSUME RotationShape
  PROVE  /\ R!Kept \in [Rotating -> Entries]
         /\ \A s \in Rotating :
              R!Kept[s] =
                IF pending[s].in /\ (IF pass.kind = "full" THEN s \in pass.attempted
                                     ELSE s \notin pass.attempted \/ s \in pass.retryable)
                THEN pending[s] ELSE R!NoEntry
BY NoEntryIs DEF R!Kept, RotationShape

LEMMA WaitIs ==
  ASSUME NEW e \in Entries, NEW n \in Nat
  PROVE  Sooner(n, e) \in Nat /\ Sooner(n, e) <= n
BY DEF Sooner, Entries

LEMMA RotationStart ==
  ASSUME NEW delay, NEW left, Tables(delay, left), R!Init
  PROVE  RotationInv(delay, left)
<1>1. /\ role \in [Rotating -> {"well", "broken"}] /\ age = [s \in Rotating |-> 0] /\ live = Rotating
      /\ next = 0 /\ pending = [s \in Rotating |-> R!NoEntry] /\ fleetDelay = Initial
      /\ pass = R!NoPass /\ reported = {} /\ rFaults = 0
  BY DEF R!Init
<1>2. /\ R!NoPass \in RoundsOf(Rotating) /\ R!NoPass.todo = {} /\ R!NoPass.attempted = {}
      /\ R!NoPass.retryable = {} /\ R!NoPass.kind = "none"
  BY DEF R!NoPass, RoundsOf
<1>3. RotationShape
  BY <1>1, <1>2, NoEntryIs, DelaysGrow, AmountsAre DEF RotationShape
<1>4. /\ delay[0] = Initial /\ left[0] \in Nat
  BY <1>3, TablesAre
<1>5. DelaysEarned(delay, left)
  BY <1>1, <1>2, <1>4, NoEntryIs, AmountsAre DEF DelaysEarned
<1>6. ASSUME NEW s \in Rotating
      PROVE  Wait(pass, R!Kept, next, s) = 0
  <2>1. R!Kept[s] \in Entries
    BY <1>3, KeptIs
  <2>2. Sooner(next, R!Kept[s]) = 0
    BY <1>1, <2>1, WaitIs
  <2> QED BY <1>1, <1>2, <2>2 DEF Wait
<1>7. TokensLast(left)
  BY <1>1, <1>4, <1>6, AmountsAre DEF TokensLast
<1> QED BY <1>3, <1>5, <1>7 DEF RotationInv

LEMMA RotationInvGives ==
  ASSUME NEW delay, NEW left, Tables(delay, left), RotationInv(delay, left)
  PROVE  R!RotationSafe
<1>1. R!TypeOK
  BY DEF RotationInv, RotationShape, R!TypeOK, Entries, RoundsOf
<1>2. R!NeverExpires
  <2> SUFFICES ASSUME NEW s \in live, role[s] = "well" PROVE age[s] < Ttl
    BY DEF R!NeverExpires
  <2>1. /\ age[s] + Wait(pass, R!Kept, next, s) + left[rFaults] <= Interval + left[0]
        /\ age[s] \in Nat /\ s \in Rotating
    BY DEF RotationInv, RotationShape, TokensLast
  <2>2. Wait(pass, R!Kept, next, s) \in Nat
    <3>1. R!Kept[s] \in Entries /\ R!Kept[s].delay \in Initial..Interval /\ next \in Nat
      BY <2>1, KeptIs, DelaysGrow DEF RotationInv, RotationShape, Entries
    <3> QED BY <3>1, WaitIs, DelaysGrow DEF Wait
  <2>3. left[rFaults] \in Nat /\ left[0] \in Nat /\ Interval + left[0] < Ttl
    BY TablesAre DEF RotationInv
  <2> QED BY <2>1, <2>2, <2>3, AmountsAre
<1> QED BY <1>1, <1>2 DEF R!RotationSafe

\* What the invariant says of one session.
LEMMA RotationNow ==
  ASSUME NEW delay, NEW left, Tables(delay, left), RotationInv(delay, left), NEW s \in Rotating
  PROVE  /\ R!Kept[s] \in Entries /\ R!Kept[s].delay \in Initial..Interval /\ R!Kept[s].due \in Nat
         /\ pending[s] \in Entries /\ age[s] \in Nat /\ next \in Nat
         /\ Wait(pass, R!Kept, next, s) \in Nat
         /\ s \in live /\ role[s] = "well" =>
              age[s] + Wait(pass, R!Kept, next, s) + left[rFaults] <= Interval + left[0]
<1>1. /\ R!Kept[s] \in Entries /\ R!Kept[s].delay \in Initial..Interval /\ R!Kept[s].due \in Nat
      /\ next \in Nat /\ pending[s] \in Entries /\ age[s] \in Nat
  BY KeptIs, DelaysGrow DEF RotationInv, RotationShape, Entries
<1>2. Wait(pass, R!Kept, next, s) \in Nat
  BY <1>1, WaitIs, DelaysGrow DEF Wait
<1> QED BY <1>1, <1>2 DEF RotationInv, TokensLast

\* A pass that begins leaves no session that is due behind.
LEMMA BeginPassStep ==
  ASSUME NEW delay, NEW left, Tables(delay, left), RotationInv(delay, left),
         R!StartSweep \/ R!StartRepair
  PROVE  RotationInv(delay, left)'
<1>1. /\ pass.kind = "none" /\ UNCHANGED <<role, age, live, pending, reported, rFaults>>
      /\ pass.todo = {} /\ pass.retryable = {} /\ pass.attempted = {}
  BY DEF R!StartSweep, R!StartRepair, RotationInv, RotationShape, RoundsOf
<1>2. PICK kind \in {"full", "repair"}, set \in SUBSET Rotating :
        /\ pass' = [R!NoPass EXCEPT !.kind = kind, !.todo = set, !.attempted = set]
        /\ kind = "full" => /\ set = live /\ next = 0 /\ next' = Interval /\ fleetDelay' = Initial
        /\ kind = "repair" => /\ set = R!Due /\ next' = next /\ fleetDelay' = fleetDelay
  BY DEF R!StartSweep, R!StartRepair, R!Due, RotationInv, RotationShape
<1>3. /\ pass' \in RoundsOf(Rotating) /\ pass'.kind = kind /\ pass'.todo = set
      /\ pass'.attempted = set /\ pass'.retryable = {}
  BY <1>2 DEF R!NoPass, RoundsOf
<1>4. /\ delay[rFaults] \in Initial..Interval /\ left[rFaults] \in Nat /\ left[0] \in Nat
  BY TablesAre DEF RotationInv
<1>5. RotationShape'
  BY <1>1, <1>2, <1>3, DelaysGrow DEF RotationInv, RotationShape
<1>6. DelaysEarned(delay, left)'
  BY <1>1, <1>2, <1>3, <1>4, DelaysGrow DEF RotationInv, DelaysEarned
<1>7. ASSUME NEW s \in live, role[s] = "well"
      PROVE  age[s] + Wait(pass', R!Kept', next', s) + left[rFaults] <= Interval + left[0]
  <2>1. s \in Rotating /\ next \in Nat
    BY DEF RotationInv, RotationShape
  <2>2. /\ Wait(pass, R!Kept, next, s) \in Nat /\ age[s] \in Nat
        /\ age[s] + Wait(pass, R!Kept, next, s) + left[rFaults] <= Interval + left[0]
    BY <1>7, <2>1, RotationNow
  <2>3. CASE s \in set
    <3>1. Wait(pass', R!Kept', next', s) = 0
      BY <1>3, <2>3 DEF Wait
    <3>2. 0 <= Wait(pass, R!Kept, next, s)
      BY <2>2
    <3> QED BY <1>4, <2>2, <3>1, <3>2, AmountsAre
  <2>4. CASE s \notin set
    <3>1. kind = "repair" /\ next' = next
      BY <1>2, <2>4
    <3>2. R!Kept[s] = IF pending[s].in THEN pending[s] ELSE R!NoEntry
      BY <1>1, <2>1, KeptIs DEF RotationInv
    <3>3. R!Kept'[s] = IF pending[s].in THEN pending[s] ELSE R!NoEntry
      BY <1>1, <1>3, <2>1, <2>4, <3>1 DEF R!Kept
    <3>4. Wait(pass', R!Kept', next', s) = Wait(pass, R!Kept, next, s)
      BY <1>1, <1>3, <2>4, <3>1, <3>2, <3>3 DEF Wait
    <3> QED BY <2>2, <3>4
  <2> QED BY <2>3, <2>4
<1>8. TokensLast(left)'
  BY <1>1, <1>7 DEF TokensLast
<1> QED BY <1>5, <1>6, <1>8 DEF RotationInv

\* The list failed, another process takes over, or a call is slow: one failure less
\* may come, and no session waits longer than it costs.
LEMMA ListFailsStep ==
  ASSUME NEW delay, NEW left, Tables(delay, left), RotationInv(delay, left), R!ListFails
  PROVE  RotationInv(delay, left)'
<1>1. /\ pass.kind = "none" /\ next = 0 /\ rFaults < MaxRotationFaults /\ rFaults' = rFaults + 1
      /\ next' \in R!Jittered(fleetDelay) /\ fleetDelay' = R!NextDelay(fleetDelay)
      /\ UNCHANGED <<role, age, live, pending, pass, reported>>
  BY DEF R!ListFails, R!Fault
<1>2. /\ delay[rFaults] \in Initial..Interval /\ left[rFaults] \in Nat /\ left[0] \in Nat
      /\ delay[rFaults + 1] = R!NextDelay(delay[rFaults]) /\ left[rFaults + 1] \in Nat
      /\ left[rFaults] = left[rFaults + 1] + R!Longest(delay[rFaults])
  BY <1>1, TablesAre DEF RotationInv
<1>3. /\ fleetDelay \in Initial..Interval /\ fleetDelay <= delay[rFaults]
      /\ left[rFaults] <= left[0]
  BY DEF RotationInv, RotationShape, DelaysEarned
<1>4. /\ next' \in Nat /\ next' <= R!Longest(fleetDelay) /\ R!Longest(fleetDelay) <= R!Longest(delay[rFaults])
      /\ R!Longest(fleetDelay) <= R!Longest(Interval)
      /\ R!NextDelay(fleetDelay) \in Initial..Interval
      /\ R!NextDelay(fleetDelay) <= delay[rFaults + 1]
      /\ delay[rFaults] <= delay[rFaults + 1] /\ delay[rFaults + 1] \in Nat
      /\ R!Longest(delay[rFaults]) \in Nat /\ R!Longest(fleetDelay) \in Nat /\ R!Longest(Interval) \in Nat
  BY <1>1, <1>2, <1>3, DelaysGrow, Longests
<1>5. RotationShape'
  <2>1. next' \in 0..R!Longest(Interval) /\ rFaults + 1 \in 0..MaxRotationFaults
    BY <1>1, <1>4, AmountsAre DEF RotationInv, RotationShape
  <2> QED BY <1>1, <1>4, <2>1 DEF RotationInv, RotationShape
<1>6. DelaysEarned(delay, left)'
  <2>1. \A s \in Rotating : pending[s].delay \in Nat
    BY RotationNow, AmountsAre DEF Entries
  <2>2. pass.retryable = {}
    BY <1>1 DEF RotationInv, RotationShape, RoundsOf
  <2>3. /\ fleetDelay' <= delay[rFaults']
        /\ \A s \in Rotating : role'[s] = "well" => pending'[s].delay <= delay[rFaults']
    BY <1>1, <1>2, <1>4, <2>1 DEF RotationInv, DelaysEarned
  <2>4. left[rFaults'] <= left[0] /\ next' + left[rFaults'] <= Interval + left[0]
    BY <1>1, <1>2, <1>3, <1>4, AmountsAre
  <2> QED BY <1>1, <2>2, <2>3, <2>4 DEF DelaysEarned
<1>7. ASSUME NEW s \in live, role[s] = "well"
      PROVE  age[s] + Wait(pass', R!Kept', next', s) + left[rFaults'] <= Interval + left[0]
  <2>1. s \in Rotating
    BY DEF RotationInv, RotationShape
  <2>2. /\ Wait(pass, R!Kept, next, s) \in Nat /\ age[s] \in Nat /\ R!Kept[s] \in Entries
        /\ age[s] + Wait(pass, R!Kept, next, s) + left[rFaults] <= Interval + left[0]
    BY <1>7, <2>1, RotationNow
  <2>3. /\ s \notin pass.todo /\ s \notin pass.retryable
    BY <1>1 DEF RotationInv, RotationShape, RoundsOf
  <2>4. R!Kept' = R!Kept
    BY <1>1 DEF R!Kept
  <2>5. Wait(pass', R!Kept', next', s) = Sooner(next', R!Kept[s])
    BY <1>1, <2>3, <2>4 DEF Wait
  <2>6. Wait(pass', R!Kept', next', s) \in Nat /\ Wait(pass', R!Kept', next', s) <= next'
    BY <1>4, <2>2, <2>5, WaitIs
  <2> QED BY <1>1, <1>2, <1>4, <2>2, <2>6, AmountsAre
<1>8. TokensLast(left)'
  BY <1>1, <1>7 DEF TokensLast
<1> QED BY <1>5, <1>6, <1>8 DEF RotationInv

LEMMA CrashedStep ==
  ASSUME NEW delay, NEW left, Tables(delay, left), RotationInv(delay, left), R!Crash
  PROVE  RotationInv(delay, left)'
<1>1. /\ rFaults < MaxRotationFaults /\ rFaults' = rFaults + 1 /\ next' = 0
      /\ pending' = [s \in Rotating |-> R!NoEntry] /\ fleetDelay' = Initial /\ pass' = R!NoPass
      /\ UNCHANGED <<role, age, live, reported>>
  BY DEF R!Crash, R!Fault
<1>2. /\ delay[rFaults + 1] \in Initial..Interval /\ left[rFaults] \in Nat /\ left[0] \in Nat
      /\ left[rFaults + 1] \in Nat /\ left[rFaults + 1] <= left[rFaults] /\ left[rFaults] <= left[0]
  BY <1>1, TablesAre, DelaysGrow DEF RotationInv, DelaysEarned
<1>3. /\ R!NoPass \in RoundsOf(Rotating) /\ R!NoPass.todo = {} /\ R!NoPass.attempted = {}
      /\ R!NoPass.retryable = {} /\ R!NoPass.kind = "none"
  BY DEF R!NoPass, RoundsOf
<1>4. RotationShape'
  BY <1>1, <1>3, NoEntryIs, DelaysGrow, AmountsAre DEF RotationInv, RotationShape
<1>5. DelaysEarned(delay, left)'
  BY <1>1, <1>2, <1>3, NoEntryIs, AmountsAre DEF DelaysEarned
<1>6. ASSUME NEW s \in live, role[s] = "well"
      PROVE  age[s] + Wait(pass', R!Kept', next', s) + left[rFaults'] <= Interval + left[0]
  <2>1. s \in Rotating
    BY DEF RotationInv, RotationShape
  <2>2. /\ Wait(pass, R!Kept, next, s) \in Nat /\ age[s] \in Nat
        /\ age[s] + Wait(pass, R!Kept, next, s) + left[rFaults] <= Interval + left[0]
    BY <1>6, <2>1, RotationNow
  <2>3. R!Kept'[s] = R!NoEntry
    BY <1>1, <2>1, NoEntryIs DEF R!Kept
  <2>4. Wait(pass', R!Kept', next', s) = 0
    BY <1>1, <1>3, <2>3, NoEntryIs DEF Wait, Sooner
  <2> QED BY <1>1, <1>2, <2>2, <2>4, AmountsAre
<1>7. TokensLast(left)'
  BY <1>1, <1>6 DEF TokensLast
<1> QED BY <1>4, <1>5, <1>7 DEF RotationInv

\* One attempt of a pass is over; the other sessions keep their place in it.
LEMMA SettleStep ==
  ASSUME NEW delay, NEW left, Tables(delay, left), RotationInv(delay, left),
         NEW s \in Rotating, R!RotateOne(s) \/ R!RotateFails(s)
  PROVE  RotationInv(delay, left)'
<1>1. PICK outcome \in {"permanent", "gone", "retryable", "refreshed"} :
        /\ R!Settle(s, outcome)
        /\ \/ outcome = R!Outcome(s) /\ rFaults' = rFaults
           \/ outcome = "retryable" /\ rFaults < MaxRotationFaults /\ rFaults' = rFaults + 1
  <2>1. R!Outcome(s) \in {"permanent", "gone", "retryable", "refreshed"}
    BY DEF R!Outcome
  <2>2. CASE R!RotateOne(s)
    <3>1. R!Settle(s, R!Outcome(s)) /\ rFaults' = rFaults
      BY <2>2 DEF R!RotateOne
    <3> QED BY <2>1, <3>1
  <2>3. CASE R!RotateFails(s)
    <3>1. R!Settle(s, "retryable") /\ rFaults < MaxRotationFaults /\ rFaults' = rFaults + 1
      BY <2>3 DEF R!RotateFails, R!Fault
    <3> QED BY <3>1
  <2> QED BY <2>2, <2>3
<1>2. /\ s \in pass.todo /\ s \in pass.attempted /\ s \notin pass.retryable /\ pass.kind # "none"
      /\ pass.attempted \subseteq Rotating
  BY DEF R!RotateOne, R!RotateFails, RotationInv, RotationShape, RoundsOf
<1>3. /\ pass' \in RoundsOf(Rotating) /\ pass'.kind = pass.kind /\ pass'.attempted = pass.attempted
      /\ pass'.todo = pass.todo \ {s}
      /\ pass'.retryable = IF outcome = "retryable" THEN pass.retryable \cup {s} ELSE pass.retryable
  <2>1. pass \in RoundsOf(Rotating)
    BY DEF RotationInv, RotationShape
  <2> QED BY <1>1, <2>1 DEF R!Settle, RoundsOf
<1>4. /\ age' \in [Rotating -> 0..Ttl]
      /\ \A t \in Rotating : t # s \/ outcome # "refreshed" => age'[t] = age[t]
      /\ outcome = "refreshed" => age'[s] = 0
      /\ reported' \subseteq Rotating /\ UNCHANGED <<role, live, next, pending, fleetDelay>>
  BY <1>1, AmountsAre DEF R!Settle, R!Mint, RotationInv, RotationShape
<1>5. /\ rFaults' \in 0..MaxRotationFaults /\ delay[rFaults] <= delay[rFaults']
      /\ delay[rFaults] \in Initial..Interval /\ delay[rFaults'] \in Initial..Interval
      /\ left[rFaults] \in Nat /\ left[rFaults'] \in Nat /\ left[0] \in Nat
      /\ left[rFaults'] <= left[rFaults]
      /\ rFaults' # rFaults => /\ delay[rFaults'] = R!NextDelay(delay[rFaults])
                              /\ left[rFaults] = left[rFaults'] + R!Longest(delay[rFaults])
  <2>1. rFaults \in 0..MaxRotationFaults
    BY DEF RotationInv, RotationShape
  <2>2. R!Longest(delay[rFaults]) \in Nat /\ delay[rFaults] \in Nat
    BY TablesAre, DelaysGrow DEF RotationInv
  <2>3. CASE rFaults' = rFaults
    BY <2>1, <2>2, <2>3, TablesAre DEF RotationInv
  <2>4. CASE rFaults < MaxRotationFaults /\ rFaults' = rFaults + 1
    <3>1. rFaults' \in 0..MaxRotationFaults
      BY <2>1, <2>4, AmountsAre
    <3>2. delay[rFaults] <= R!NextDelay(delay[rFaults])
      BY TablesAre, DelaysGrow DEF RotationInv
    <3> QED BY <2>2, <2>4, <3>1, <3>2, TablesAre DEF RotationInv
  <2> QED BY <1>1, <2>3, <2>4
<1>6. RotationShape'
  BY <1>2, <1>3, <1>4, <1>5 DEF RotationInv, RotationShape
<1>7. /\ \A t \in Rotating : t # s => R!Kept'[t] = R!Kept[t]
      /\ R!Kept'[s] \in {pending[s], R!NoEntry}
  BY <1>3, <1>4 DEF R!Kept
<1>8. rFaults < MaxRotationFaults /\ rFaults' = rFaults + 1 => rFaults' # rFaults
  BY AmountsAre DEF RotationInv, RotationShape
<1>9. outcome # "refreshed" /\ s \in live /\ role[s] = "well" =>
        rFaults' # rFaults /\ outcome = "retryable"
  <2>1. role[s] = "well" /\ s \in live => R!Outcome(s) = "refreshed"
    BY DEF R!Outcome
  <2> QED BY <1>1, <1>8, <2>1
<1>10. outcome = "retryable" /\ role[s] = "well" => rFaults' # rFaults
  <2>1. role[s] = "well" => R!Outcome(s) # "retryable"
    BY DEF R!Outcome
  <2> QED BY <1>1, <1>8, <2>1
<1>11. role[s] = "well" => /\ R!Kept'[s].delay \in Initial..Interval
                           /\ R!Kept'[s].delay <= delay[rFaults]
  <2>1. pending[s].delay \in Initial..Interval
    BY RotationNow DEF Entries
  <2> QED BY <1>5, <1>7, <2>1, NoEntryIs, DelaysGrow, AmountsAre DEF RotationInv, DelaysEarned
<1>12. DelaysEarned(delay, left)'
  <2>1. /\ fleetDelay \in Nat /\ next \in Nat /\ fleetDelay <= delay[rFaults]
        /\ left[rFaults] <= left[0] /\ next + left[rFaults] <= Interval + left[0]
    BY AmountsAre DEF RotationInv, RotationShape, DelaysEarned
  <2>2. \A t \in Rotating : role[t] = "well" => pending[t].delay \in Nat /\ pending[t].delay <= delay[rFaults]
    BY RotationNow, AmountsAre DEF Entries, RotationInv, DelaysEarned
  <2>3. ASSUME NEW t \in pass'.retryable, role[t] = "well"
        PROVE  /\ R!NextDelay(R!Kept'[t].delay) <= delay[rFaults']
               /\ R!Longest(R!Kept'[t].delay) + left[rFaults'] <= left[0]
    <3>1. CASE t = s
      <4>1. rFaults' # rFaults
        BY <1>2, <1>3, <1>10, <2>3, <3>1
      <4>2. /\ R!NextDelay(R!Kept'[s].delay) <= R!NextDelay(delay[rFaults])
            /\ R!Longest(R!Kept'[s].delay) <= R!Longest(delay[rFaults])
            /\ R!Longest(R!Kept'[s].delay) \in Nat /\ R!Longest(delay[rFaults]) \in Nat
        BY <1>5, <1>11, <2>3, <3>1, DelaysGrow
      <4> QED BY <1>5, <2>1, <3>1, <4>1, <4>2
    <3>2. CASE t # s
      <4>1. t \in pass.retryable /\ t \in Rotating
        BY <1>3, <2>3, <3>2 DEF RotationInv, RotationShape, RoundsOf
      <4>2. /\ R!NextDelay(R!Kept[t].delay) <= delay[rFaults]
            /\ R!Longest(R!Kept[t].delay) + left[rFaults] <= left[0]
        BY <2>3, <4>1 DEF RotationInv, DelaysEarned
      <4>3. R!NextDelay(R!Kept[t].delay) \in Initial..Interval /\ R!Longest(R!Kept[t].delay) \in Nat
        BY <4>1, RotationNow, DelaysGrow
      <4> QED BY <1>5, <1>7, <3>2, <4>1, <4>2, <4>3, AmountsAre
    <3> QED BY <3>1, <3>2
  <2>4. fleetDelay <= delay[rFaults'] /\ left[rFaults'] <= left[0] /\ next + left[rFaults'] <= Interval + left[0]
    BY <1>5, <2>1, AmountsAre
  <2>5. \A t \in Rotating : role[t] = "well" => pending[t].delay <= delay[rFaults']
    BY <1>5, <2>2, AmountsAre
  <2> QED BY <1>4, <2>3, <2>4, <2>5 DEF DelaysEarned
<1>13. ASSUME NEW t \in live, role[t] = "well"
       PROVE  age'[t] + Wait(pass', R!Kept', next, t) + left[rFaults'] <= Interval + left[0]
  <2>1. t \in Rotating /\ next \in Nat
    BY DEF RotationInv, RotationShape
  <2>2. /\ Wait(pass, R!Kept, next, t) \in Nat /\ age[t] \in Nat
        /\ age[t] + Wait(pass, R!Kept, next, t) + left[rFaults] <= Interval + left[0]
    BY <1>13, <2>1, RotationNow
  <2>3. CASE t # s
    <3>1. Wait(pass', R!Kept', next, t) = Wait(pass, R!Kept, next, t)
      BY <1>3, <1>7, <2>1, <2>3 DEF Wait
    <3>2. age'[t] = age[t]
      BY <1>4, <2>1, <2>3
    <3> QED BY <1>5, <2>2, <3>1, <3>2, AmountsAre
  <2>4. CASE t = s /\ outcome = "refreshed"
    <3>1. R!Kept'[s] \in Entries
      BY <1>7, RotationNow, NoEntryIs
    <3>2. Wait(pass', R!Kept', next, t) = Sooner(next, R!Kept'[s])
      BY <1>2, <1>3, <2>4 DEF Wait
    <3>3. Wait(pass', R!Kept', next, t) \in Nat /\ Wait(pass', R!Kept', next, t) <= next
      BY <2>1, <3>1, <3>2, WaitIs
    <3>4. next + left[rFaults] <= Interval + left[0] /\ age'[t] = 0
      BY <1>4, <2>4 DEF RotationInv, DelaysEarned
    <3> QED BY <1>5, <2>1, <3>3, <3>4, AmountsAre
  <2>5. CASE t = s /\ outcome # "refreshed"
    <3>1. rFaults' # rFaults /\ outcome = "retryable" /\ age'[t] = age[t]
      BY <1>4, <1>9, <1>13, <2>1, <2>5
    <3>2. Wait(pass', R!Kept', next, t) = R!Longest(R!Kept'[s].delay)
      BY <1>3, <2>5, <3>1 DEF Wait
    <3>3. Wait(pass, R!Kept, next, t) = 0
      BY <1>2, <2>5 DEF Wait
    <3>4. /\ R!Longest(R!Kept'[s].delay) <= R!Longest(delay[rFaults])
          /\ R!Longest(R!Kept'[s].delay) \in Nat /\ R!Longest(delay[rFaults]) \in Nat
      BY <1>5, <1>11, <1>13, <2>5, DelaysGrow
    <3> QED BY <1>5, <2>2, <3>1, <3>2, <3>3, <3>4, AmountsAre
  <2> QED BY <2>3, <2>4, <2>5
<1>14. TokensLast(left)'
  BY <1>4, <1>13 DEF TokensLast
<1> QED BY <1>6, <1>12, <1>14 DEF RotationInv

\* A session that failed waits for its own delay; the backlog of the others stays.
LEMMA EndPassStep ==
  ASSUME NEW delay, NEW left, Tables(delay, left), RotationInv(delay, left), R!EndPass
  PROVE  RotationInv(delay, left)'
<1>1. PICK jitter \in [pass.retryable -> 0..R!Longest(Interval)] :
        /\ \A s \in pass.retryable : jitter[s] \in R!Jittered(R!Kept[s].delay)
        /\ pending' = R!Absorb(R!Kept, pass.retryable, jitter)
  BY DEF R!EndPass
<1>2. /\ pass.todo = {} /\ pass' = R!NoPass
      /\ UNCHANGED <<role, age, live, next, fleetDelay, reported, rFaults>>
  BY DEF R!EndPass
<1>3. /\ R!NoPass \in RoundsOf(Rotating) /\ R!NoPass.todo = {} /\ R!NoPass.attempted = {}
      /\ R!NoPass.retryable = {} /\ R!NoPass.kind = "none"
  BY DEF R!NoPass, RoundsOf
<1>4. pass.retryable \subseteq Rotating
  BY DEF RotationInv, RotationShape, RoundsOf
<1>5. ASSUME NEW s \in Rotating
      PROVE  /\ s \in pass.retryable =>
                  /\ pending'[s].in = TRUE /\ pending'[s].due \in Nat
                  /\ pending'[s].due <= R!Longest(R!Kept[s].delay)
                  /\ pending'[s].delay = R!NextDelay(R!Kept[s].delay)
             /\ s \notin pass.retryable => pending'[s] = R!Kept[s]
             /\ pending'[s] \in Entries
  <2>1. R!Kept[s] \in Entries /\ R!Kept[s].delay \in Initial..Interval
    BY RotationNow
  <2>2. pending'[s] = IF s \in pass.retryable
                      THEN [in |-> TRUE, due |-> jitter[s], delay |-> R!NextDelay(R!Kept[s].delay)]
                      ELSE R!Kept[s]
    BY <1>1 DEF R!Absorb
  <2>3. CASE s \in pass.retryable
    <3>1. jitter[s] \in Nat /\ jitter[s] <= R!Longest(R!Kept[s].delay) /\ jitter[s] \in 0..R!Longest(Interval)
      BY <1>1, <2>1, <2>3, Longests
    <3>2. R!NextDelay(R!Kept[s].delay) \in Initial..Interval
      BY <2>1, DelaysGrow
    <3> QED BY <2>2, <2>3, <3>1, <3>2 DEF Entries
  <2>4. CASE s \notin pass.retryable
    BY <2>1, <2>2, <2>4
  <2> QED BY <2>3, <2>4
<1>6. pending' \in [Rotating -> Entries]
  <2>1. pending' = [s \in Rotating |-> pending'[s]]
    BY <1>1 DEF R!Absorb
  <2> QED BY <1>5, <2>1
<1>7. RotationShape'
  BY <1>2, <1>3, <1>6 DEF RotationInv, RotationShape
<1>8. /\ delay[rFaults] \in Initial..Interval /\ left[rFaults] \in Nat /\ left[0] \in Nat
  BY TablesAre DEF RotationInv
<1>9. ASSUME NEW s \in Rotating, role[s] = "well"
      PROVE  pending'[s].delay <= delay[rFaults]
  <2>1. CASE s \in pass.retryable
    BY <1>5, <1>9, <2>1 DEF RotationInv, DelaysEarned
  <2>2. CASE s \notin pass.retryable
    <3>1. R!Kept[s] \in {pending[s], R!NoEntry}
      BY KeptIs DEF RotationInv
    <3>2. pending[s].delay <= delay[rFaults] /\ R!NoEntry.delay <= delay[rFaults]
      BY <1>8, <1>9, NoEntryIs, AmountsAre DEF RotationInv, DelaysEarned
    <3> QED BY <1>5, <2>2, <3>1, <3>2
  <2> QED BY <2>1, <2>2
<1>10. DelaysEarned(delay, left)'
  BY <1>2, <1>3, <1>9 DEF RotationInv, DelaysEarned
<1>11. ASSUME NEW s \in live, role[s] = "well"
       PROVE  age[s] + Wait(pass', R!Kept', next, s) + left[rFaults] <= Interval + left[0]
  <2>1. s \in Rotating /\ next \in Nat
    BY DEF RotationInv, RotationShape
  <2>2. /\ Wait(pass, R!Kept, next, s) \in Nat /\ age[s] \in Nat
        /\ age[s] + Wait(pass, R!Kept, next, s) + left[rFaults] <= Interval + left[0]
    BY <1>11, <2>1, RotationNow
  <2>3. R!Kept'[s] = IF pending'[s].in THEN pending'[s] ELSE R!NoEntry
    BY <1>2, <1>3, <2>1 DEF R!Kept
  <2>4. Wait(pass', R!Kept', next, s) = Sooner(next, R!Kept'[s])
    BY <1>2, <1>3 DEF Wait
  <2>5. CASE s \in pass.retryable
    <3>1. Wait(pass, R!Kept, next, s) = R!Longest(R!Kept[s].delay)
      BY <1>2, <2>5 DEF Wait
    <3>2. /\ Sooner(next, pending'[s]) \in Nat /\ Sooner(next, pending'[s]) <= pending'[s].due
      <4>1. Sooner(next, pending'[s]) = IF pending'[s].due <= next THEN pending'[s].due ELSE next
        BY <1>5, <2>1, <2>5, Zenon DEF Sooner
      <4>2. pending'[s].due \in Nat
        BY <1>5, <2>1, <2>5
      <4> QED BY <2>1, <4>1, <4>2
    <3>3. /\ R!Longest(R!Kept[s].delay) \in Nat /\ pending'[s].due \in Nat /\ pending'[s].in
          /\ pending'[s].due <= R!Longest(R!Kept[s].delay)
      BY <1>5, <2>1, <2>5, RotationNow, DelaysGrow
    <3> QED BY <1>8, <2>2, <2>3, <2>4, <3>1, <3>2, <3>3, AmountsAre
  <2>6. CASE s \notin pass.retryable
    <3>1. R!Kept'[s] = R!Kept[s]
      <4>1. R!Kept[s] = R!NoEntry \/ R!Kept[s].in
        BY <2>1, KeptIs DEF RotationInv
      <4> QED BY <1>5, <2>1, <2>3, <2>6, <4>1, NoEntryIs
    <3>2. Wait(pass, R!Kept, next, s) = Sooner(next, R!Kept[s])
      BY <1>2, <2>6 DEF Wait
    <3> QED BY <2>2, <2>4, <3>1, <3>2
  <2> QED BY <2>5, <2>6
<1>12. TokensLast(left)'
  BY <1>2, <1>11 DEF TokensLast
<1> QED BY <1>7, <1>10, <1>12 DEF RotationInv

\* A moment passes in which nothing is due: every session is a moment nearer.
LEMMA PassedMoment ==
  ASSUME NEW delay, NEW left, Tables(delay, left), RotationInv(delay, left), R!Pass1,
         NEW s \in Rotating, UNCHANGED pass
  PROVE  /\ next' \in Nat /\ next' = IF next <= 1 THEN 0 ELSE next - 1
         /\ age'[s] \in 0..Ttl /\ age'[s] <= age[s] + 1
         /\ pending'[s] \in Entries
         /\ pending'[s].in = pending[s].in /\ pending'[s].delay = pending[s].delay
         /\ pending'[s].due = IF pending[s].due <= 1 THEN 0 ELSE pending[s].due - 1
         /\ R!Kept'[s] = IF R!Kept[s] = R!NoEntry THEN R!NoEntry ELSE pending'[s]
         /\ R!Kept'[s].delay = R!Kept[s].delay
<1>1. /\ next \in Nat /\ age[s] \in 0..Ttl /\ pending[s] \in Entries /\ pending[s].due \in 0..R!Longest(Interval)
      /\ R!Longest(Interval) \in Nat
  BY DelaysGrow DEF RotationInv, RotationShape, Entries
<1>2. next' = IF next <= 1 THEN 0 ELSE next - 1
  BY <1>1 DEF R!Pass1, R!Monus
<1>3. age'[s] \in 0..Ttl /\ age'[s] <= age[s] + 1
  <2>1. age'[s] = IF s \in live /\ role[s] = "well" THEN R!Lesser(age[s] + 1, Ttl) ELSE 0
    BY DEF R!Pass1
  <2> QED BY <1>1, <2>1, AmountsAre DEF R!Lesser
<1>4. pending'[s] = [pending[s] EXCEPT !.due = R!Monus(@, 1)]
  BY DEF R!Pass1
<1>5. R!Monus(pending[s].due, 1) = IF pending[s].due <= 1 THEN 0 ELSE pending[s].due - 1
  BY <1>1 DEF R!Monus
<1>6. R!Monus(pending[s].due, 1) \in 0..R!Longest(Interval)
  BY <1>1, <1>5
<1>7. /\ pending'[s] \in Entries
      /\ pending'[s].in = pending[s].in /\ pending'[s].delay = pending[s].delay
      /\ pending'[s].due = R!Monus(pending[s].due, 1)
  BY <1>1, <1>4, <1>6 DEF Entries
<1>8. /\ R!Kept[s] = IF pending[s].in /\ (IF pass.kind = "full" THEN s \in pass.attempted
                                     ELSE s \notin pass.attempted \/ s \in pass.retryable)
                     THEN pending[s] ELSE R!NoEntry
      /\ R!Kept'[s] = IF pending[s].in /\ (IF pass.kind = "full" THEN s \in pass.attempted
                                      ELSE s \notin pass.attempted \/ s \in pass.retryable)
                      THEN pending'[s] ELSE R!NoEntry
  BY <1>7 DEF R!Kept
<1>9. /\ R!Kept'[s] = IF R!Kept[s] = R!NoEntry THEN R!NoEntry ELSE pending'[s]
      /\ R!Kept'[s].delay = R!Kept[s].delay
  <2>1. CASE pending[s].in /\ (IF pass.kind = "full" THEN s \in pass.attempted
                               ELSE s \notin pass.attempted \/ s \in pass.retryable)
    <3>1. R!Kept[s] = pending[s] /\ R!Kept'[s] = pending'[s] /\ pending[s].in
      BY <1>8, <2>1
    <3>2. pending[s] # R!NoEntry
      BY <3>1, NoEntryIs
    <3> QED BY <1>7, <3>1, <3>2
  <2>2. CASE ~ (pending[s].in /\ (IF pass.kind = "full" THEN s \in pass.attempted
                                  ELSE s \notin pass.attempted \/ s \in pass.retryable))
    BY <1>8, <2>2
  <2> QED BY <2>1, <2>2
<1> QED BY <1>1, <1>2, <1>3, <1>5, <1>7, <1>9

\* The earlier of two clocks, a moment later.
LEMMA SoonerPasses ==
  ASSUME NEW n \in Nat, NEW d \in Nat, NEW n2 \in Nat, NEW d2 \in Nat,
         n2 = IF n <= 1 THEN 0 ELSE n - 1, d2 = IF d <= 1 THEN 0 ELSE d - 1,
         NEW e \in Entries, NEW e2 \in Entries, e.due = d, e2.due = d2, e2.in = e.in
  PROVE  Sooner(n2, e2) <= Sooner(n, e)
<1>1. CASE e.in
  <2>1. Sooner(n, e) = (IF d <= n THEN d ELSE n) /\ Sooner(n2, e2) = (IF d2 <= n2 THEN d2 ELSE n2)
    BY <1>1, Zenon DEF Sooner
  <2> QED BY <1>1, <2>1
<1>2. CASE ~ e.in
  <2>1. Sooner(n, e) = n /\ Sooner(n2, e2) = n2
    BY <1>2, Zenon DEF Sooner
  <2> QED BY <1>2, <2>1
<1> QED BY <1>1, <1>2

LEMMA PassedShape ==
  ASSUME NEW delay, NEW left, Tables(delay, left), RotationInv(delay, left), R!Pass1,
         UNCHANGED <<role, live, fleetDelay, pass, reported>>, rFaults' \in 0..MaxRotationFaults
  PROVE  RotationShape'
<1>1. age' \in [Rotating -> 0..Ttl] /\ pending' \in [Rotating -> Entries]
  <2>1. age' = [s \in Rotating |-> age'[s]] /\ pending' = [s \in Rotating |-> pending'[s]]
    BY DEF R!Pass1
  <2>2. \A s \in Rotating : age'[s] \in 0..Ttl /\ pending'[s] \in Entries
    BY PassedMoment
  <2> QED BY <2>1, <2>2
<1>2. next' \in 0..R!Longest(Interval)
  BY DelaysGrow DEF R!Pass1, R!Monus, RotationInv, RotationShape
<1> QED BY <1>1, <1>2 DEF RotationInv, RotationShape

\* The loop sleeps.
LEMMA TickStep ==
  ASSUME NEW delay, NEW left, Tables(delay, left), RotationInv(delay, left), R!Tick
  PROVE  RotationInv(delay, left)'
<1>1. /\ pass.kind = "none" /\ next > 0 /\ R!Due = {} /\ R!Pass1
      /\ UNCHANGED <<role, live, fleetDelay, pass, reported, rFaults>>
  BY DEF R!Tick
<1>2. RotationShape'
  BY <1>1, PassedShape DEF RotationInv, RotationShape
<1>3. pass.todo = {} /\ pass.retryable = {} /\ next \in Nat
  BY <1>1 DEF RotationInv, RotationShape, RoundsOf
<1>4. /\ left[rFaults] \in Nat /\ left[0] \in Nat
  BY TablesAre DEF RotationInv
<1>5. DelaysEarned(delay, left)'
  <2>1. next' \in Nat /\ next' <= next
    BY <1>1, <1>3 DEF R!Pass1, R!Monus
  <2>2. next' + left[rFaults] <= Interval + left[0]
    BY <1>3, <1>4, <2>1, AmountsAre DEF RotationInv, DelaysEarned
  <2>3. \A s \in Rotating : pending'[s].delay = pending[s].delay
    BY <1>1, PassedMoment
  <2> QED BY <1>1, <1>3, <2>2, <2>3 DEF RotationInv, DelaysEarned
<1>6. ASSUME NEW s \in live, role[s] = "well"
      PROVE  age'[s] + Wait(pass, R!Kept', next', s) + left[rFaults] <= Interval + left[0]
  <2>1. s \in Rotating
    BY DEF RotationInv, RotationShape
  <2>2. /\ Wait(pass, R!Kept, next, s) \in Nat /\ age[s] \in Nat /\ R!Kept[s] \in Entries
        /\ age[s] + Wait(pass, R!Kept, next, s) + left[rFaults] <= Interval + left[0]
        /\ pending[s] \in Entries /\ pending[s].due \in Nat
    BY <1>6, <2>1, RotationNow, DelaysGrow DEF Entries
  <2>3. /\ next' \in Nat /\ next' = IF next <= 1 THEN 0 ELSE next - 1
        /\ age'[s] \in Nat /\ age'[s] <= age[s] + 1
        /\ pending'[s] \in Entries /\ pending'[s].in = pending[s].in
        /\ pending'[s].due = IF pending[s].due <= 1 THEN 0 ELSE pending[s].due - 1
        /\ R!Kept'[s] = IF R!Kept[s] = R!NoEntry THEN R!NoEntry ELSE pending'[s]
    BY <1>1, <2>1, PassedMoment, AmountsAre
  <2>4. pending'[s].due \in Nat
    BY <2>2, <2>3
  <2>5. /\ Wait(pass, R!Kept, next, s) = Sooner(next, R!Kept[s])
        /\ Wait(pass, R!Kept', next', s) = Sooner(next', R!Kept'[s])
    BY <1>3 DEF Wait
  <2>6. Sooner(next', R!Kept'[s]) + 1 = Sooner(next, R!Kept[s])
    <3>1. CASE R!Kept[s] = R!NoEntry
      <4>1. Sooner(next, R!Kept[s]) = next /\ Sooner(next', R!Kept'[s]) = next'
        BY <2>3, <3>1, NoEntryIs, Zenon DEF Sooner
      <4> QED BY <1>1, <1>3, <2>3, <4>1
    <3>2. CASE R!Kept[s] # R!NoEntry
      <4>1. R!Kept[s] = pending[s] /\ pending[s].in
        BY <2>1, <3>2, KeptIs DEF RotationInv
      <4>2. pending[s].due # 0
        BY <1>1, <2>1, <4>1 DEF R!Due
      <4>3. pending[s].due > 0
        BY <2>2, <4>2
      <4>4. R!Kept'[s] = pending'[s]
        BY <2>3, <3>2
      <4>5. Sooner(next', pending'[s]) + 1 = Sooner(next, pending[s])
        <5>1. Sooner(next, pending[s]) = IF pending[s].due <= next THEN pending[s].due ELSE next
          BY <4>1, Zenon DEF Sooner
        <5>2. Sooner(next', pending'[s]) = IF pending'[s].due <= next' THEN pending'[s].due ELSE next'
          BY <2>3, <4>1, Zenon DEF Sooner
        <5> QED BY <1>1, <1>3, <2>2, <2>3, <4>3, <5>1, <5>2
      <4> QED BY <4>1, <4>4, <4>5
    <3> QED BY <3>1, <3>2
  <2>7. Sooner(next', R!Kept'[s]) \in Nat
    BY <2>3, WaitIs, NoEntryIs
  <2> QED BY <1>4, <2>2, <2>3, <2>5, <2>6, <2>7, AmountsAre
<1>7. TokensLast(left)'
  BY <1>1, <1>6 DEF TokensLast
<1> QED BY <1>2, <1>5, <1>7 DEF RotationInv

\* A call of a pass takes its time: that failure costs a moment at least.
LEMMA SlowStep ==
  ASSUME NEW delay, NEW left, Tables(delay, left), RotationInv(delay, left), R!Slow
  PROVE  RotationInv(delay, left)'
<1>1. /\ rFaults < MaxRotationFaults /\ rFaults' = rFaults + 1 /\ R!Pass1
      /\ UNCHANGED <<role, live, fleetDelay, pass, reported>>
  BY DEF R!Slow, R!Fault
<1>2. RotationShape'
  <2>1. rFaults' \in 0..MaxRotationFaults
    BY <1>1, AmountsAre DEF RotationInv, RotationShape
  <2> QED BY <1>1, <2>1, PassedShape
<1>3. /\ delay[rFaults] \in Nat /\ delay[rFaults'] \in Nat /\ delay[rFaults] <= delay[rFaults']
      /\ left[rFaults] \in Nat /\ left[rFaults'] \in Nat /\ left[0] \in Nat
      /\ left[rFaults'] + 1 <= left[rFaults] /\ left[rFaults] <= left[0] /\ next \in Nat
      /\ pass.retryable \subseteq Rotating
  <2>1. /\ delay[rFaults] \in Nat /\ delay[rFaults] <= R!NextDelay(delay[rFaults])
        /\ R!Longest(delay[rFaults]) \in Nat \ {0}
    BY TablesAre, DelaysGrow DEF RotationInv
  <2>2. /\ delay[rFaults'] = R!NextDelay(delay[rFaults]) /\ left[rFaults'] \in Nat
        /\ left[rFaults] = left[rFaults'] + R!Longest(delay[rFaults])
        /\ delay[rFaults'] \in Nat /\ left[rFaults] \in Nat /\ left[0] \in Nat
    BY <1>1, TablesAre, DelaysGrow DEF RotationInv
  <2>3. left[rFaults] <= left[0] /\ next \in Nat /\ pass.retryable \subseteq Rotating
    BY DEF RotationInv, DelaysEarned, RotationShape, RoundsOf
  <2> QED BY <2>1, <2>2, <2>3
<1>4. next' \in Nat /\ next' <= next
  BY <1>1, <1>3 DEF R!Pass1, R!Monus
<1>5. DelaysEarned(delay, left)'
  <2>1. next' + left[rFaults'] <= Interval + left[0] /\ left[rFaults'] <= left[0]
    BY <1>3, <1>4, AmountsAre DEF RotationInv, DelaysEarned
  <2>2. fleetDelay <= delay[rFaults']
    BY <1>3, AmountsAre DEF RotationInv, RotationShape, DelaysEarned
  <2>3. ASSUME NEW s \in Rotating, role[s] = "well"
        PROVE  pending'[s].delay <= delay[rFaults']
    <3>1. pending'[s].delay = pending[s].delay /\ pending[s].delay \in Nat
      BY <1>1, PassedMoment, RotationNow, AmountsAre DEF Entries
    <3> QED BY <1>3, <2>3, <3>1 DEF RotationInv, DelaysEarned
  <2>4. ASSUME NEW s \in pass.retryable, role[s] = "well"
        PROVE  /\ R!NextDelay(R!Kept'[s].delay) <= delay[rFaults']
               /\ R!Longest(R!Kept'[s].delay) + left[rFaults'] <= left[0]
    <3>1. R!Kept'[s].delay = R!Kept[s].delay
      BY <1>1, <1>3, PassedMoment
    <3>2. R!NextDelay(R!Kept[s].delay) \in Nat /\ R!Longest(R!Kept[s].delay) \in Nat
      BY <1>3, RotationNow, DelaysGrow
    <3>3. /\ R!NextDelay(R!Kept[s].delay) <= delay[rFaults]
          /\ R!Longest(R!Kept[s].delay) + left[rFaults] <= left[0]
      BY <2>4 DEF RotationInv, DelaysEarned
    <3> QED BY <1>3, <3>1, <3>2, <3>3
  <2> QED BY <1>1, <2>1, <2>2, <2>3, <2>4 DEF DelaysEarned
<1>6. ASSUME NEW s \in live, role[s] = "well"
      PROVE  age'[s] + Wait(pass, R!Kept', next', s) + left[rFaults'] <= Interval + left[0]
  <2>1. s \in Rotating
    BY DEF RotationInv, RotationShape
  <2>2. /\ Wait(pass, R!Kept, next, s) \in Nat /\ age[s] \in Nat /\ R!Kept[s] \in Entries
        /\ age[s] + Wait(pass, R!Kept, next, s) + left[rFaults] <= Interval + left[0]
        /\ pending[s] \in Entries /\ pending[s].due \in Nat
        /\ R!Kept[s].delay \in Initial..Interval
    BY <1>6, <2>1, RotationNow, DelaysGrow DEF Entries
  <2>3. /\ next' = IF next <= 1 THEN 0 ELSE next - 1
        /\ age'[s] \in Nat /\ age'[s] <= age[s] + 1
        /\ pending'[s] \in Entries /\ pending'[s].in = pending[s].in
        /\ pending'[s].due = IF pending[s].due <= 1 THEN 0 ELSE pending[s].due - 1
        /\ R!Kept'[s] = IF R!Kept[s] = R!NoEntry THEN R!NoEntry ELSE pending'[s]
        /\ R!Kept'[s].delay = R!Kept[s].delay
    BY <1>1, <2>1, PassedMoment, AmountsAre
  <2>4. pending'[s].due \in Nat
    BY <2>2, <2>3
  <2>5. /\ Sooner(next', R!Kept'[s]) \in Nat /\ Sooner(next, R!Kept[s]) \in Nat
        /\ Sooner(next', R!Kept'[s]) <= Sooner(next, R!Kept[s])
    <3>1. Sooner(next', R!Kept'[s]) \in Nat /\ Sooner(next, R!Kept[s]) \in Nat
      BY <1>3, <1>4, <2>2, <2>3, WaitIs, NoEntryIs
    <3>2. CASE R!Kept[s] = R!NoEntry
      <4>1. Sooner(next, R!Kept[s]) = next /\ Sooner(next', R!Kept'[s]) = next'
        BY <2>3, <3>2, NoEntryIs, Zenon DEF Sooner
      <4> QED BY <1>4, <3>1, <4>1
    <3>3. CASE R!Kept[s] # R!NoEntry
      <4>1. R!Kept[s] = pending[s]
        BY <2>1, <3>3, KeptIs DEF RotationInv
      <4> QED BY <1>3, <1>4, <2>2, <2>3, <2>4, <3>1, <3>3, <4>1, SoonerPasses
    <3> QED BY <3>1, <3>2, <3>3
  <2>6. /\ Wait(pass, R!Kept', next', s) \in Nat
        /\ Wait(pass, R!Kept', next', s) <= Wait(pass, R!Kept, next, s)
    <3>1. CASE s \in pass.todo
      BY <3>1 DEF Wait
    <3>2. CASE s \notin pass.todo /\ s \in pass.retryable
      <4>1. /\ Wait(pass, R!Kept', next', s) = R!Longest(R!Kept[s].delay)
            /\ Wait(pass, R!Kept, next, s) = R!Longest(R!Kept[s].delay)
        BY <2>3, <3>2 DEF Wait
      <4> QED BY <2>2, <4>1
    <3>3. CASE s \notin pass.todo /\ s \notin pass.retryable
      <4>1. /\ Wait(pass, R!Kept', next', s) = Sooner(next', R!Kept'[s])
            /\ Wait(pass, R!Kept, next, s) = Sooner(next, R!Kept[s])
        BY <3>3 DEF Wait
      <4> QED BY <2>5, <4>1
    <3> QED BY <3>1, <3>2, <3>3
  <2> QED BY <1>3, <2>2, <2>3, <2>6, AmountsAre
<1>7. TokensLast(left)'
  BY <1>1, <1>6 DEF TokensLast
<1> QED BY <1>2, <1>5, <1>7 DEF RotationInv

\* A session comes with a token of full life, and goes.
LEMMA FleetStep ==
  ASSUME NEW delay, NEW left, Tables(delay, left), RotationInv(delay, left),
         NEW s \in Rotating, R!Spawn(s) \/ R!End(s) \/ R!Revoke(s)
  PROVE  RotationInv(delay, left)'
<1>1. /\ UNCHANGED <<next, pending, fleetDelay, pass, rFaults>> /\ age' = [age EXCEPT ![s] = 0]
      /\ live' \subseteq live \cup {s} /\ reported' \subseteq reported \cup {s}
      /\ role' \in [Rotating -> {"well", "broken", "revoked"}]
      /\ \A t \in Rotating : role'[t] = "well" => role[t] = "well"
  BY DEF R!Spawn, R!End, R!Revoke, RotationInv, RotationShape
<1>2. RotationShape'
  BY <1>1, AmountsAre DEF RotationInv, RotationShape
<1>3. R!Kept' = R!Kept
  BY <1>1 DEF R!Kept
<1>4. DelaysEarned(delay, left)'
  <2>1. pass.retryable \subseteq Rotating
    BY DEF RotationInv, RotationShape, RoundsOf
  <2> QED BY <1>1, <1>3, <2>1 DEF RotationInv, DelaysEarned
<1>5. /\ left[rFaults] \in Nat /\ left[0] \in Nat
  BY TablesAre DEF RotationInv
<1>6. ASSUME NEW t \in live', role'[t] = "well"
      PROVE  age'[t] + Wait(pass, R!Kept, next, t) + left[rFaults] <= Interval + left[0]
  <2>1. t \in Rotating /\ role[t] = "well" /\ age[t] \in Nat
    BY <1>1, <1>6 DEF RotationInv, RotationShape
  <2>2. CASE t # s
    <3>1. t \in live /\ age'[t] = age[t]
      BY <1>1, <2>1, <2>2 DEF RotationInv, RotationShape
    <3> QED BY <2>1, <3>1 DEF RotationInv, TokensLast
  <2>3. CASE t = s
    <3>1. age'[t] = 0
      BY <1>1, <2>1, <2>3 DEF RotationInv, RotationShape
    <3>2. /\ R!Kept[t] \in Entries /\ R!Kept[t].delay \in Initial..Interval /\ next \in Nat
          /\ Wait(pass, R!Kept, next, t) \in Nat
      BY <2>1, RotationNow
    <3>3. Wait(pass, R!Kept, next, t) + left[rFaults] <= Interval + left[0]
      <4>1. left[rFaults] <= left[0] /\ next + left[rFaults] <= Interval + left[0]
        BY DEF RotationInv, DelaysEarned
      <4>2. CASE t \in pass.todo
        <5>1. Wait(pass, R!Kept, next, t) = 0
          BY <4>2 DEF Wait
        <5> QED BY <1>5, <4>1, <5>1, AmountsAre
      <4>3. CASE t \notin pass.todo /\ t \in pass.retryable
        <5>1. Wait(pass, R!Kept, next, t) = R!Longest(R!Kept[t].delay)
          BY <4>3 DEF Wait
        <5>2. R!Longest(R!Kept[t].delay) + left[rFaults] <= left[0]
          BY <2>1, <4>3 DEF RotationInv, DelaysEarned
        <5> QED BY <1>5, <3>2, <5>1, <5>2, AmountsAre
      <4>4. CASE t \notin pass.todo /\ t \notin pass.retryable
        <5>1. Wait(pass, R!Kept, next, t) = Sooner(next, R!Kept[t])
          BY <4>4 DEF Wait
        <5>2. Wait(pass, R!Kept, next, t) <= next
          BY <3>2, <5>1, WaitIs
        <5> QED BY <1>5, <3>2, <4>1, <5>2, AmountsAre
      <4> QED BY <4>2, <4>3, <4>4
    <3> QED BY <1>5, <3>1, <3>2, <3>3
  <2> QED BY <2>2, <2>3
<1>7. TokensLast(left)'
  BY <1>1, <1>3, <1>6 DEF TokensLast
<1> QED BY <1>2, <1>4, <1>7 DEF RotationInv

\* No step takes more of a token's life than is left.
LEMMA RotationStep ==
  ASSUME NEW delay, NEW left, Tables(delay, left), RotationInv(delay, left), R!Next
  PROVE  RotationInv(delay, left)'
<1>1. CASE R!StartSweep \/ R!StartRepair
  BY <1>1, BeginPassStep
<1>2. CASE R!ListFails
  BY <1>2, ListFailsStep
<1>3. CASE R!EndPass
  BY <1>3, EndPassStep
<1>4. CASE R!Tick
  BY <1>4, TickStep
<1>5. CASE R!Slow
  BY <1>5, SlowStep
<1>6. CASE R!Crash
  BY <1>6, CrashedStep
<1>7. ASSUME NEW s \in Rotating, R!RotateOne(s) \/ R!RotateFails(s)
      PROVE  RotationInv(delay, left)'
  BY <1>7, SettleStep
<1>8. ASSUME NEW s \in Rotating, R!Spawn(s) \/ R!End(s) \/ R!Revoke(s)
      PROVE  RotationInv(delay, left)'
  BY <1>8, FleetStep
<1> QED BY <1>1, <1>2, <1>3, <1>4, <1>5, <1>6, <1>7, <1>8 DEF R!Next

LEMMA RotationStill ==
  ASSUME NEW delay, NEW left, RotationInv(delay, left), UNCHANGED rotationVars
  PROVE  RotationInv(delay, left)'
<1>1. UNCHANGED <<role, age, live, next, pending, fleetDelay, pass, reported, rFaults>>
  BY DEF rotationVars
<1>2. R!Kept' = R!Kept
  BY <1>1 DEF R!Kept
<1> QED BY <1>1, <1>2 DEF RotationInv, RotationShape, DelaysEarned, TokensLast

\* No session that can be served ever holds an expired token, wherever as many
\* failures as MaxRotationFaults fall: in the list, a mint or a delivery, in the
\* process that rotates, or as a call that takes its time.
THEOREM RotationIsSafe == PartSpec => []RotationSafe
<1>1. PICK delay, left : Tables(delay, left)
  BY RotationAssumption DEF Tables
<1> DEFINE I == part = "rotation" => RotationInv(delay, left)
<1>2. PartInit => I
  BY <1>1, RotationStart DEF PartInit
<1>3. I /\ [PartNext]_allVars => I'
  <2> SUFFICES ASSUME I, [PartNext]_allVars PROVE I'
    OBVIOUS
  <2>1. CASE part = "rotation" /\ R!Next /\ UNCHANGED <<part, sandboxVars>>
    BY <1>1, <2>1, RotationStep
  <2>2. CASE part = "sandbox" /\ UNCHANGED part
    BY <2>2
  <2>3. CASE UNCHANGED <<part, rotationVars>>
    <3>1. UNCHANGED part /\ UNCHANGED rotationVars
      BY <2>3
    <3> QED BY <1>1, <3>1, RotationStill
  <2>4. CASE UNCHANGED allVars
    BY <2>3, <2>4 DEF allVars
  <2> QED BY <2>1, <2>2, <2>3, <2>4 DEF PartNext
<1>4. I => RotationSafe
  BY <1>1, RotationInvGives DEF RotationSafe
<1> QED BY <1>2, <1>3, <1>4, PTL DEF PartSpec

\* A behaviour of the composition is one of the delivery, moving or at rest: both
\* promises hold of whatever a session's credentials do.
THEOREM SessionsAreSafe == PartSpec => [](CredsSafe /\ RotationSafe)
<1>1. PartInit => Init
  BY DEF PartInit
<1>2. [PartNext]_allVars => [Next]_vars
  BY DEF PartNext, allVars, sandboxVars, vars
<1> QED BY <1>1, <1>2, CredsAreSafe, RotationIsSafe, PTL DEF PartSpec, Spec

-----------------------------------------------------------------------------
(* The log collector                                                        *)

ReportOf(k) == Logs[k].Reports \X (1..Logs[k].MaxWrites)
MemOf(k) ==
  [final : BOOLEAN, ticked : BOOLEAN, offset : 0..Logs[k].MaxHalves, buf : [L(k)!Lines -> Nat],
   ext : Nat, seen : [Logs[k].Reports -> 0..Logs[k].MaxWrites], total : 0..Logs[k].MaxTotal,
   pending : Seq(ReportOf(k)), left : Nat, once : BOOLEAN, latestOk : BOOLEAN, sent : BOOLEAN]
StoreOf(k) ==
  [latest : BundleOf(k) \cup {None}, runs : [1..Logs[k].MaxRuns -> BundleOf(k) \cup {None}],
   index : [1..Logs[k].MaxRuns -> {"absent", "open", "ended"}],
   objects : [Logs[k].Reports -> 0..Logs[k].MaxWrites], health : SUBSET ReportOf(k)]
LogPlaces == {"loop", "flush", "latest", "run", "index", "publish", "entry", "finalize", "done", "dead"}

LogShape(k) ==
  /\ lRun \in 1..Logs[k].MaxRuns /\ lStorage \in BOOLEAN /\ lEngine \in BOOLEAN
  /\ lPc \in LogPlaces /\ lFaults \in 0..Logs[k].MaxFaults
  /\ lTee \in 0..Logs[k].MaxTee /\ lChan \in Seq({0} \X (1..Logs[k].MaxTee))
  /\ lFile \in [gen : 1..Logs[k].MaxGens, len : 0..Logs[k].MaxHalves]
  /\ lReports \in [Logs[k].Reports -> 0..Logs[k].MaxWrites]
  /\ lCopies \in [Logs[k].Reports -> 0..Logs[k].MaxWrites]
  /\ lDisk \in [L(k)!Lines -> Nat] /\ lMem \in MemOf(k) /\ lStore \in StoreOf(k)

\* The queues and the index keep their caps, and the index has an entry of a report once.
LogCaps(k) ==
  /\ Len(lChan) <= Logs[k].ChannelCapacity
  /\ Len(lMem.pending) <= Logs[k].MaxIndexEntries /\ lMem.left <= Len(lMem.pending)
  /\ Cardinality(lStore.health) <= Logs[k].MaxIndexEntries
  /\ \A g, h \in lStore.health : g[1] = h[1] => g = h

\* Where the thread is, and what it has behind it.
LogWhere(k) ==
  /\ lMem.final = TRUE => lPc \notin {"loop", "dead"} /\ lEngine = FALSE /\ lChan = <<>>
  /\ lPc \in {"flush", "finalize", "done"} => lMem.final = TRUE
  /\ lPc = "dead" => lEngine = FALSE /\ lChan = <<>> /\ lMem = L(k)!FreshMem
  /\ lPc \in {"index", "finalize"} => lMem.once = TRUE
  /\ lMem.once = TRUE => lStore.runs[lRun] # None
  /\ lPc = "entry" => lMem.left > 0 /\ lStore.objects[Head(lMem.pending)[1]] # 0
  /\ \A n \in 1..Logs[k].MaxRuns : lStore.index[n] # "absent" => lStore.runs[n] # None
  /\ \A g \in lStore.health : lStore.objects[g[1]] # 0

\* The lines this run may still meet have not been met by it: those of the tee that
\* are in the channel or to come, those of the file behind the cursor, and those of
\* a generation to come.
LogLines(k) ==
  /\ \A l \in L(k)!Lines : lDisk[l] + lMem.buf[l] <= lRun
  /\ \A i \in 1..Len(lChan) : lChan[i][2] <= lTee /\ lDisk[lChan[i]] + lMem.buf[lChan[i]] = 0
  /\ \A i, j \in 1..Len(lChan) : lChan[i] = lChan[j] => i = j
  /\ \A l \in L(k)!Lines : l[1] = 0 /\ lTee < l[2] => lDisk[l] + lMem.buf[l] = 0
  /\ \A l \in L(k)!Lines : lFile.gen < l[1] => lDisk[l] + lMem.buf[l] < lRun
  /\ lPc # "dead" /\ lMem.final = FALSE =>
       \A l \in L(k)!Lines : l[1] = lFile.gen /\ lDisk[l] + lMem.buf[l] = lRun =>
                               2 * l[2] <= lMem.offset /\ lMem.offset <= lFile.len

\* A log that was not truncated is held up to the cursor, and in the end as a whole.
LogHeld(k) ==
  lFile.gen = 1 =>
    /\ lMem.final = FALSE /\ lPc # "dead" =>
         /\ lMem.offset <= lFile.len
         /\ \A l \in L(k)!Lines : l[1] = 1 /\ 2 * l[2] <= lMem.offset => lDisk[l] + lMem.buf[l] > 0
    /\ lMem.final = TRUE =>
         \A l \in L(k)!Lines : l[1] = 1 /\ 2 * l[2] - 1 <= lFile.len => lDisk[l] + lMem.buf[l] > 0

\* What was acknowledged is the tree, as long as nothing is pending.
LogSent(k) ==
  /\ lPc \in {"latest", "run"} => ~L(k)!Pending(lMem) /\ lStorage = TRUE
  /\ lPc = "run" /\ lMem.latestOk = TRUE => lStore.latest = L(k)!Bundle
  /\ lMem.sent = TRUE =>
       /\ lStorage = TRUE
       /\ lPc \in {"index", "publish", "entry", "finalize", "done"} => ~L(k)!Pending(lMem)
       /\ lPc \notin {"latest", "run"} /\ ~L(k)!Pending(lMem) =>
            lStore.latest = L(k)!Bundle /\ lStore.runs[lRun] = L(k)!Bundle

LogInv(k) ==
  LogShape(k) /\ LogCaps(k) /\ LogWhere(k) /\ LogLines(k) /\ LogHeld(k) /\ LogSent(k)

Had(l) == lDisk[l] + lMem.buf[l]

LEMMA Halves ==
  ASSUME NEW n \in Nat
  PROVE  /\ (n + 1) \div 2 \in Nat
         /\ n % 2 = 1 => 2 * ((n + 1) \div 2) = n + 1
         /\ \A i \in Nat : n % 2 # 1 /\ 2 * i - 1 <= n => 2 * i <= n
         /\ \A i \in Nat : 2 * i - 1 <= n => 2 * i <= n \/ i = (n + 1) \div 2
OBVIOUS

LEMMA UpTo == \A n \in Nat : IsFiniteSet(1..n) /\ Cardinality(1..n) = n
<1> SUFFICES ASSUME NEW n \in Nat PROVE IsFiniteSet(1..n) /\ Cardinality(1..n) = n
  OBVIOUS
<1>1. 1 \in Int /\ n \in Int
  OBVIOUS
<1>2. IsFiniteSet(1..n) /\ Cardinality(1..n) = IF 1 > n THEN 0 ELSE n - 1 + 1
  BY <1>1, FS_Interval
<1> QED BY <1>2

LEMMA LineIs ==
  ASSUME NEW k \in DOMAIN Logs
  PROVE  /\ \A l \in L(k)!Lines : l[1] \in Nat /\ l[2] \in Nat \ {0} /\ l = <<l[1], l[2]>>
         /\ \A l \in {0} \X (1..Logs[k].MaxTee) : l \in L(k)!Lines /\ l[1] = 0
<1>1. (Logs[k].MaxHalves + 1) \div 2 \in Nat /\ Logs[k].MaxTee \in Nat /\ Logs[k].MaxGens \in Nat
  BY LogAssumption, Halves
<1> QED BY <1>1 DEF L!Lines

LEMMA LogNow ==
  ASSUME NEW k \in DOMAIN Logs, LogInv(k)
  PROVE  /\ LogShape(k) /\ LogCaps(k) /\ LogWhere(k) /\ LogLines(k) /\ LogHeld(k) /\ LogSent(k)
BY DEF LogInv

LEMMA MemFields ==
  ASSUME NEW k \in DOMAIN Logs, NEW m \in MemOf(k)
  PROVE  /\ m.final \in BOOLEAN /\ m.ticked \in BOOLEAN /\ m.offset \in 0..Logs[k].MaxHalves
         /\ m.buf \in [L(k)!Lines -> Nat] /\ m.ext \in Nat
         /\ m.seen \in [Logs[k].Reports -> 0..Logs[k].MaxWrites] /\ m.total \in 0..Logs[k].MaxTotal
         /\ m.pending \in Seq(ReportOf(k)) /\ m.left \in Nat /\ m.once \in BOOLEAN
         /\ m.latestOk \in BOOLEAN /\ m.sent \in BOOLEAN
BY DEF MemOf

LEMMA LogTypes ==
  ASSUME NEW k \in DOMAIN Logs, LogShape(k)
  PROVE  /\ lRun \in Nat \ {0} /\ lRun \in 1..Logs[k].MaxRuns /\ lTee \in Nat /\ lMem.offset \in Nat
         /\ lFile.gen \in Nat \ {0} /\ lFile.len \in Nat /\ lMem \in MemOf(k) /\ lStore \in StoreOf(k)
         /\ \A l \in L(k)!Lines : lDisk[l] \in Nat /\ lMem.buf[l] \in Nat
         /\ lMem.final \in BOOLEAN /\ lEngine \in BOOLEAN /\ lStorage \in BOOLEAN
         /\ lMem.once \in BOOLEAN /\ lMem.sent \in BOOLEAN /\ lMem.latestOk \in BOOLEAN
BY LogAssumption, MemFields DEF LogShape

LEMMA ChanLine ==
  ASSUME NEW k \in DOMAIN Logs, LogShape(k)
  PROVE  /\ lChan \in Seq({0} \X (1..Logs[k].MaxTee)) /\ Len(lChan) \in Nat
         /\ \A i \in 1..Len(lChan) : lChan[i] \in L(k)!Lines /\ lChan[i][1] = 0
<1>1. lChan \in Seq({0} \X (1..Logs[k].MaxTee)) /\ Len(lChan) \in Nat
  BY DEF LogShape
<1>2. \A i \in 1..Len(lChan) : lChan[i] \in {0} \X (1..Logs[k].MaxTee)
  BY <1>1
<1> QED BY <1>1, <1>2, LineIs

\* The collector at rest.
LEMMA FreshIs ==
  ASSUME NEW k \in DOMAIN Logs
  PROVE  /\ L(k)!FreshMem \in MemOf(k) /\ L(k)!FreshMem.final = FALSE /\ L(k)!FreshMem.offset = 0
         /\ L(k)!FreshMem.once = FALSE /\ L(k)!FreshMem.sent = FALSE /\ L(k)!FreshMem.latestOk = FALSE
         /\ L(k)!FreshMem.pending = <<>> /\ L(k)!FreshMem.left = 0
         /\ L(k)!FreshMem.buf = [l \in L(k)!Lines |-> 0]
<1>1. /\ 0 \in 0..Logs[k].MaxHalves /\ 0 \in 0..Logs[k].MaxTotal /\ 0 \in 0..Logs[k].MaxWrites
      /\ <<>> \in Seq(ReportOf(k))
  BY LogAssumption
<1>2. L(k)!NoLine = [l \in L(k)!Lines |-> 0] /\ L(k)!NoLine \in [L(k)!Lines -> Nat]
  BY DEF L!NoLine
<1>3. [r \in Logs[k].Reports |-> 0] \in [Logs[k].Reports -> 0..Logs[k].MaxWrites]
  BY <1>1
<1> QED BY <1>1, <1>2, <1>3 DEF L!FreshMem, MemOf

\* Steps that leave the lines where they are, or carry them from the buffers to the tree.
LEMMA LinesStay ==
  ASSUME NEW k \in DOMAIN Logs, LogInv(k), UNCHANGED <<lRun, lChan, lTee, lFile>>,
         \A l \in L(k)!Lines : lDisk'[l] + lMem'.buf[l] = lDisk[l] + lMem.buf[l],
         lMem'.final = lMem.final, lMem'.offset = lMem.offset, lPc # "dead"
  PROVE  LogLines(k)' /\ LogHeld(k)'
<1>1. \A i \in 1..Len(lChan) : lChan[i] \in L(k)!Lines
  BY LogNow, ChanLine
<1>2. LogLines(k)'
  BY <1>1, LogNow DEF LogLines
<1>3. LogHeld(k)'
  BY LogNow DEF LogHeld
<1> QED BY <1>2, <1>3

\* Steps of the engine leave the collector and the store alone.
LEMMA WhereStays ==
  ASSUME NEW k \in DOMAIN Logs, LogInv(k), UNCHANGED <<lRun, lPc, lStorage, lDisk, lCopies, lMem, lStore>>,
         lEngine = TRUE
  PROVE  LogWhere(k)' /\ LogSent(k)'
<1>1. lMem.final = FALSE /\ lPc # "dead"
  BY LogNow, LogTypes DEF LogWhere
<1>2. LogWhere(k)'
  BY <1>1, LogNow DEF LogWhere
<1>3. LogSent(k)'
  BY LogNow DEF LogSent, L!Pending, L!Bundle
<1> QED BY <1>2, <1>3

LEMMA TeeStep ==
  ASSUME NEW k \in DOMAIN Logs, LogInv(k), L(k)!Tee
  PROVE  LogInv(k)'
<1>0. LogShape(k) /\ LogLines(k) /\ LogHeld(k)
  BY LogNow
<1> DEFINE e == <<0, lTee + 1>>
<1>1. /\ lEngine = TRUE /\ lTee < Logs[k].MaxTee /\ lTee' = lTee + 1
      /\ lChan' = IF Len(lChan) < Logs[k].ChannelCapacity THEN Append(lChan, e) ELSE lChan
      /\ UNCHANGED <<lRun, lPc, lStorage, lEngine, lFile, lReports, lDisk, lCopies, lMem, lStore, lFaults>>
  BY LogNow, LogTypes DEF L!Tee
<1>2. /\ lChan \in Seq({0} \X (1..Logs[k].MaxTee)) /\ Len(lChan) \in Nat /\ lTee \in Nat
      /\ e \in {0} \X (1..Logs[k].MaxTee) /\ e \in L(k)!Lines /\ e[1] = 0 /\ e[2] = lTee + 1
      /\ \A i \in 1..Len(lChan) : lChan[i] \in L(k)!Lines /\ lChan[i][1] = 0
      /\ Logs[k].ChannelCapacity \in Nat /\ Logs[k].MaxTee \in Nat
  <2>1. e \in {0} \X (1..Logs[k].MaxTee) /\ e[1] = 0 /\ e[2] = lTee + 1
    BY <1>1, LogNow, LogTypes, LogAssumption
  <2> QED BY <2>1, LogNow, LogTypes, ChanLine, LineIs, LogAssumption
<1> HIDE DEF e
<1>3. /\ lChan' \in Seq({0} \X (1..Logs[k].MaxTee)) /\ Len(lChan') <= Logs[k].ChannelCapacity
      /\ \A i \in 1..Len(lChan') : (i \in 1..Len(lChan) /\ lChan'[i] = lChan[i])
                                   \/ (i = Len(lChan) + 1 /\ lChan'[i] = e)
  <2>1. CASE Len(lChan) < Logs[k].ChannelCapacity
    BY <1>1, <1>2, <2>1
  <2>2. CASE ~(Len(lChan) < Logs[k].ChannelCapacity)
    BY <1>1, <1>2, <2>2, LogNow DEF LogCaps
  <2> QED BY <2>1, <2>2
<1>4. LogShape(k)' /\ LogCaps(k)'
  BY <1>1, <1>2, <1>3, LogNow DEF LogShape, LogCaps
<1>5. LogWhere(k)' /\ LogSent(k)'
  BY <1>1, WhereStays
<1>6. LogHeld(k)'
  BY <1>1, <1>0 DEF LogHeld
<1>7. lDisk[e] + lMem.buf[e] = 0
  BY <1>2, <1>0 DEF LogLines
<1>8. \A i \in 1..Len(lChan) : lChan[i][2] <= lTee /\ lChan[i] # e /\ lChan[i][2] \in Nat
  BY <1>2, <1>0, LineIs DEF LogLines
<1>9. LogLines(k)'
  <2>1. \A i \in 1..Len(lChan') : lChan'[i][2] <= lTee' /\ lDisk'[lChan'[i]] + lMem'.buf[lChan'[i]] = 0
    BY <1>1, <1>2, <1>3, <1>7, <1>8, <1>0 DEF LogLines
  <2>2. \A i, j \in 1..Len(lChan') : lChan'[i] = lChan'[j] => i = j
    BY <1>3, <1>8, <1>0 DEF LogLines
  <2>3. \A l \in L(k)!Lines : l[1] = 0 /\ lTee' < l[2] => lDisk[l] + lMem.buf[l] = 0
    BY <1>1, <1>2, LineIs, <1>0 DEF LogLines
  <2> QED BY <1>1, <2>1, <2>2, <2>3, <1>0 DEF LogLines
<1> QED BY <1>4, <1>5, <1>6, <1>9 DEF LogInv

LEMMA WriteLogStep ==
  ASSUME NEW k \in DOMAIN Logs, LogInv(k), L(k)!WriteLog
  PROVE  LogInv(k)'
<1>0. LogShape(k) /\ LogLines(k) /\ LogHeld(k)
  BY LogNow
<1>1. /\ lEngine = TRUE /\ lFile.len < Logs[k].MaxHalves /\ lFile' = [lFile EXCEPT !.len = @ + 1]
      /\ UNCHANGED <<lRun, lPc, lStorage, lEngine, lTee, lChan, lReports, lDisk, lCopies, lMem, lStore, lFaults>>
  BY LogNow, LogTypes DEF L!WriteLog
<1>2. lFile \in [gen : 1..Logs[k].MaxGens, len : 0..Logs[k].MaxHalves] /\ Logs[k].MaxHalves \in Nat
  BY LogNow, LogAssumption DEF LogShape
<1>3. /\ lFile'.gen = lFile.gen /\ lFile'.len = lFile.len + 1
      /\ lFile' \in [gen : 1..Logs[k].MaxGens, len : 0..Logs[k].MaxHalves]
  BY <1>1, <1>2
<1>4. LogShape(k)' /\ LogCaps(k)'
  BY <1>1, <1>3, LogNow DEF LogShape, LogCaps
<1>5. LogWhere(k)' /\ LogSent(k)'
  BY <1>1, WhereStays
<1>6. lMem.final = FALSE /\ lPc # "dead" /\ lMem.offset \in Nat /\ lFile.len \in Nat
  BY <1>1, LogNow, LogTypes DEF LogWhere
<1>7. LogHeld(k)'
  BY <1>1, <1>3, <1>6, <1>0 DEF LogHeld
<1>8. LogLines(k)'
  BY <1>1, <1>3, <1>6, <1>0 DEF LogLines
<1> QED BY <1>4, <1>5, <1>7, <1>8 DEF LogInv

LEMMA TruncateStep ==
  ASSUME NEW k \in DOMAIN Logs, LogInv(k), L(k)!TruncateLog
  PROVE  LogInv(k)'
<1>0. LogShape(k) /\ LogLines(k) /\ LogHeld(k)
  BY LogNow
<1>1. /\ lEngine = TRUE /\ lFile.gen < Logs[k].MaxGens /\ lFile' = [gen |-> lFile.gen + 1, len |-> 0]
      /\ UNCHANGED <<lRun, lPc, lStorage, lEngine, lTee, lChan, lReports, lDisk, lCopies, lMem, lStore, lFaults>>
  BY LogNow, LogTypes DEF L!TruncateLog
<1>2. /\ lFile.gen \in 1..Logs[k].MaxGens /\ Logs[k].MaxHalves \in Nat /\ Logs[k].MaxGens \in Nat
      /\ lRun \in Nat
  BY LogNow, LogTypes, LogAssumption DEF LogShape
<1>3. /\ lFile'.gen = lFile.gen + 1 /\ lFile'.len = 0
      /\ lFile' \in [gen : 1..Logs[k].MaxGens, len : 0..Logs[k].MaxHalves]
  BY <1>1, <1>2
<1>4. LogShape(k)' /\ LogCaps(k)'
  BY <1>1, <1>3, LogNow DEF LogShape, LogCaps
<1>5. LogWhere(k)' /\ LogSent(k)'
  BY <1>1, WhereStays
<1>6. LogHeld(k)'
  BY <1>2, <1>3 DEF LogHeld
<1>7. \A l \in L(k)!Lines : lFile.gen < l[1] =>
        lDisk[l] + lMem.buf[l] < lRun /\ lDisk[l] + lMem.buf[l] \in Nat
  BY <1>0, LogTypes DEF LogLines
<1>8. LogLines(k)'
  <2>1. \A l \in L(k)!Lines : l[1] \in Nat /\ (lFile'.gen <= l[1] => lFile.gen < l[1])
    BY <1>2, <1>3, LineIs
  <2> QED BY <1>1, <1>2, <1>3, <1>7, <2>1, <1>0 DEF LogLines
<1> QED BY <1>4, <1>5, <1>6, <1>8 DEF LogInv

LEMMA WriteReportStep ==
  ASSUME NEW k \in DOMAIN Logs, LogInv(k), NEW r \in Logs[k].Reports, L(k)!WriteReport(r)
  PROVE  LogInv(k)'
<1> DEFINE Rep == Logs[k].Reports
           M == Logs[k].MaxWrites
           W == {w \in Rep \X (1..M) : w[2] <= lReports[w[1]]}
<1>1. /\ lEngine = TRUE /\ Cardinality(W) < M /\ lReports' = [lReports EXCEPT ![r] = @ + 1]
      /\ UNCHANGED <<lRun, lPc, lStorage, lEngine, lTee, lChan, lFile, lDisk, lCopies, lMem, lStore, lFaults>>
  BY LogNow, LogTypes DEF L!WriteReport, L!Writes, L!Cardinality, Cardinality
<1>2. lReports \in [Rep -> 0..M] /\ M \in Nat /\ IsFiniteSet(Rep)
  BY LogNow, LogAssumption DEF LogShape
<1>3. lReports[r] <= Cardinality(W) /\ Cardinality(W) \in Nat
  <2>1. IsFiniteSet(Rep \X (1..M)) /\ W \subseteq Rep \X (1..M)
    <3>1. IsFiniteSet(1..M)
      BY <1>2, UpTo
    <3> QED BY <1>2, <3>1, FS_Product
  <2>2. IsFiniteSet(W)
    BY <2>1, FS_Subset
  <2> DEFINE n == lReports[r]
             V == {r} \X (1..n)
  <2>3. n \in Nat /\ n <= M /\ \A i \in 1..n : i \in 1..M
    BY <1>2
  <2>4. IsFiniteSet({r}) /\ Cardinality({r}) = 1 /\ IsFiniteSet(1..n) /\ Cardinality(1..n) = n
    <3> HIDE DEF n
    <3> QED BY <2>3, FS_Singleton, UpTo
  <2>5. IsFiniteSet(V) /\ Cardinality(V) = n
    <3>1. IsFiniteSet(V) /\ Cardinality(V) = Cardinality({r}) * Cardinality(1..n)
      BY <2>4, FS_Product
    <3> QED BY <2>3, <2>4, <3>1
  <2>6. \A v \in V : v \in W
    <3> SUFFICES ASSUME NEW i \in 1..n PROVE <<r, i>> \in W
      OBVIOUS
    <3> QED BY <2>3
  <2>7. V \subseteq W
    BY <2>6
  <2> HIDE DEF W, V, n
  <2> QED BY <2>2, <2>5, <2>7, FS_Subset, FS_CardinalityType DEF n
<1> HIDE DEF W
<1>4. lReports' \in [Rep -> 0..M]
  <2>1. lReports[r] + 1 \in 0..M
    BY <1>1, <1>2, <1>3
  <2> QED BY <1>1, <1>2, <2>1
<1>5. LogShape(k)' /\ LogCaps(k)'
  BY <1>1, <1>4, LogNow DEF LogShape, LogCaps
<1>6. LogWhere(k)' /\ LogSent(k)'
  BY <1>1, WhereStays
<1>7. LogLines(k)' /\ LogHeld(k)'
  BY <1>1, LogNow DEF LogLines, LogHeld
<1> QED BY <1>5, <1>6, <1>7 DEF LogInv

LEMMA EngineExitsStep ==
  ASSUME NEW k \in DOMAIN Logs, LogInv(k), L(k)!EngineExits
  PROVE  LogInv(k)'
<1>1. /\ lEngine = TRUE /\ lEngine' = FALSE
      /\ UNCHANGED <<lRun, lPc, lStorage, lTee, lChan, lFile, lReports, lDisk, lCopies, lMem, lStore, lFaults>>
  BY LogNow, LogTypes DEF L!EngineExits
<1>2. LogShape(k)' /\ LogCaps(k)'
  BY <1>1, LogNow DEF LogShape, LogCaps
<1>3. LogWhere(k)' /\ LogSent(k)'
  BY <1>1, WhereStays
<1>4. LogLines(k)' /\ LogHeld(k)'
  BY <1>1, LogNow DEF LogLines, LogHeld
<1> QED BY <1>2, <1>3, <1>4 DEF LogInv

\* A finite part of a set, compared with another.
LEMMA SmallerSet ==
  ASSUME NEW V, IsFiniteSet(V), NEW U \in SUBSET V, NEW x \in V \ U
  PROVE  Cardinality(U) < Cardinality(V) /\ Cardinality(U) \in Nat /\ Cardinality(V) \in Nat
<1>1. Cardinality(U) <= Cardinality(V) /\ U # V /\ (Cardinality(V) = Cardinality(U) => V = U)
      /\ Cardinality(U) \in Nat /\ Cardinality(V) \in Nat
  BY FS_Subset, FS_CardinalityType
<1> QED BY <1>1

\* Members told apart by a number below n are at most n.
LEMMA NumberedFew ==
  ASSUME NEW T, NEW n \in Nat, NEW f \in [T -> 0..(n - 1)],
         \A x, y \in T : f[x] = f[y] => x = y
  PROVE  IsFiniteSet(T) /\ Cardinality(T) <= n /\ Cardinality(T) \in Nat
<1>1. IsFiniteSet(0..(n - 1)) /\ Cardinality(0..(n - 1)) = n
  <2>1. 0 \in Int /\ n - 1 \in Int
    OBVIOUS
  <2>2. IsFiniteSet(0..(n - 1)) /\ Cardinality(0..(n - 1)) = IF 0 > n - 1 THEN 0 ELSE n - 1 - 0 + 1
    BY <2>1, FS_Interval
  <2> QED BY <2>2
<1>2. f \in Injection(T, 0..(n - 1))
  BY DEF Injection, IsInjective
<1> QED BY <1>1, <1>2, FS_Injection, FS_CardinalityType

\* The i-th of a finite set of numbers.
LEMMA NthIs ==
  ASSUME NEW S1 \in SUBSET Nat, IsFiniteSet(S1), NEW i \in 1..Cardinality(S1)
  PROVE  \E r \in S1 : Cardinality({q \in S1 : q <= r}) = i
<1> DEFINE Up(r) == {q \in S1 : q <= r}
           f == [r \in S1 |-> Cardinality(Up(r))]
           n == Cardinality(S1)
<1>1. n \in Nat /\ IsFiniteSet(1..n) /\ Cardinality(1..n) = n
  BY FS_CardinalityType, UpTo
<1>2. \A r \in S1 : IsFiniteSet(Up(r)) /\ Cardinality(Up(r)) \in 1..n
  <2> SUFFICES ASSUME NEW r \in S1 PROVE IsFiniteSet(Up(r)) /\ Cardinality(Up(r)) \in 1..n
    OBVIOUS
  <2>1. IsFiniteSet(Up(r)) /\ Cardinality(Up(r)) <= n /\ Cardinality(Up(r)) \in Nat
    BY FS_Subset, FS_CardinalityType
  <2>2. r \in Up(r)
    OBVIOUS
  <2>3. Cardinality(Up(r)) # 0
    <3> HIDE DEF Up
    <3> QED BY <2>1, <2>2, FS_EmptySet
  <2> HIDE DEF Up, n
  <2> QED BY <1>1, <2>1, <2>3
<1>3. \A r, t \in S1 : r < t => Cardinality(Up(r)) < Cardinality(Up(t))
  <2> SUFFICES ASSUME NEW r \in S1, NEW t \in S1, r < t PROVE Cardinality(Up(r)) < Cardinality(Up(t))
    OBVIOUS
  <2>1. IsFiniteSet(Up(t)) /\ \A q \in S1 : q \in Nat
    <3> HIDE DEF Up
    <3> QED BY <1>2
  <2>2. Up(r) \subseteq Up(t) /\ t \in Up(t) \ Up(r)
    <3>1. r \in Nat /\ t \in Nat
      BY <2>1
    <3>2. ASSUME NEW q \in Up(r) PROVE q \in Up(t)
      BY <2>1, <3>1, <3>2
    <3>3. t \in Up(t) /\ t \notin Up(r)
      BY <3>1
    <3> QED BY <3>2, <3>3
  <2> HIDE DEF Up
  <2> QED BY <2>1, <2>2, SmallerSet
<1>4. \A r, t \in S1 : f[r] = f[t] => r = t
  <2> SUFFICES ASSUME NEW r \in S1, NEW t \in S1, f[r] = f[t] PROVE r = t
    OBVIOUS
  <2>1. f[r] = Cardinality(Up(r)) /\ f[t] = Cardinality(Up(t)) /\ Cardinality(Up(r)) \in 1..n
    BY <1>2
  <2>2. Cardinality(Up(r)) = Cardinality(Up(t)) /\ Cardinality(Up(r)) \in Nat
    BY <2>1
  <2> HIDE DEF Up, f, n
  <2>3. ~(Cardinality(Up(r)) < Cardinality(Up(t))) /\ ~(Cardinality(Up(t)) < Cardinality(Up(r)))
    BY <2>2
  <2>4. ~(r < t) /\ ~(t < r)
    BY <1>3, <2>3
  <2> QED BY <2>4
<1>5. f \in Injection(S1, 1..n)
  BY <1>2, <1>4 DEF Injection, IsInjective
<1>6. f \in Surjection(S1, 1..n)
  <2> HIDE DEF f
  <2> QED BY <1>1, <1>5, FS_Injection
<1>7. PICK r \in S1 : f[r] = i
  BY <1>6 DEF Surjection
<1> QED BY <1>7

\* Those of a set that a budget admits in their order fit into it.
LEMMA BudgetHolds ==
  ASSUME NEW S1 \in SUBSET Nat, IsFiniteSet(S1), NEW M \in Nat, NEW t \in 0..M
  PROVE  LET got == {r \in S1 : t + Cardinality({q \in S1 : q < r}) < M}
         IN  IsFiniteSet(got) /\ Cardinality(got) \in Nat /\ t + Cardinality(got) <= M
<1> DEFINE Under(r) == {q \in S1 : q < r}
           got == {r \in S1 : t + Cardinality(Under(r)) < M}
           f == [r \in got |-> Cardinality(Under(r))]
<1>1. \A r \in S1 : IsFiniteSet(Under(r)) /\ Cardinality(Under(r)) \in Nat
  BY FS_Subset, FS_CardinalityType
<1>2. \A r, u \in S1 : r < u => Cardinality(Under(r)) < Cardinality(Under(u))
  <2> SUFFICES ASSUME NEW r \in S1, NEW u \in S1, r < u PROVE Cardinality(Under(r)) < Cardinality(Under(u))
    OBVIOUS
  <2>1. IsFiniteSet(Under(u)) /\ \A q \in S1 : q \in Nat
    <3> HIDE DEF Under
    <3> QED BY <1>1
  <2>2. Under(r) \subseteq Under(u) /\ r \in Under(u) \ Under(r)
    <3>1. r \in Nat /\ u \in Nat
      BY <2>1
    <3>2. ASSUME NEW q \in Under(r) PROVE q \in Under(u)
      BY <2>1, <3>1, <3>2
    <3>3. r \in Under(u) /\ r \notin Under(r)
      BY <3>1
    <3> QED BY <3>2, <3>3
  <2> HIDE DEF Under
  <2> QED BY <2>1, <2>2, SmallerSet
<1>3. \A r \in got : r \in S1 /\ r \in Nat /\ Cardinality(Under(r)) \in 0..((M - t) - 1)
  BY <1>1
<1>4. f \in [got -> 0..((M - t) - 1)]
  BY <1>3
<1>5. \A r, u \in got : f[r] = f[u] => r = u
  <2> SUFFICES ASSUME NEW r \in got, NEW u \in got, f[r] = f[u] PROVE r = u
    OBVIOUS
  <2>1. /\ f[r] = Cardinality(Under(r)) /\ f[u] = Cardinality(Under(u)) /\ Cardinality(Under(r)) \in Nat
        /\ r \in S1 /\ u \in S1 /\ r \in Nat /\ u \in Nat
    BY <1>1
  <2>2. Cardinality(Under(r)) = Cardinality(Under(u))
    BY <2>1
  <2> HIDE DEF Under, f, got
  <2>3. ~(Cardinality(Under(r)) < Cardinality(Under(u))) /\ ~(Cardinality(Under(u)) < Cardinality(Under(r)))
    BY <2>1, <2>2
  <2>4. ~(r < u) /\ ~(u < r)
    BY <1>2, <2>1, <2>3
  <2> QED BY <2>1, <2>4
<1>6. M - t \in Nat
  OBVIOUS
<1>7. IsFiniteSet(got) /\ Cardinality(got) <= M - t /\ Cardinality(got) \in Nat
  <2> HIDE DEF got, f
  <2> QED BY <1>4, <1>5, <1>6, NumberedFew
<1>8. t + Cardinality(got) <= M
  <2> HIDE DEF got
  <2> QED BY <1>7
<1> QED BY <1>7, <1>8

Swept(k, m, bad) == L(k)!WithinBudget(m, L(k)!Fresh(m) \ bad)

LEMMA SweptIs ==
  ASSUME NEW k \in DOMAIN Logs, LogShape(k), NEW m \in MemOf(k), NEW bad
  PROVE  /\ Swept(k, m, bad) \subseteq Logs[k].Reports /\ IsFiniteSet(Swept(k, m, bad))
         /\ \A r \in Swept(k, m, bad) : lReports[r] \in 1..Logs[k].MaxWrites
         /\ Cardinality(Swept(k, m, bad)) \in Nat
         /\ m.total + Cardinality(Swept(k, m, bad)) \in 0..Logs[k].MaxTotal
<1> DEFINE S1 == L(k)!Fresh(m) \ bad
           T == Logs[k].MaxTotal
           got == {r \in S1 : m.total + Cardinality({q \in S1 : q < r}) < T}
<1>1. \A r \in S1 : r \in Logs[k].Reports /\ lReports[r] > 0
  BY DEF L!Fresh, L!WrittenReports
<1>2. S1 \in SUBSET Nat /\ S1 \subseteq Logs[k].Reports /\ IsFiniteSet(S1)
  BY <1>1, LogAssumption, FS_Subset
<1>3. T \in Nat /\ m.total \in 0..T
  BY LogAssumption, MemFields
<1>4. Swept(k, m, bad) = got
  BY DEF Swept, L!WithinBudget, L!Cardinality, Cardinality
<1>5. IsFiniteSet(got) /\ Cardinality(got) \in Nat /\ m.total + Cardinality(got) <= T
  <2> HIDE DEF S1, T
  <2> QED BY <1>2, <1>3, BudgetHolds
<1>6. got \subseteq S1
  OBVIOUS
<1> HIDE DEF got, S1
<1>7. \A r \in got : lReports[r] \in 1..Logs[k].MaxWrites
  <2>1. lReports \in [Logs[k].Reports -> 0..Logs[k].MaxWrites] /\ Logs[k].MaxWrites \in Nat
    BY LogAssumption DEF LogShape
  <2> QED BY <1>1, <1>6, <2>1
<1>8. m.total + Cardinality(got) \in 0..T
  BY <1>3, <1>5
<1>9. got \subseteq Logs[k].Reports
  BY <1>2, <1>6
<1> QED BY <1>4, <1>5, <1>7, <1>8, <1>9

LEMMA InOrderIs ==
  ASSUME NEW k \in DOMAIN Logs, LogShape(k), NEW G \in SUBSET Logs[k].Reports, IsFiniteSet(G),
         \A r \in G : lReports[r] \in 1..Logs[k].MaxWrites
  PROVE  L(k)!InOrder(G) \in Seq(ReportOf(k)) /\ Len(L(k)!InOrder(G)) = Cardinality(G)
<1> DEFINE nth(i) == CHOOSE r \in G : Cardinality({q \in G : q <= r}) = i
           n == Cardinality(G)
           s == [i \in 1..n |-> <<nth(i), lReports[nth(i)]>>]
<1>1. L(k)!InOrder(G) = s
  BY DEF L!InOrder, L!Cardinality, Cardinality
<1>2. n \in Nat
  BY FS_CardinalityType
<1>3. G \in SUBSET Nat
  BY LogAssumption
<1>4. \A i \in 1..n : nth(i) \in G
  <2> SUFFICES ASSUME NEW i \in 1..n PROVE nth(i) \in G
    OBVIOUS
  <2>1. \E r \in G : Cardinality({q \in G : q <= r}) = i
    BY <1>3, NthIs
  <2> QED BY <2>1
<1>5. \A i \in 1..n : <<nth(i), lReports[nth(i)]>> \in ReportOf(k)
  <2> HIDE DEF nth, n
  <2> QED BY <1>4 DEF ReportOf
<1>6. s \in Seq(ReportOf(k)) /\ Len(s) = n
  <2>1. s \in [1..n -> ReportOf(k)]
    BY <1>5
  <2> HIDE DEF s, n
  <2> QED BY <1>2, <2>1
<1> HIDE DEF s, n
<1> QED BY <1>1, <1>6 DEF n

\* A sweep keeps the cap of the queue and the budget.
LEMMA SweepIs ==
  ASSUME NEW k \in DOMAIN Logs, LogShape(k), NEW m \in MemOf(k), NEW bad,
         Len(m.pending) <= Logs[k].MaxIndexEntries, m.left <= Len(m.pending)
  PROVE  LET c == L(k)!Sweep(m, bad)
         IN  /\ c \in MemOf(k) /\ c.final = m.final /\ c.offset = m.offset /\ c.buf = m.buf
             /\ c.once = m.once /\ c.sent = m.sent /\ c.latestOk = m.latestOk
             /\ c.ext = m.ext + Cardinality(Swept(k, m, bad))
             /\ Len(c.pending) <= Logs[k].MaxIndexEntries /\ c.left <= Len(c.pending)
<1> DEFINE c == L(k)!Sweep(m, bad)
           G == Swept(k, m, bad)
           a == L(k)!InOrder(G)
           q == m.pending \o a
           o == L(k)!Overflow(q)
           e == L(k)!Enqueue(q)
           X == Logs[k].MaxIndexEntries
<1>1. /\ G \subseteq Logs[k].Reports /\ IsFiniteSet(G) /\ Cardinality(G) \in Nat
      /\ m.total + Cardinality(G) \in 0..Logs[k].MaxTotal
      /\ a \in Seq(ReportOf(k)) /\ Len(a) = Cardinality(G)
  BY SweptIs, InOrderIs
<1>2. m.pending \in Seq(ReportOf(k)) /\ m.left \in Nat /\ m.ext \in Nat /\ X \in Nat
  BY MemFields, LogAssumption
<1>3. c = [m EXCEPT !.seen = lReports, !.total = m.total + Cardinality(G), !.ext = m.ext + Cardinality(G),
                    !.pending = e]
  BY DEF L!Sweep, Swept, L!Cardinality, Cardinality
<1> HIDE DEF G, a
<1>4. q \in Seq(ReportOf(k)) /\ Len(q) = Len(m.pending) + Len(a) /\ Len(q) \in Nat
      /\ Len(m.pending) \in Nat /\ Len(a) \in Nat
  <2>1. a \in Seq(ReportOf(k)) /\ m.pending \in Seq(ReportOf(k))
    BY <1>1, <1>2
  <2> HIDE DEF ReportOf
  <2> QED BY <2>1, ConcatProperties, LenProperties
<1>5. /\ Len(q) > X => o = Len(q) - X
      /\ ~(Len(q) > X) => o = 0
  BY DEF L!Overflow
<1>6. e = SubSeq(q, o + 1, Len(q))
  BY DEF L!Enqueue
<1> HIDE DEF q, o, e
<1>7. o \in Nat /\ o <= Len(q)
  BY <1>2, <1>4, <1>5
<1>8. e \in Seq(ReportOf(k)) /\ Len(e) = Len(q) - o
  <2>1. \A i \in (o + 1)..Len(q) : q[i] \in ReportOf(k)
    BY <1>4, <1>7
  <2> QED BY <1>4, <1>6, <1>7, <2>1, SubSeqProperties
<1>9. Len(e) <= X /\ m.left <= Len(e)
  BY <1>2, <1>4, <1>5, <1>8
<1>10. lReports \in [Logs[k].Reports -> 0..Logs[k].MaxWrites] /\ m.ext + Cardinality(G) \in Nat
  BY <1>1, <1>2 DEF LogShape
<1> HIDE DEF c
<1>11. /\ c.final = m.final /\ c.offset = m.offset /\ c.buf = m.buf /\ c.ext = m.ext + Cardinality(G)
       /\ c.once = m.once /\ c.sent = m.sent /\ c.latestOk = m.latestOk /\ c.left = m.left
       /\ c.pending = e
  BY <1>3 DEF MemOf
<1>12. c \in MemOf(k)
  BY <1>1, <1>3, <1>8, <1>10 DEF MemOf
<1> QED BY <1>9, <1>11, <1>12 DEF c, G

LEMMA AppendAllIs ==
  ASSUME NEW k \in DOMAIN Logs, NEW m \in MemOf(k), NEW S1
  PROVE  LET a == L(k)!AppendAll(m, S1)
         IN  /\ a \in MemOf(k) /\ a.final = m.final /\ a.offset = m.offset /\ a.ext = m.ext
             /\ a.seen = m.seen /\ a.total = m.total /\ a.pending = m.pending /\ a.left = m.left
             /\ a.once = m.once /\ a.sent = m.sent /\ a.latestOk = m.latestOk
             /\ \A l \in L(k)!Lines : a.buf[l] = m.buf[l] + (IF l \in S1 THEN 1 ELSE 0)
<1> DEFINE a == L(k)!AppendAll(m, S1)
           b == [l \in L(k)!Lines |-> IF l \in S1 THEN m.buf[l] + 1 ELSE m.buf[l]]
<1>1. a = [m EXCEPT !.buf = b]
  BY DEF L!AppendAll
<1>2. \A l \in L(k)!Lines : m.buf[l] \in Nat
  BY MemFields
<1>3. b \in [L(k)!Lines -> Nat] /\ \A l \in L(k)!Lines : b[l] = m.buf[l] + (IF l \in S1 THEN 1 ELSE 0)
  BY <1>2
<1> HIDE DEF a, b
<1>4. /\ a.final = m.final /\ a.offset = m.offset /\ a.ext = m.ext
      /\ a.seen = m.seen /\ a.total = m.total /\ a.pending = m.pending /\ a.left = m.left
      /\ a.once = m.once /\ a.sent = m.sent /\ a.latestOk = m.latestOk /\ a.buf = b
  BY <1>1 DEF MemOf
<1>5. a \in MemOf(k)
  BY <1>1, <1>3 DEF MemOf
<1> QED BY <1>3, <1>4, <1>5 DEF a

\* A poll in the loop takes what this run has not met, and all of it if the log was not truncated.
LEMMA PollIs ==
  ASSUME NEW k \in DOMAIN Logs, LogInv(k), lPc = "loop"
  PROVE  LET p == L(k)!Poll(lMem)
         IN  /\ p \in MemOf(k) /\ p.final = FALSE /\ p.offset = lFile.len /\ p.ext = lMem.ext
             /\ p.seen = lMem.seen /\ p.total = lMem.total
             /\ p.pending = lMem.pending /\ p.left = lMem.left
             /\ p.once = lMem.once /\ p.sent = lMem.sent /\ p.latestOk = lMem.latestOk
             /\ \A l \in L(k)!Lines : p.buf[l] \in Nat /\ lMem.buf[l] <= p.buf[l]
             /\ \A l \in L(k)!Lines : l[1] # lFile.gen => p.buf[l] = lMem.buf[l]
             /\ \A l \in L(k)!Lines : lDisk[l] + p.buf[l] <= lRun
             /\ \A l \in L(k)!Lines : l[1] = lFile.gen /\ lDisk[l] + p.buf[l] = lRun => 2 * l[2] <= lFile.len
             /\ lFile.gen = 1 =>
                  \A l \in L(k)!Lines : l[1] = 1 /\ 2 * l[2] <= lFile.len => lDisk[l] + p.buf[l] > 0
<1> DEFINE p == L(k)!Poll(lMem)
           from == L(k)!PollFrom(lMem)
           D == {l \in L(k)!Lines : l[1] = lFile.gen /\ from < 2 * l[2] /\ 2 * l[2] <= lFile.len}
           a == L(k)!AppendAll(lMem, D)
<1>0. LogShape(k) /\ LogLines(k) /\ LogHeld(k) /\ LogWhere(k)
  BY LogNow
<1>1. p = [a EXCEPT !.offset = lFile.len]
  BY DEF L!Poll
<1>2. /\ lMem \in MemOf(k) /\ lMem.final = FALSE /\ lMem.offset \in Nat /\ lFile.len \in 0..Logs[k].MaxHalves
      /\ lFile.len \in Nat /\ lRun \in Nat /\ lFile.gen \in Nat
      /\ \A l \in L(k)!Lines : lDisk[l] \in Nat /\ lMem.buf[l] \in Nat /\ l[2] \in Nat
  BY <1>0, LogTypes, LineIs DEF LogWhere, LogShape
<1>3. from = IF lFile.len < lMem.offset THEN 0 ELSE lMem.offset
  BY DEF L!PollFrom
<1> HIDE DEF from
<1>4. \A l \in L(k)!Lines : l \in D <=> l[1] = lFile.gen /\ from < 2 * l[2] /\ 2 * l[2] <= lFile.len
  OBVIOUS
<1> HIDE DEF D
<1>5. /\ a \in MemOf(k) /\ a.final = lMem.final /\ a.offset = lMem.offset /\ a.ext = lMem.ext
      /\ a.seen = lMem.seen /\ a.total = lMem.total
      /\ a.pending = lMem.pending /\ a.left = lMem.left
      /\ a.once = lMem.once /\ a.sent = lMem.sent /\ a.latestOk = lMem.latestOk
      /\ \A l \in L(k)!Lines : a.buf[l] = lMem.buf[l] + (IF l \in D THEN 1 ELSE 0)
  BY <1>2, AppendAllIs
<1> HIDE DEF a, p
<1>6. /\ p.final = a.final /\ p.offset = lFile.len /\ p.ext = a.ext /\ p.buf = a.buf
      /\ p.seen = a.seen /\ p.total = a.total
      /\ p.pending = a.pending /\ p.left = a.left /\ p.once = a.once /\ p.sent = a.sent
      /\ p.latestOk = a.latestOk
  BY <1>1, <1>5 DEF MemOf
<1>7. p \in MemOf(k)
  BY <1>1, <1>2, <1>5 DEF MemOf
<1>8. \A l \in L(k)!Lines : p.buf[l] = lMem.buf[l] + (IF l \in D THEN 1 ELSE 0)
  BY <1>5, <1>6
<1>9. \A l \in L(k)!Lines : l[1] = lFile.gen /\ lDisk[l] + lMem.buf[l] = lRun =>
         2 * l[2] <= lMem.offset /\ lMem.offset <= lFile.len
  BY <1>0, <1>2 DEF LogLines
<1>10. ASSUME NEW l \in L(k)!Lines
       PROVE  /\ p.buf[l] \in Nat /\ lMem.buf[l] <= p.buf[l]
              /\ l[1] # lFile.gen => p.buf[l] = lMem.buf[l]
              /\ lDisk[l] + p.buf[l] <= lRun
              /\ l[1] = lFile.gen /\ lDisk[l] + p.buf[l] = lRun => 2 * l[2] <= lFile.len
  <2>1. lDisk[l] + lMem.buf[l] <= lRun
    BY <1>0 DEF LogLines
  <2>2. CASE l \in D
    <3>1. p.buf[l] = lMem.buf[l] + 1 /\ l[1] = lFile.gen /\ from < 2 * l[2] /\ 2 * l[2] <= lFile.len
      BY <1>4, <1>8, <2>2
    <3>2. lDisk[l] + lMem.buf[l] # lRun
      BY <1>2, <1>3, <1>9, <3>1
    <3> QED BY <1>2, <2>1, <3>1, <3>2
  <2>3. CASE l \notin D
    <3>1. p.buf[l] = lMem.buf[l]
      BY <1>2, <1>8, <2>3
    <3> QED BY <1>2, <1>9, <2>1, <3>1
  <2> QED BY <2>2, <2>3
<1>11. ASSUME lFile.gen = 1, NEW l \in L(k)!Lines, l[1] = 1, 2 * l[2] <= lFile.len
       PROVE  lDisk[l] + p.buf[l] > 0
  <2>1. lMem.offset <= lFile.len /\ (2 * l[2] <= lMem.offset => lDisk[l] + lMem.buf[l] > 0)
    BY <1>0, <1>2, <1>11 DEF LogHeld
  <2>2. l \in D \/ 2 * l[2] <= lMem.offset
    BY <1>2, <1>3, <1>4, <1>11, <2>1
  <2> QED BY <1>2, <1>8, <2>1, <2>2
<1> QED BY <1>2, <1>5, <1>6, <1>7, <1>10, <1>11 DEF p

LEMMA RecvStep ==
  ASSUME NEW k \in DOMAIN Logs, LogInv(k), L(k)!Recv
  PROVE  LogInv(k)'
<1> DEFINE h == Head(lChan)
<1>0. LogShape(k) /\ LogCaps(k) /\ LogWhere(k) /\ LogLines(k) /\ LogHeld(k) /\ LogSent(k)
  BY LogNow
<1>1. /\ lPc = "loop" /\ lChan # <<>> /\ lMem' = L(k)!AppendAll(lMem, {h}) /\ lChan' = Tail(lChan)
      /\ UNCHANGED <<lRun, lPc, lStorage, lEngine, lTee, lFile, lReports, lDisk, lCopies, lStore, lFaults>>
  BY DEF L!Recv
<1>2. /\ lMem \in MemOf(k) /\ lMem.final = FALSE /\ lRun \in Nat \ {0} /\ lFile.gen \in Nat \ {0}
      /\ \A l \in L(k)!Lines : lDisk[l] \in Nat /\ lMem.buf[l] \in Nat /\ l[2] \in Nat
  BY <1>0, <1>1, LogTypes, LineIs DEF LogWhere
<1>3. /\ lMem' \in MemOf(k) /\ lMem'.final = lMem.final /\ lMem'.offset = lMem.offset /\ lMem'.ext = lMem.ext
      /\ lMem'.pending = lMem.pending /\ lMem'.left = lMem.left
      /\ lMem'.once = lMem.once /\ lMem'.sent = lMem.sent /\ lMem'.latestOk = lMem.latestOk
      /\ \A l \in L(k)!Lines : lMem'.buf[l] = lMem.buf[l] + (IF l \in {h} THEN 1 ELSE 0)
  BY <1>1, <1>2, AppendAllIs
<1>4. /\ lChan \in Seq({0} \X (1..Logs[k].MaxTee)) /\ Len(lChan) \in Nat
      /\ \A i \in 1..Len(lChan) : lChan[i] \in L(k)!Lines /\ lChan[i][1] = 0
  BY <1>0, ChanLine
<1>5. /\ Len(lChan) > 0 /\ lChan' \in Seq({0} \X (1..Logs[k].MaxTee)) /\ Len(lChan') = Len(lChan) - 1
      /\ h = lChan[1] /\ \A i \in 1..Len(lChan') : lChan'[i] = lChan[i + 1]
  <2> HIDE DEF h
  <2>1. Len(lChan) > 0
    BY <1>1, <1>4
  <2> QED BY <1>1, <1>4, <2>1 DEF h
<1>6. h \in L(k)!Lines /\ h[1] = 0 /\ lDisk[h] + lMem.buf[h] = 0 /\ h[2] <= lTee
  BY <1>0, <1>4, <1>5 DEF LogLines
<1> HIDE DEF h
<1>7. \A l \in L(k)!Lines : l # h => lMem'.buf[l] = lMem.buf[l]
  BY <1>2, <1>3
<1>8. lMem'.buf[h] = lMem.buf[h] + 1 /\ lDisk[h] + lMem'.buf[h] = 1 /\ lMem'.buf[h] \in Nat
  BY <1>2, <1>3, <1>6
<1>9. LogShape(k)' /\ LogCaps(k)'
  <2>1. Len(lChan') <= Logs[k].ChannelCapacity
    BY <1>0, <1>4, <1>5, LogAssumption DEF LogCaps
  <2>2. LogShape(k)'
    BY <1>0, <1>1, <1>3, <1>5 DEF LogShape
  <2> QED BY <1>0, <1>1, <1>3, <2>1, <2>2 DEF LogCaps
<1>10. LogWhere(k)'
  BY <1>0, <1>1, <1>2, <1>3 DEF LogWhere
<1>11. LogLines(k)'
  <2>1. \A l \in L(k)!Lines : lDisk[l] + lMem'.buf[l] <= lRun
    BY <1>0, <1>2, <1>7, <1>8 DEF LogLines
  <2>2. \A i \in 1..Len(lChan') : lChan'[i] \in L(k)!Lines /\ lChan'[i] # h /\ lChan'[i][2] <= lTee
                                  /\ lDisk[lChan'[i]] + lMem.buf[lChan'[i]] = 0
    <3> SUFFICES ASSUME NEW i \in 1..Len(lChan')
                 PROVE  lChan'[i] \in L(k)!Lines /\ lChan'[i] # h /\ lChan'[i][2] <= lTee
                        /\ lDisk[lChan'[i]] + lMem.buf[lChan'[i]] = 0
      OBVIOUS
    <3>1. lChan'[i] = lChan[i + 1] /\ i + 1 \in 1..Len(lChan) /\ 1 \in 1..Len(lChan) /\ i + 1 # 1
      <4>1. lChan'[i] = lChan[i + 1]
        BY <1>5
      <4>2. i \in 1..(Len(lChan) - 1) /\ Len(lChan) \in Nat
        BY <1>4, <1>5
      <4> QED BY <4>1, <4>2
    <3> QED BY <1>0, <1>4, <1>5, <3>1 DEF LogLines
  <2>3. \A i, j \in 1..Len(lChan') : lChan'[i] = lChan'[j] => i = j
    <3> SUFFICES ASSUME NEW i \in 1..Len(lChan'), NEW j \in 1..Len(lChan'), lChan'[i] = lChan'[j]
                 PROVE  i = j
      OBVIOUS
    <3>1. /\ lChan'[i] = lChan[i + 1] /\ i + 1 \in 1..Len(lChan)
          /\ lChan'[j] = lChan[j + 1] /\ j + 1 \in 1..Len(lChan)
      <4>1. \A n \in 1..Len(lChan') : lChan'[n] = lChan[n + 1] /\ n + 1 \in 1..Len(lChan)
        BY <1>4, <1>5
      <4> QED BY <4>1
    <3>2. i + 1 = j + 1
      BY <1>0, <3>1 DEF LogLines
    <3> QED BY <3>2
  <2>4. \A l \in L(k)!Lines : l[1] = 0 /\ lTee < l[2] => l # h
    BY <1>0, <1>6, LogTypes, LineIs
  <2>5. \A l \in L(k)!Lines : lFile.gen <= l[1] => l # h
    BY <1>2, <1>6
  <2>6. \A l \in L(k)!Lines : lFile.gen < l[1] => lDisk[l] + lMem'.buf[l] < lRun
    BY <1>0, <1>2, <1>7, <2>5, LineIs DEF LogLines
  <2>7. \A l \in L(k)!Lines : l[1] = lFile.gen /\ lDisk[l] + lMem'.buf[l] = lRun =>
           2 * l[2] <= lMem.offset /\ lMem.offset <= lFile.len
    <3>1. \A l \in L(k)!Lines : l[1] = lFile.gen => lMem'.buf[l] = lMem.buf[l]
      BY <1>2, <1>7, <2>5
    <3>2. \A l \in L(k)!Lines : l[1] = lFile.gen /\ lDisk[l] + lMem.buf[l] = lRun =>
             2 * l[2] <= lMem.offset /\ lMem.offset <= lFile.len
      BY <1>0, <1>1, <1>2 DEF LogLines
    <3> QED BY <3>1, <3>2
  <2>8. \A l \in L(k)!Lines : l[1] = 0 /\ lTee < l[2] => lDisk[l] + lMem'.buf[l] = 0
    BY <1>0, <1>7, <2>4 DEF LogLines
  <2>9. \A i \in 1..Len(lChan') : lChan'[i][2] <= lTee /\ lDisk[lChan'[i]] + lMem'.buf[lChan'[i]] = 0
    BY <1>7, <2>2
  <2> QED BY <1>1, <1>3, <2>1, <2>3, <2>6, <2>7, <2>8, <2>9 DEF LogLines
<1>12. LogHeld(k)'
  <2>1. \A l \in L(k)!Lines : l[1] = 1 => lMem'.buf[l] = lMem.buf[l]
    BY <1>6, <1>7
  <2> QED BY <1>0, <1>1, <1>2, <1>3, <2>1 DEF LogHeld
<1>13. LogSent(k)'
  <2>1. L(k)!Pending(lMem')
    <3>1. lMem'.buf # L(k)!NoLine
      BY <1>2, <1>6, <1>8 DEF L!NoLine
    <3> QED BY <3>1 DEF L!Pending
  <2> QED BY <1>0, <1>1, <1>3, <2>1 DEF LogSent
<1> QED BY <1>9, <1>10, <1>11, <1>12, <1>13 DEF LogInv

\* A poll and a sweep in the loop, whatever the thread does next.
LEMMA CaptureIs ==
  ASSUME NEW k \in DOMAIN Logs, LogInv(k), lPc = "loop", NEW bad
  PROVE  LET c == L(k)!Sweep(L(k)!Poll(lMem), bad)
         IN  /\ c \in MemOf(k) /\ c.final = FALSE /\ c.offset = lFile.len
             /\ Len(c.pending) <= Logs[k].MaxIndexEntries /\ c.left <= Len(c.pending)
             /\ c.once = lMem.once /\ c.sent = lMem.sent /\ c.latestOk = lMem.latestOk
             /\ c.ext = lMem.ext + Cardinality(Swept(k, lMem, bad))
             /\ c.buf = L(k)!Poll(lMem).buf
<1> DEFINE p == L(k)!Poll(lMem)
<1>1. LogShape(k) /\ LogCaps(k) /\ p \in MemOf(k) /\ p.pending = lMem.pending /\ p.left = lMem.left
      /\ p.final = FALSE /\ p.offset = lFile.len /\ p.ext = lMem.ext /\ p.seen = lMem.seen
      /\ p.total = lMem.total /\ p.once = lMem.once /\ p.sent = lMem.sent /\ p.latestOk = lMem.latestOk
  BY LogNow, PollIs
<1> HIDE DEF p
<1>2. Swept(k, p, bad) = Swept(k, lMem, bad)
  BY <1>1 DEF Swept, L!WithinBudget, L!Fresh
<1>3. Len(p.pending) <= Logs[k].MaxIndexEntries /\ p.left <= Len(p.pending)
  BY <1>1 DEF LogCaps
<1> DEFINE c == L(k)!Sweep(p, bad)
<1>4. /\ c \in MemOf(k) /\ c.final = p.final /\ c.offset = p.offset /\ c.buf = p.buf
      /\ c.once = p.once /\ c.sent = p.sent /\ c.latestOk = p.latestOk
      /\ c.ext = p.ext + Cardinality(Swept(k, p, bad))
      /\ Len(c.pending) <= Logs[k].MaxIndexEntries /\ c.left <= Len(c.pending)
  BY <1>1, <1>3, SweepIs
<1> HIDE DEF c
<1> QED BY <1>1, <1>2, <1>4 DEF c, p

LEMMA CopiesAre ==
  ASSUME NEW k \in DOMAIN Logs, LogShape(k), NEW bad
  PROVE  /\ L(k)!CopiesAfter(lMem, bad) \in [Logs[k].Reports -> 0..Logs[k].MaxWrites]
         /\ Cardinality(Swept(k, lMem, bad)) \in Nat
         /\ Cardinality(Swept(k, lMem, bad)) = 0 => L(k)!CopiesAfter(lMem, bad) = lCopies
<1> DEFINE G == Swept(k, lMem, bad)
<1>1. L(k)!CopiesAfter(lMem, bad) = [r \in Logs[k].Reports |-> IF r \in G THEN lReports[r] ELSE lCopies[r]]
  BY DEF L!CopiesAfter, Swept
<1>2. /\ lReports \in [Logs[k].Reports -> 0..Logs[k].MaxWrites]
      /\ lCopies \in [Logs[k].Reports -> 0..Logs[k].MaxWrites] /\ lMem \in MemOf(k)
  BY DEF LogShape
<1>3. IsFiniteSet(G) /\ Cardinality(G) \in Nat
  BY <1>2, SweptIs
<1> HIDE DEF G
<1>4. Cardinality(G) = 0 => G = {}
  BY <1>3, FS_EmptySet
<1> QED BY <1>1, <1>2, <1>3, <1>4 DEF G

\* What a capture in the loop leaves of what was acknowledged.
LEMMA CaptureKeepsSent ==
  ASSUME NEW k \in DOMAIN Logs, LogInv(k), lPc = "loop", NEW bad, lMem' \in MemOf(k),
         lMem'.sent = lMem.sent, lMem'.ext = lMem.ext + Cardinality(Swept(k, lMem, bad)),
         \A l \in L(k)!Lines : lMem.buf[l] <= lMem'.buf[l],
         lCopies' = L(k)!CopiesAfter(lMem, bad), UNCHANGED <<lRun, lStorage, lDisk, lStore>>,
         lPc' \in {"loop", "flush"}
  PROVE  LogSent(k)'
<1>1. LogShape(k) /\ LogSent(k) /\ lMem \in MemOf(k)
  BY LogNow, LogTypes
<1>2. SUFFICES ASSUME lMem.sent = TRUE, ~L(k)!Pending(lMem')
               PROVE  lStore.latest = L(k)!Bundle' /\ lStore.runs[lRun] = L(k)!Bundle'
  BY <1>1 DEF LogSent
<1>3. /\ lMem'.ext \in Nat /\ lMem.ext \in Nat /\ Cardinality(Swept(k, lMem, bad)) \in Nat
      /\ lMem.buf \in [L(k)!Lines -> Nat]
  BY <1>1, MemFields, CopiesAre
<1>4. lMem'.ext = 0 /\ lMem'.buf = [l \in L(k)!Lines |-> 0]
  BY <1>2, <1>3 DEF L!Pending, L!NoLine
<1>5. lMem.ext = 0 /\ Cardinality(Swept(k, lMem, bad)) = 0
  BY <1>3, <1>4
<1>6. lMem.buf = [l \in L(k)!Lines |-> 0]
  <2>1. \A l \in L(k)!Lines : lMem.buf[l] = 0
    BY <1>3, <1>4
  <2> QED BY <1>3, <2>1
<1>7. ~L(k)!Pending(lMem)
  BY <1>5, <1>6 DEF L!Pending, L!NoLine
<1>8. lCopies' = lCopies
  BY <1>1, <1>5, CopiesAre
<1>9. L(k)!Bundle' = L(k)!Bundle
  BY <1>8 DEF L!Bundle
<1> QED BY <1>1, <1>2, <1>7, <1>9 DEF LogSent

LEMMA CapturedLines ==
  ASSUME NEW k \in DOMAIN Logs, LogInv(k), lPc = "loop",
         UNCHANGED <<lRun, lDisk, lTee, lChan, lFile>>,
         \A l \in L(k)!Lines : l[1] # lFile.gen => lMem'.buf[l] = lMem.buf[l],
         \A l \in L(k)!Lines : lDisk[l] + lMem'.buf[l] <= lRun,
         lMem'.final = FALSE =>
           /\ lMem'.offset = lFile.len
           /\ \A l \in L(k)!Lines : l[1] = lFile.gen /\ lDisk[l] + lMem'.buf[l] = lRun => 2 * l[2] <= lFile.len
  PROVE  LogLines(k)'
<1>0. LogShape(k) /\ LogLines(k)
  BY LogNow
<1>1. lFile.gen \in Nat \ {0} /\ lFile.len \in Nat /\ \A l \in L(k)!Lines : l[1] \in Nat
  BY <1>0, LogTypes, LineIs
<1>2. \A l \in L(k)!Lines : l[1] = 0 \/ lFile.gen < l[1] => lMem'.buf[l] = lMem.buf[l]
  BY <1>1
<1>3. \A i \in 1..Len(lChan) : lChan[i] \in L(k)!Lines /\ lChan[i][1] = 0
  BY <1>0, ChanLine
<1>4. \A i \in 1..Len(lChan) : lChan[i][2] <= lTee /\ lDisk[lChan[i]] + lMem'.buf[lChan[i]] = 0
  BY <1>0, <1>2, <1>3 DEF LogLines
<1>5. \A l \in L(k)!Lines : l[1] = 0 /\ lTee < l[2] => lDisk[l] + lMem'.buf[l] = 0
  BY <1>0, <1>2 DEF LogLines
<1>6. \A l \in L(k)!Lines : lFile.gen < l[1] => lDisk[l] + lMem'.buf[l] < lRun
  BY <1>0, <1>2 DEF LogLines
<1>7. \A i, j \in 1..Len(lChan) : lChan[i] = lChan[j] => i = j
  BY <1>0 DEF LogLines
<1>8. lFile.len <= lFile.len
  BY <1>1
<1> QED BY <1>4, <1>5, <1>6, <1>7, <1>8 DEF LogLines

LEMMA LogTickStep ==
  ASSUME NEW k \in DOMAIN Logs, LogInv(k), NEW bad \in SUBSET Logs[k].Reports, L(k)!Tick(bad)
  PROVE  LogInv(k)'
<1> DEFINE p == L(k)!Poll(lMem)
           c == L(k)!Sweep(p, bad)
<1>0. LogShape(k) /\ LogCaps(k) /\ LogWhere(k) /\ LogLines(k) /\ LogHeld(k) /\ LogSent(k)
  BY LogNow
<1>1. /\ lPc = "loop" /\ lMem' = [c EXCEPT !.ticked = TRUE] /\ lCopies' = L(k)!CopiesAfter(lMem, bad)
      /\ lFaults + Cardinality(bad) <= Logs[k].MaxFaults /\ lFaults' = lFaults + Cardinality(bad)
      /\ UNCHANGED <<lRun, lPc, lStorage, lDisk, lStore, lEngine, lTee, lChan, lFile, lReports>>
  BY DEF L!Tick, L!Looping, L!World, L!Cardinality, Cardinality
<1>2. lFaults' \in 0..Logs[k].MaxFaults
  <2>1. Cardinality(bad) \in Nat
    BY LogAssumption, FS_Subset, FS_CardinalityType
  <2> QED BY <1>0, <1>1, <2>1, LogAssumption DEF LogShape
<1>3. /\ c \in MemOf(k) /\ c.final = FALSE /\ c.offset = lFile.len
      /\ Len(c.pending) <= Logs[k].MaxIndexEntries /\ c.left <= Len(c.pending)
      /\ c.once = lMem.once /\ c.sent = lMem.sent /\ c.latestOk = lMem.latestOk
      /\ c.ext = lMem.ext + Cardinality(Swept(k, lMem, bad)) /\ c.buf = p.buf
  BY <1>1, CaptureIs
<1>4. /\ \A l \in L(k)!Lines : p.buf[l] \in Nat /\ lMem.buf[l] <= p.buf[l]
      /\ \A l \in L(k)!Lines : l[1] # lFile.gen => p.buf[l] = lMem.buf[l]
      /\ \A l \in L(k)!Lines : lDisk[l] + p.buf[l] <= lRun
      /\ \A l \in L(k)!Lines : l[1] = lFile.gen /\ lDisk[l] + p.buf[l] = lRun => 2 * l[2] <= lFile.len
      /\ lFile.gen = 1 =>
           \A l \in L(k)!Lines : l[1] = 1 /\ 2 * l[2] <= lFile.len => lDisk[l] + p.buf[l] > 0
  BY <1>1, PollIs
<1> HIDE DEF c, p
<1>5. /\ lMem' \in MemOf(k) /\ lMem'.final = FALSE /\ lMem'.offset = lFile.len
      /\ lMem'.pending = c.pending /\ lMem'.left = c.left /\ lMem'.once = lMem.once
      /\ lMem'.sent = lMem.sent /\ lMem'.latestOk = lMem.latestOk /\ lMem'.ext = c.ext /\ lMem'.buf = p.buf
  BY <1>1, <1>3 DEF MemOf
<1>6. LogShape(k)'
  BY <1>0, <1>1, <1>2, <1>5, CopiesAre DEF LogShape
<1>7. LogCaps(k)'
  BY <1>0, <1>1, <1>3, <1>5 DEF LogCaps
<1>8. LogWhere(k)'
  BY <1>0, <1>1, <1>5 DEF LogWhere
<1>9. LogSent(k)'
  BY <1>1, <1>3, <1>4, <1>5, CaptureKeepsSent
<1>10. LogHeld(k)'
  BY <1>0, <1>1, <1>4, <1>5, LogTypes DEF LogHeld
<1>11. LogLines(k)'
  BY <1>0, <1>1, <1>4, <1>5, CapturedLines
<1> QED BY <1>6, <1>7, <1>8, <1>9, <1>10, <1>11 DEF LogInv

LEMMA FinishIs ==
  ASSUME NEW k \in DOMAIN Logs, NEW c \in MemOf(k)
  PROVE  LET f == L(k)!Finish(c)
         IN  /\ f \in MemOf(k) /\ f.offset = c.offset /\ f.ext = c.ext
             /\ f.pending = c.pending /\ f.left = c.left
             /\ f.once = c.once /\ f.sent = c.sent /\ f.latestOk = c.latestOk
             /\ \A l \in L(k)!Lines :
                  f.buf[l] = c.buf[l] + (IF c.offset % 2 = 1 /\ l = <<lFile.gen, (c.offset + 1) \div 2>>
                                         THEN 1 ELSE 0)
<1> DEFINE f == L(k)!Finish(c)
           x == <<lFile.gen, (c.offset + 1) \div 2>>
<1>1. f = IF c.offset % 2 = 1 THEN L(k)!AppendAll(c, {x} \cap L(k)!Lines) ELSE c
  BY DEF L!Finish
<1> HIDE DEF f, x
<1>2. CASE c.offset % 2 = 1
  <2>1. f = L(k)!AppendAll(c, {x} \cap L(k)!Lines)
    BY <1>1, <1>2
  <2>2. /\ f \in MemOf(k) /\ f.offset = c.offset /\ f.ext = c.ext
        /\ f.pending = c.pending /\ f.left = c.left
        /\ f.once = c.once /\ f.sent = c.sent /\ f.latestOk = c.latestOk
        /\ \A l \in L(k)!Lines : f.buf[l] = c.buf[l] + (IF l \in {x} \cap L(k)!Lines THEN 1 ELSE 0)
    BY <2>1, AppendAllIs
  <2>3. \A l \in L(k)!Lines : f.buf[l] = c.buf[l] + (IF l = x THEN 1 ELSE 0)
    BY <2>2
  <2> QED BY <1>2, <2>2, <2>3 DEF f, x
<1>3. CASE c.offset % 2 # 1
  <2>1. f = c /\ \A l \in L(k)!Lines : c.buf[l] = c.buf[l] + 0
    BY <1>1, <1>3, MemFields
  <2> QED BY <1>3, <2>1 DEF f
<1> QED BY <1>2, <1>3

LEMMA DisconnectedStep ==
  ASSUME NEW k \in DOMAIN Logs, LogInv(k), NEW bad \in SUBSET Logs[k].Reports, L(k)!Disconnected(bad)
  PROVE  LogInv(k)'
<1> DEFINE p == L(k)!Poll(lMem)
           c == L(k)!Sweep(p, bad)
           f == L(k)!Finish(c)
           x == <<lFile.gen, (lFile.len + 1) \div 2>>
<1>0. LogShape(k) /\ LogCaps(k) /\ LogWhere(k) /\ LogLines(k) /\ LogHeld(k) /\ LogSent(k)
  BY LogNow
<1>1. /\ lPc = "loop" /\ lMem' = [f EXCEPT !.final = TRUE] /\ lCopies' = L(k)!CopiesAfter(lMem, bad)
      /\ lFaults + Cardinality(bad) <= Logs[k].MaxFaults /\ lFaults' = lFaults + Cardinality(bad)
      /\ lPc' = "flush" /\ lEngine = FALSE /\ lChan = <<>>
      /\ UNCHANGED <<lRun, lStorage, lDisk, lStore, lEngine, lTee, lChan, lFile, lReports>>
  BY <1>0, LogTypes DEF L!Disconnected, L!World, L!Cardinality, Cardinality
<1>2. lFaults' \in 0..Logs[k].MaxFaults
  <2>1. Cardinality(bad) \in Nat
    BY LogAssumption, FS_Subset, FS_CardinalityType
  <2> QED BY <1>0, <1>1, <2>1, LogAssumption DEF LogShape
<1>3. /\ c \in MemOf(k) /\ c.final = FALSE /\ c.offset = lFile.len
      /\ Len(c.pending) <= Logs[k].MaxIndexEntries /\ c.left <= Len(c.pending)
      /\ c.once = lMem.once /\ c.sent = lMem.sent /\ c.latestOk = lMem.latestOk
      /\ c.ext = lMem.ext + Cardinality(Swept(k, lMem, bad)) /\ c.buf = p.buf
  BY <1>1, CaptureIs
<1>4. /\ \A l \in L(k)!Lines : p.buf[l] \in Nat /\ lMem.buf[l] <= p.buf[l]
      /\ \A l \in L(k)!Lines : l[1] # lFile.gen => p.buf[l] = lMem.buf[l]
      /\ \A l \in L(k)!Lines : lDisk[l] + p.buf[l] <= lRun
      /\ \A l \in L(k)!Lines : l[1] = lFile.gen /\ lDisk[l] + p.buf[l] = lRun => 2 * l[2] <= lFile.len
      /\ lFile.gen = 1 =>
           \A l \in L(k)!Lines : l[1] = 1 /\ 2 * l[2] <= lFile.len => lDisk[l] + p.buf[l] > 0
  BY <1>1, PollIs
<1> HIDE DEF c, p
<1>5. /\ f \in MemOf(k) /\ f.offset = c.offset /\ f.ext = c.ext
      /\ f.pending = c.pending /\ f.left = c.left
      /\ f.once = c.once /\ f.sent = c.sent /\ f.latestOk = c.latestOk
      /\ \A l \in L(k)!Lines : f.buf[l] = p.buf[l] + (IF lFile.len % 2 = 1 /\ l = x THEN 1 ELSE 0)
  BY <1>3, FinishIs
<1>6. /\ x[1] = lFile.gen /\ lFile.len \in Nat /\ lRun \in Nat /\ lFile.gen \in Nat
      /\ lFile.len % 2 = 1 => 2 * x[2] = lFile.len + 1
      /\ \A l \in L(k)!Lines : l[2] \in Nat /\ l[1] \in Nat /\ lDisk[l] \in Nat /\ lMem.buf[l] \in Nat
  BY <1>0, LogTypes, Halves, LineIs
<1>7. \A l \in L(k)!Lines : l[1] = lFile.gen /\ 2 * l[2] - 1 <= lFile.len =>
         2 * l[2] <= lFile.len \/ (lFile.len % 2 = 1 /\ l = x)
  <2> SUFFICES ASSUME NEW l \in L(k)!Lines, l[1] = lFile.gen, 2 * l[2] - 1 <= lFile.len,
                      ~(2 * l[2] <= lFile.len)
               PROVE  lFile.len % 2 = 1 /\ l = x
    OBVIOUS
  <2>1. l[2] \in Nat /\ l = <<l[1], l[2]>>
    BY LineIs
  <2>2. lFile.len % 2 = 1 /\ l[2] = (lFile.len + 1) \div 2
    BY <1>6, <2>1, Halves
  <2> QED BY <2>1, <2>2
<1> HIDE DEF f, x
<1>8. /\ lMem' \in MemOf(k) /\ lMem'.final = TRUE
      /\ lMem'.pending = c.pending /\ lMem'.left = c.left /\ lMem'.once = lMem.once
      /\ lMem'.sent = lMem.sent /\ lMem'.latestOk = lMem.latestOk /\ lMem'.ext = c.ext /\ lMem'.buf = f.buf
  BY <1>1, <1>3, <1>5 DEF MemOf
<1>9. LogShape(k)'
  BY <1>0, <1>1, <1>2, <1>8, CopiesAre DEF LogShape, LogPlaces
<1>10. LogCaps(k)'
  BY <1>0, <1>1, <1>3, <1>8 DEF LogCaps
<1>11. LogWhere(k)'
  BY <1>0, <1>1, <1>8 DEF LogWhere
<1>12. ASSUME NEW l \in L(k)!Lines
       PROVE  /\ lMem'.buf[l] \in Nat /\ p.buf[l] <= lMem'.buf[l] /\ lMem.buf[l] <= lMem'.buf[l]
              /\ l[1] # lFile.gen => lMem'.buf[l] = lMem.buf[l]
              /\ lDisk[l] + lMem'.buf[l] <= lRun
              /\ lFile.len % 2 = 1 /\ l = x => lMem'.buf[l] > 0
  <2>1. CASE lFile.len % 2 = 1 /\ l = x
    <3>1. lMem'.buf[l] = p.buf[l] + 1 /\ l[1] = lFile.gen /\ 2 * l[2] = lFile.len + 1
      BY <1>5, <1>6, <1>8, <2>1
    <3>2. lDisk[l] + p.buf[l] # lRun
      BY <1>4, <1>6, <3>1
    <3> QED BY <1>4, <1>6, <3>1, <3>2
  <2>2. CASE ~(lFile.len % 2 = 1 /\ l = x)
    <3>1. lMem'.buf[l] = p.buf[l]
      BY <1>4, <1>5, <1>8, <2>2
    <3> QED BY <1>4, <2>2, <3>1
  <2> QED BY <2>1, <2>2
<1>13. LogSent(k)'
  BY <1>1, <1>3, <1>8, <1>12, CaptureKeepsSent
<1>14. LogLines(k)'
  BY <1>1, <1>8, <1>12, CapturedLines
<1>15. ASSUME lFile.gen = 1, NEW l \in L(k)!Lines, l[1] = 1, 2 * l[2] - 1 <= lFile.len
       PROVE  lDisk[l] + lMem'.buf[l] > 0
  <2>1. CASE 2 * l[2] <= lFile.len
    BY <1>4, <1>6, <1>12, <1>15, <2>1
  <2>2. CASE lFile.len % 2 = 1 /\ l = x
    BY <1>6, <1>12, <2>2
  <2> QED BY <1>7, <1>15, <2>1, <2>2
<1>16. LogHeld(k)'
  BY <1>1, <1>8, <1>15 DEF LogHeld
<1> QED BY <1>9, <1>10, <1>11, <1>13, <1>14, <1>16 DEF LogInv

\* Publishing begins: the queue is what it was, or empty.
LEMMA PublishingIs ==
  ASSUME NEW k \in DOMAIN Logs, NEW m \in MemOf(k), Len(m.pending) <= Logs[k].MaxIndexEntries
  PROVE  LET a == L(k)!Publishing(m)
         IN  /\ a \in MemOf(k) /\ a.final = m.final /\ a.offset = m.offset /\ a.ext = m.ext
             /\ a.once = m.once /\ a.sent = m.sent /\ a.latestOk = m.latestOk /\ a.buf = m.buf
             /\ Len(a.pending) <= Logs[k].MaxIndexEntries /\ a.left <= Len(a.pending)
<1> DEFINE a == L(k)!Publishing(m)
           q == IF lStorage THEN m.pending ELSE <<>>
           n == IF lStorage THEN Len(m.pending) ELSE 0
<1>1. a = [m EXCEPT !.left = n, !.pending = q]
  BY DEF L!Publishing
<1>2. m.pending \in Seq(ReportOf(k)) /\ Len(m.pending) \in Nat /\ Logs[k].MaxIndexEntries \in Nat
  BY MemFields, LogAssumption
<1>3. q \in Seq(ReportOf(k)) /\ n \in Nat /\ n <= Len(q) /\ Len(q) <= Logs[k].MaxIndexEntries
  <2>1. CASE lStorage
    BY <1>2, <2>1
  <2>2. CASE ~lStorage
    BY <1>2, <2>2
  <2> QED BY <2>1, <2>2
<1> HIDE DEF a, q, n
<1>4. /\ a.final = m.final /\ a.offset = m.offset /\ a.ext = m.ext /\ a.left = n /\ a.pending = q
      /\ a.once = m.once /\ a.sent = m.sent /\ a.latestOk = m.latestOk /\ a.buf = m.buf
  BY <1>1 DEF MemOf
<1>5. a \in MemOf(k)
  BY <1>1, <1>3 DEF MemOf
<1> QED BY <1>3, <1>4, <1>5 DEF a

LEMMA FlushFailsStep ==
  ASSUME NEW k \in DOMAIN Logs, LogInv(k), NEW done, L(k)!FlushFails(done)
  PROVE  LogInv(k)'
<1> DEFINE b == L(k)!Unwritten(lMem, done)
           m == [lMem EXCEPT !.buf = b, !.ext = 1, !.ticked = FALSE, !.sent = FALSE]
           d == L(k)!Written(lMem, done)
<1>0. LogShape(k) /\ LogCaps(k) /\ LogWhere(k) /\ LogLines(k) /\ LogHeld(k) /\ LogSent(k)
  BY LogNow
<1>1. /\ lPc \in {"loop", "flush"} /\ lPc' = "publish" /\ lDisk' = d /\ lMem' = L(k)!Publishing(m)
      /\ lFaults < Logs[k].MaxFaults /\ lFaults' = lFaults + 1
      /\ UNCHANGED <<lCopies, lStore, lEngine, lTee, lChan, lFile, lReports, lRun, lStorage>>
  BY DEF L!FlushFails, L!FlushDue, L!Looping, L!World, L!Rest
<1>2. lMem \in MemOf(k) /\ lDisk \in [L(k)!Lines -> Nat] /\ lMem.buf \in [L(k)!Lines -> Nat]
      /\ lFaults' \in 0..Logs[k].MaxFaults
  BY <1>0, <1>1, MemFields, LogAssumption DEF LogShape
<1>3. /\ b \in [L(k)!Lines -> Nat] /\ d \in [L(k)!Lines -> Nat]
      /\ \A l \in L(k)!Lines : d[l] + b[l] = lDisk[l] + lMem.buf[l]
  <2>1. /\ b = [l \in L(k)!Lines |-> IF L(k)!Class(l) \in done THEN 0 ELSE lMem.buf[l]]
        /\ d = [l \in L(k)!Lines |-> lDisk[l] + IF L(k)!Class(l) \in done THEN lMem.buf[l] ELSE 0]
    BY DEF L!Unwritten, L!Written
  <2>2. \A l \in L(k)!Lines : lDisk[l] \in Nat /\ lMem.buf[l] \in Nat
    BY <1>2
  <2>3. ASSUME NEW l \in L(k)!Lines
        PROVE  b[l] \in Nat /\ d[l] \in Nat /\ d[l] + b[l] = lDisk[l] + lMem.buf[l]
    <3> HIDE DEF b, d
    <3> QED BY <2>1, <2>2
  <2> HIDE DEF b, d
  <2> QED BY <2>1, <2>3
<1> HIDE DEF b, d
<1>4. m \in MemOf(k) /\ m.buf = b /\ m.final = lMem.final /\ m.offset = lMem.offset /\ m.once = lMem.once
      /\ m.sent = FALSE /\ m.pending = lMem.pending
  BY <1>2, <1>3 DEF MemOf
<1> HIDE DEF m
<1>5. /\ lMem' \in MemOf(k) /\ lMem'.final = lMem.final /\ lMem'.offset = lMem.offset
      /\ lMem'.once = lMem.once /\ lMem'.sent = FALSE /\ lMem'.buf = b
      /\ Len(lMem'.pending) <= Logs[k].MaxIndexEntries /\ lMem'.left <= Len(lMem'.pending)
  BY <1>0, <1>1, <1>4, PublishingIs DEF LogCaps
<1>6. LogShape(k)'
  BY <1>0, <1>1, <1>2, <1>3, <1>5 DEF LogShape, LogPlaces
<1>7. LogCaps(k)'
  BY <1>0, <1>1, <1>5 DEF LogCaps
<1>8. LogWhere(k)'
  BY <1>0, <1>1, <1>5 DEF LogWhere
<1>9. LogLines(k)' /\ LogHeld(k)'
  BY <1>1, <1>3, <1>5, LinesStay
<1>10. LogSent(k)'
  BY <1>1, <1>5 DEF LogSent
<1> QED BY <1>6, <1>7, <1>8, <1>9, <1>10 DEF LogInv

LEMMA FlushStep ==
  ASSUME NEW k \in DOMAIN Logs, LogInv(k), NEW tar \in BOOLEAN, L(k)!Flush(tar)
  PROVE  LogInv(k)'
<1> DEFINE Z == [l \in L(k)!Lines |-> 0]
           m == [lMem EXCEPT !.buf = Z, !.ext = 0, !.ticked = FALSE]
           n == [m EXCEPT !.sent = m.sent /\ tar]
           d == [l \in L(k)!Lines |-> lDisk[l] + lMem.buf[l]]
<1>0. LogShape(k) /\ LogCaps(k) /\ LogWhere(k) /\ LogLines(k) /\ LogHeld(k) /\ LogSent(k)
  BY LogNow
<1>1. /\ lPc \in {"loop", "flush"} /\ lFaults' = IF tar THEN lFaults ELSE lFaults + 1
      /\ tar \/ lFaults < Logs[k].MaxFaults
      /\ UNCHANGED <<lCopies, lStore, lEngine, lTee, lChan, lFile, lReports, lRun, lStorage>>
  BY DEF L!Flush, L!FlushDue, L!Looping, L!World, L!Rest
<1>2. lDisk' = d
  <2>1. lDisk' = L(k)!Written(lMem, L(k)!Classes)
    BY DEF L!Flush
  <2>2. \A l \in L(k)!Lines : L(k)!Class(l) \in L(k)!Classes
    BY DEF L!Class, L!Classes
  <2> QED BY <2>1, <2>2 DEF L!Written
<1>3. IF L(k)!NothingToUpload(lMem) \/ ~tar
      THEN lPc' = "publish" /\ lMem' = L(k)!Publishing(n)
      ELSE lPc' = "latest" /\ lMem' = m
  BY DEF L!Flush, L!NoLine
<1>4. /\ lMem \in MemOf(k) /\ lDisk \in [L(k)!Lines -> Nat] /\ lMem.buf \in [L(k)!Lines -> Nat]
      /\ lMem.sent \in BOOLEAN /\ lStorage \in BOOLEAN /\ lFaults \in 0..Logs[k].MaxFaults
      /\ Logs[k].MaxFaults \in Nat
  BY <1>0, MemFields, LogAssumption DEF LogShape
<1>5. Z \in [L(k)!Lines -> Nat] /\ \A l \in L(k)!Lines : Z[l] = 0
  OBVIOUS
<1>6. d \in [L(k)!Lines -> Nat] /\ \A l \in L(k)!Lines : d[l] + 0 = lDisk[l] + lMem.buf[l]
  BY <1>4
<1> HIDE DEF Z, d
<1>7. m \in MemOf(k) /\ m.buf = Z /\ m.ext = 0 /\ m.final = lMem.final /\ m.offset = lMem.offset
      /\ m.once = lMem.once /\ m.sent = lMem.sent /\ m.pending = lMem.pending /\ m.left = lMem.left
  BY <1>4, <1>5 DEF MemOf
<1> HIDE DEF m
<1>8. n \in MemOf(k) /\ n.buf = Z /\ n.ext = 0 /\ n.final = lMem.final /\ n.offset = lMem.offset
      /\ n.once = lMem.once /\ n.sent = (lMem.sent /\ tar) /\ n.pending = lMem.pending
  <2>1. (m.sent /\ tar) \in BOOLEAN
    OBVIOUS
  <2> QED BY <1>7, <2>1 DEF MemOf
<1> HIDE DEF n
<1>9. /\ lMem' \in MemOf(k) /\ lMem'.final = lMem.final /\ lMem'.offset = lMem.offset
      /\ lMem'.once = lMem.once /\ lMem'.buf = Z /\ lMem'.ext = 0
      /\ Len(lMem'.pending) <= Logs[k].MaxIndexEntries /\ lMem'.left <= Len(lMem'.pending)
      /\ lPc' = "publish" => lMem'.sent = n.sent
      /\ lPc' = "latest" => lMem'.sent = lMem.sent
      /\ lPc' \in {"publish", "latest"}
  <2>1. CASE L(k)!NothingToUpload(lMem) \/ ~tar
    BY <1>0, <1>3, <1>8, <2>1, PublishingIs DEF LogCaps
  <2>2. CASE ~(L(k)!NothingToUpload(lMem) \/ ~tar)
    BY <1>0, <1>3, <1>7, <2>2 DEF LogCaps
  <2> QED BY <2>1, <2>2
<1>10. lFaults' \in 0..Logs[k].MaxFaults
  BY <1>1, <1>4
<1>11. LogShape(k)'
  BY <1>0, <1>1, <1>2, <1>6, <1>9, <1>10 DEF LogShape, LogPlaces
<1>12. LogCaps(k)'
  BY <1>0, <1>1, <1>9 DEF LogCaps
<1>13. LogWhere(k)'
  BY <1>0, <1>1, <1>9 DEF LogWhere
<1>14. LogLines(k)' /\ LogHeld(k)'
  BY <1>1, <1>2, <1>5, <1>6, <1>9, LinesStay
<1>15. ~L(k)!Pending(lMem')
  BY <1>9 DEF L!Pending, L!NoLine, Z
<1>16. ASSUME lPc' = "publish", lMem'.sent = TRUE
       PROVE  lStorage = TRUE /\ lStore.latest = L(k)!Bundle' /\ lStore.runs[lRun] = L(k)!Bundle'
  <2>1. lMem.sent = TRUE /\ tar = TRUE
    BY <1>4, <1>8, <1>9, <1>16
  <2>2. lStorage = TRUE
    BY <1>0, <2>1 DEF LogSent
  <2>3. L(k)!NothingToUpload(lMem)
    BY <1>3, <1>16, <2>1
  <2>4. ~L(k)!Pending(lMem)
    BY <2>2, <2>3 DEF L!NothingToUpload
  <2>5. \A l \in L(k)!Lines : lMem.buf[l] = 0
    BY <2>4 DEF L!Pending, L!NoLine
  <2>6. d = lDisk
    BY <1>4, <1>6, <2>5 DEF d
  <2>7. L(k)!Bundle' = L(k)!Bundle
    BY <1>1, <1>2, <2>6 DEF L!Bundle
  <2> QED BY <1>0, <1>1, <2>1, <2>2, <2>4, <2>7 DEF LogSent
<1>17. ASSUME lPc' = "latest" PROVE lStorage = TRUE
  BY <1>3, <1>4, <1>17 DEF L!NothingToUpload
<1>18. LogSent(k)'
  BY <1>1, <1>9, <1>15, <1>16, <1>17 DEF LogSent
<1> QED BY <1>11, <1>12, <1>13, <1>14, <1>18 DEF LogInv

LEMMA BundleIs ==
  ASSUME NEW k \in DOMAIN Logs, LogShape(k)
  PROVE  L(k)!Bundle \in BundleOf(k) /\ L(k)!Bundle # None
<1>1. L(k)!Bundle \in BundleOf(k)
  BY DEF L!Bundle, BundleOf, LogShape
<1> QED BY <1>1, LogAssumption

\* Steps that only talk to the store leave the tree and the lines alone.
LEMMA StoreFrame ==
  ASSUME NEW k \in DOMAIN Logs, LogInv(k), lPc # "dead",
         UNCHANGED <<lDisk, lCopies, lEngine, lTee, lChan, lFile, lReports, lRun, lStorage>>,
         lMem' \in MemOf(k), lStore' \in StoreOf(k), lPc' \in LogPlaces,
         lFaults' \in 0..Logs[k].MaxFaults,
         lMem'.buf = lMem.buf, lMem'.final = lMem.final, lMem'.offset = lMem.offset,
         Len(lMem'.pending) <= Logs[k].MaxIndexEntries, lMem'.left <= Len(lMem'.pending),
         Cardinality(lStore'.health) <= Logs[k].MaxIndexEntries,
         \A g, h \in lStore'.health : g[1] = h[1] => g = h,
         LogWhere(k)', LogSent(k)'
  PROVE  LogInv(k)'
<1>1. LogShape(k)'
  BY LogNow DEF LogShape
<1>2. LogCaps(k)'
  BY LogNow DEF LogCaps
<1>3. LogLines(k)' /\ LogHeld(k)'
  BY LinesStay
<1> QED BY <1>1, <1>2, <1>3 DEF LogInv

LEMMA CallIs ==
  ASSUME NEW k \in DOMAIN Logs, LogInv(k), NEW ok \in BOOLEAN, L(k)!Call(ok)
  PROVE  lFaults' \in 0..Logs[k].MaxFaults
<1>1. /\ lFaults \in 0..Logs[k].MaxFaults /\ Logs[k].MaxFaults \in Nat
      /\ ok \/ lFaults < Logs[k].MaxFaults
      /\ lFaults' = IF ok THEN lFaults ELSE lFaults + 1
  BY LogNow, LogAssumption DEF LogShape, L!Call
<1> QED BY <1>1

LEMMA PutLatestStep ==
  ASSUME NEW k \in DOMAIN Logs, LogInv(k), NEW ok \in BOOLEAN, L(k)!PutLatest(ok)
  PROVE  LogInv(k)'
<1>0. LogShape(k) /\ LogCaps(k) /\ LogWhere(k) /\ LogSent(k)
  BY LogNow
<1>1. /\ lPc = "latest" /\ lPc' = "run" /\ lMem' = [lMem EXCEPT !.latestOk = ok]
      /\ lStore' = IF ok THEN [lStore EXCEPT !.latest = L(k)!Bundle] ELSE lStore
      /\ UNCHANGED <<lDisk, lCopies, lEngine, lTee, lChan, lFile, lReports, lRun, lStorage>>
      /\ L(k)!Call(ok)
  BY DEF L!PutLatest, L!World, L!Rest
<1>2. lMem \in MemOf(k) /\ lStore \in StoreOf(k)
  BY <1>0, LogTypes
<1>3. /\ lMem' \in MemOf(k) /\ lMem'.latestOk = ok /\ lMem'.buf = lMem.buf /\ lMem'.final = lMem.final
      /\ lMem'.offset = lMem.offset /\ lMem'.pending = lMem.pending /\ lMem'.left = lMem.left
      /\ lMem'.once = lMem.once /\ lMem'.sent = lMem.sent /\ lMem'.ext = lMem.ext
  BY <1>1, <1>2 DEF MemOf
<1>4. /\ lStore' \in StoreOf(k) /\ lStore'.runs = lStore.runs /\ lStore'.index = lStore.index
      /\ lStore'.objects = lStore.objects /\ lStore'.health = lStore.health
      /\ ok = TRUE => lStore'.latest = L(k)!Bundle
  <2>1. L(k)!Bundle \in BundleOf(k)
    BY <1>0, BundleIs
  <2>2. CASE ok = TRUE
    <3>1. lStore' = [lStore EXCEPT !.latest = L(k)!Bundle]
      BY <1>1, <2>2
    <3> QED BY <1>2, <2>1, <3>1 DEF StoreOf
  <2>3. CASE ok = FALSE
    BY <1>1, <1>2, <2>3
  <2> QED BY <2>2, <2>3
<1>5. LogWhere(k)'
  BY <1>0, <1>1, <1>3, <1>4 DEF LogWhere
<1>6. L(k)!Bundle' = L(k)!Bundle /\ (L(k)!Pending(lMem') <=> L(k)!Pending(lMem))
  BY <1>1, <1>3 DEF L!Bundle, L!Pending
<1>7. LogSent(k)'
  BY <1>0, <1>1, <1>3, <1>4, <1>6 DEF LogSent
<1> QED BY <1>0, <1>1, <1>3, <1>4, <1>5, <1>7, CallIs, StoreFrame DEF LogCaps, LogPlaces

LEMMA PutRunStep ==
  ASSUME NEW k \in DOMAIN Logs, LogInv(k), NEW ok \in BOOLEAN, L(k)!PutRun(ok)
  PROVE  LogInv(k)'
<1> DEFINE done == ok /\ lMem.latestOk
           one == lMem.once \/ done
           m == [lMem EXCEPT !.once = one, !.sent = done, !.latestOk = FALSE]
<1>0. LogShape(k) /\ LogCaps(k) /\ LogWhere(k) /\ LogSent(k)
  BY LogNow
<1>1. /\ lPc = "run" /\ L(k)!Call(ok)
      /\ lStore' = IF ok THEN [lStore EXCEPT !.runs[lRun] = L(k)!Bundle] ELSE lStore
      /\ UNCHANGED <<lDisk, lCopies, lEngine, lTee, lChan, lFile, lReports, lRun, lStorage>>
  BY DEF L!PutRun, L!World, L!Rest
<1>2. IF done /\ ~lMem.once
      THEN lPc' = "index" /\ lMem' = m
      ELSE lPc' = "publish" /\ lMem' = L(k)!Publishing(m)
  BY DEF L!PutRun
<1>3. /\ lMem \in MemOf(k) /\ lStore \in StoreOf(k) /\ lRun \in 1..Logs[k].MaxRuns
      /\ lMem.once \in BOOLEAN /\ lMem.latestOk \in BOOLEAN
  BY <1>0, LogTypes
<1>4. /\ done \in BOOLEAN /\ one \in BOOLEAN
      /\ done = TRUE => ok = TRUE /\ lMem.latestOk = TRUE
      /\ one = TRUE => lMem.once = TRUE \/ done = TRUE
      /\ done = TRUE => one = TRUE
  BY <1>3
<1> HIDE DEF done, one
<1>5. /\ m \in MemOf(k) /\ m.once = one /\ m.sent = done /\ m.buf = lMem.buf /\ m.final = lMem.final
      /\ m.offset = lMem.offset /\ m.pending = lMem.pending /\ m.left = lMem.left /\ m.ext = lMem.ext
  BY <1>3, <1>4 DEF MemOf
<1> HIDE DEF m
<1>6. /\ lMem' \in MemOf(k) /\ lMem'.once = one /\ lMem'.sent = done /\ lMem'.buf = lMem.buf
      /\ lMem'.final = lMem.final /\ lMem'.offset = lMem.offset /\ lMem'.ext = lMem.ext
      /\ Len(lMem'.pending) <= Logs[k].MaxIndexEntries /\ lMem'.left <= Len(lMem'.pending)
      /\ lPc' \in {"index", "publish"} /\ (lPc' = "index" => done = TRUE)
  <2>1. CASE done /\ ~lMem.once
    BY <1>0, <1>2, <1>4, <1>5, <2>1 DEF LogCaps
  <2>2. CASE ~(done /\ ~lMem.once)
    BY <1>0, <1>2, <1>5, <2>2, PublishingIs DEF LogCaps
  <2> QED BY <2>1, <2>2
<1>7. /\ lStore' \in StoreOf(k) /\ lStore'.latest = lStore.latest /\ lStore'.index = lStore.index
      /\ lStore'.objects = lStore.objects /\ lStore'.health = lStore.health
      /\ ok = TRUE => lStore'.runs[lRun] = L(k)!Bundle
      /\ \A n \in 1..Logs[k].MaxRuns : lStore.runs[n] # None => lStore'.runs[n] # None
  <2>1. L(k)!Bundle \in BundleOf(k) /\ L(k)!Bundle # None
    BY <1>0, BundleIs
  <2>2. CASE ok = TRUE
    <3>1. lStore' = [lStore EXCEPT !.runs[lRun] = L(k)!Bundle]
      BY <1>1, <2>2
    <3> QED BY <1>3, <2>1, <3>1 DEF StoreOf
  <2>3. CASE ok = FALSE
    BY <1>1, <1>3, <2>3
  <2> QED BY <2>2, <2>3
<1>8. one = TRUE => lStore'.runs[lRun] # None
  BY <1>0, <1>3, <1>4, <1>7, BundleIs DEF LogWhere
<1>9. LogWhere(k)'
  BY <1>0, <1>1, <1>4, <1>6, <1>7, <1>8 DEF LogWhere
<1>10. L(k)!Bundle' = L(k)!Bundle /\ (L(k)!Pending(lMem') <=> L(k)!Pending(lMem))
  BY <1>1, <1>6 DEF L!Bundle, L!Pending
<1>11. LogSent(k)'
  BY <1>0, <1>1, <1>4, <1>6, <1>7, <1>10 DEF LogSent
<1> QED BY <1>0, <1>1, <1>6, <1>7, <1>9, <1>11, CallIs, StoreFrame DEF LogCaps, LogPlaces

LEMMA AddRunStep ==
  ASSUME NEW k \in DOMAIN Logs, LogInv(k), NEW ok \in BOOLEAN, L(k)!AddRunToIndex(ok)
  PROVE  LogInv(k)'
<1>0. LogShape(k) /\ LogCaps(k) /\ LogWhere(k) /\ LogSent(k)
  BY LogNow
<1>1. /\ lPc = "index" /\ L(k)!Call(ok) /\ lPc' = "publish" /\ lMem' = L(k)!Publishing(lMem)
      /\ lStore' = IF ok /\ lStore.index[lRun] = "absent"
                   THEN [lStore EXCEPT !.index[lRun] = "open"] ELSE lStore
      /\ UNCHANGED <<lDisk, lCopies, lEngine, lTee, lChan, lFile, lReports, lRun, lStorage>>
  BY DEF L!AddRunToIndex, L!World, L!Rest
<1>2. lMem \in MemOf(k) /\ lStore \in StoreOf(k) /\ lRun \in 1..Logs[k].MaxRuns
  BY <1>0, LogTypes
<1>3. /\ lMem' \in MemOf(k) /\ lMem'.once = lMem.once /\ lMem'.sent = lMem.sent /\ lMem'.buf = lMem.buf
      /\ lMem'.final = lMem.final /\ lMem'.offset = lMem.offset /\ lMem'.ext = lMem.ext
      /\ Len(lMem'.pending) <= Logs[k].MaxIndexEntries /\ lMem'.left <= Len(lMem'.pending)
  BY <1>0, <1>1, <1>2, PublishingIs DEF LogCaps
<1>4. /\ lStore' \in StoreOf(k) /\ lStore'.latest = lStore.latest /\ lStore'.runs = lStore.runs
      /\ lStore'.objects = lStore.objects /\ lStore'.health = lStore.health
      /\ \A n \in 1..Logs[k].MaxRuns : n # lRun => lStore'.index[n] = lStore.index[n]
  <2>1. CASE ok /\ lStore.index[lRun] = "absent"
    <3>1. lStore' = [lStore EXCEPT !.index[lRun] = "open"]
      BY <1>1, <2>1
    <3> QED BY <1>2, <3>1 DEF StoreOf
  <2>2. CASE ~(ok /\ lStore.index[lRun] = "absent")
    BY <1>1, <1>2, <2>2
  <2> QED BY <2>1, <2>2
<1>5. LogWhere(k)'
  BY <1>0, <1>1, <1>2, <1>3, <1>4 DEF LogWhere
<1>6. L(k)!Bundle' = L(k)!Bundle /\ (L(k)!Pending(lMem') <=> L(k)!Pending(lMem))
  BY <1>1, <1>3 DEF L!Bundle, L!Pending
<1>7. LogSent(k)'
  BY <1>0, <1>1, <1>3, <1>4, <1>6 DEF LogSent
<1> QED BY <1>0, <1>1, <1>3, <1>4, <1>5, <1>7, CallIs, StoreFrame DEF LogCaps, LogPlaces

\* The head of the queue is done with, or goes behind the others.
LEMMA QueueMoves ==
  ASSUME NEW k \in DOMAIN Logs, NEW m \in MemOf(k), m.left > 0, m.left <= Len(m.pending),
         NEW x, x \in {L(k)!Done(m), L(k)!Retry(m)}
  PROVE  /\ x \in MemOf(k) /\ x.final = m.final /\ x.offset = m.offset /\ x.ext = m.ext
         /\ x.once = m.once /\ x.sent = m.sent /\ x.latestOk = m.latestOk /\ x.buf = m.buf
         /\ Len(x.pending) <= Len(m.pending) /\ x.left <= Len(x.pending)
         /\ Head(m.pending) \in ReportOf(k)
<1> DEFINE q == m.pending
           T == ReportOf(k)
<1>1. q \in Seq(T) /\ Len(q) \in Nat /\ m.left \in Nat
  BY MemFields
<1>2. Len(q) > 0 /\ q # <<>> /\ m.left - 1 \in Nat
  BY <1>1
<1> HIDE DEF q, T
<1>3. /\ Head(q) \in T /\ Tail(q) \in Seq(T) /\ Len(Tail(q)) = Len(q) - 1
      /\ Append(Tail(q), Head(q)) \in Seq(T) /\ Len(Append(Tail(q), Head(q))) = Len(q)
  BY <1>1, <1>2
<1>4. CASE x = L(k)!Done(m)
  <2>1. x = [m EXCEPT !.pending = Tail(q), !.left = m.left - 1]
    BY <1>4 DEF L!Done, q
  <2>2. /\ x.final = m.final /\ x.offset = m.offset /\ x.ext = m.ext
        /\ x.once = m.once /\ x.sent = m.sent /\ x.latestOk = m.latestOk /\ x.buf = m.buf
        /\ x.pending = Tail(q) /\ x.left = m.left - 1
    BY <2>1 DEF MemOf
  <2>3. x \in MemOf(k)
    BY <1>2, <1>3, <2>1 DEF MemOf, T
  <2> QED BY <1>1, <1>2, <1>3, <2>2, <2>3 DEF q, T
<1>5. CASE x = L(k)!Retry(m)
  <2>1. x = [m EXCEPT !.pending = Append(Tail(q), Head(q)), !.left = m.left - 1]
    BY <1>5 DEF L!Retry, q
  <2>2. /\ x.final = m.final /\ x.offset = m.offset /\ x.ext = m.ext
        /\ x.once = m.once /\ x.sent = m.sent /\ x.latestOk = m.latestOk /\ x.buf = m.buf
        /\ x.pending = Append(Tail(q), Head(q)) /\ x.left = m.left - 1
    BY <2>1 DEF MemOf
  <2>3. x \in MemOf(k)
    BY <1>2, <1>3, <2>1 DEF MemOf, T
  <2> QED BY <1>1, <1>2, <1>3, <2>2, <2>3 DEF q, T
<1> QED BY <1>4, <1>5

LEMMA PublishObjectStep ==
  ASSUME NEW k \in DOMAIN Logs, LogInv(k), NEW ok \in BOOLEAN, L(k)!PublishObject(ok)
  PROVE  LogInv(k)'
<1> DEFINE f == Head(lMem.pending)
<1>0. LogShape(k) /\ LogCaps(k) /\ LogWhere(k) /\ LogSent(k)
  BY LogNow
<1>1. /\ lPc = "publish" /\ lMem.left > 0
      /\ UNCHANGED <<lDisk, lCopies, lEngine, lTee, lChan, lFile, lReports, lRun, lStorage>>
  BY DEF L!PublishObject, L!World, L!Rest
<1>2. \/ lMem' = L(k)!Done(lMem) /\ UNCHANGED <<lPc, lStore, lFaults>>
      \/ /\ L(k)!Call(ok) /\ lStore' = IF ok THEN [lStore EXCEPT !.objects[f[1]] = f[2]] ELSE lStore
         /\ lPc' = (IF ok THEN "entry" ELSE lPc) /\ lMem' = IF ok THEN lMem ELSE L(k)!Retry(lMem)
  BY DEF L!PublishObject
<1>3. /\ lMem \in MemOf(k) /\ lStore \in StoreOf(k) /\ lMem.left <= Len(lMem.pending)
      /\ Len(lMem.pending) <= Logs[k].MaxIndexEntries /\ lFaults \in 0..Logs[k].MaxFaults
      /\ Len(lMem.pending) \in Nat /\ Logs[k].MaxIndexEntries \in Nat
  BY <1>0, LogTypes, MemFields, LogAssumption DEF LogCaps, LogShape
<1>4. f \in ReportOf(k) /\ f[1] \in Logs[k].Reports /\ f[2] \in 1..Logs[k].MaxWrites
  <2>1. f \in ReportOf(k)
    BY <1>1, <1>3, QueueMoves
  <2> HIDE DEF f
  <2> QED BY <2>1 DEF ReportOf
<1>5. f[2] \in 0..Logs[k].MaxWrites /\ f[2] # 0
  BY <1>4, LogAssumption
<1>6. /\ lMem' \in MemOf(k) /\ lMem'.once = lMem.once /\ lMem'.sent = lMem.sent /\ lMem'.buf = lMem.buf
      /\ lMem'.final = lMem.final /\ lMem'.offset = lMem.offset /\ lMem'.ext = lMem.ext
      /\ Len(lMem'.pending) <= Len(lMem.pending) /\ lMem'.left <= Len(lMem'.pending)
      /\ Len(lMem'.pending) \in Nat
  <2>1. lMem' \in {L(k)!Done(lMem), L(k)!Retry(lMem)} \/ lMem' = lMem
    BY <1>2
  <2>2. lMem' \in MemOf(k) => Len(lMem'.pending) \in Nat
    BY MemFields
  <2>3. CASE lMem' \in {L(k)!Done(lMem), L(k)!Retry(lMem)}
    BY <1>1, <1>3, <2>2, <2>3, QueueMoves
  <2>4. CASE lMem' = lMem
    BY <1>3, <2>4
  <2> QED BY <2>1, <2>3, <2>4
<1> HIDE DEF f
<1>7. /\ lStore' \in StoreOf(k) /\ lStore'.latest = lStore.latest /\ lStore'.runs = lStore.runs
      /\ lStore'.index = lStore.index /\ lStore'.health = lStore.health
      /\ \A r \in Logs[k].Reports : lStore.objects[r] # 0 => lStore'.objects[r] # 0
      /\ lPc' \in {"publish", "entry"}
      /\ lPc' = "entry" => lMem' = lMem /\ lStore'.objects[f[1]] # 0
  <2>1. CASE lStore' = lStore /\ lPc' = lPc
    BY <1>1, <1>3, <2>1
  <2>2. CASE lStore' = [lStore EXCEPT !.objects[f[1]] = f[2]] /\ lPc' = "entry" /\ lMem' = lMem
    <3>1. lStore.objects \in [Logs[k].Reports -> 0..Logs[k].MaxWrites]
      BY <1>3 DEF StoreOf
    <3>2. lStore'.objects = [lStore.objects EXCEPT ![f[1]] = f[2]]
          /\ lStore'.latest = lStore.latest /\ lStore'.runs = lStore.runs
          /\ lStore'.index = lStore.index /\ lStore'.health = lStore.health
      BY <1>3, <2>2 DEF StoreOf
    <3>3. [lStore.objects EXCEPT ![f[1]] = f[2]] \in [Logs[k].Reports -> 0..Logs[k].MaxWrites]
      BY <1>4, <1>5, <3>1
    <3>4. lStore' \in StoreOf(k)
      BY <1>3, <2>2, <3>3 DEF StoreOf
    <3> QED BY <1>4, <1>5, <2>2, <3>1, <3>2, <3>4
  <2> QED BY <1>2, <2>1, <2>2
<1>8. \A g \in lStore.health : g[1] \in Logs[k].Reports
  BY <1>3 DEF StoreOf, ReportOf
<1>9. LogWhere(k)'
  <2>1. lPc' = "entry" => lMem'.left > 0 /\ lStore'.objects[Head(lMem'.pending)[1]] # 0
    BY <1>1, <1>7 DEF f
  <2>2. \A g \in lStore'.health : lStore'.objects[g[1]] # 0
    BY <1>0, <1>7, <1>8 DEF LogWhere
  <2> QED BY <1>0, <1>1, <1>6, <1>7, <2>1, <2>2 DEF LogWhere
<1>10. L(k)!Bundle' = L(k)!Bundle /\ (L(k)!Pending(lMem') <=> L(k)!Pending(lMem))
  BY <1>1, <1>6 DEF L!Bundle, L!Pending
<1>11. LogSent(k)'
  BY <1>0, <1>1, <1>6, <1>7, <1>10 DEF LogSent
<1>12. Len(lMem'.pending) <= Logs[k].MaxIndexEntries
  BY <1>3, <1>6
<1>13. lFaults' \in 0..Logs[k].MaxFaults
  BY <1>2, <1>3, CallIs
<1> QED BY <1>0, <1>1, <1>6, <1>7, <1>9, <1>11, <1>12, <1>13, StoreFrame DEF LogCaps, LogPlaces

\* The index keeps one entry for a report, and the newest ones.
LEMMA UpsertIs ==
  ASSUME NEW k \in DOMAIN Logs, NEW S1 \in SUBSET ReportOf(k), NEW f \in ReportOf(k),
         \A g, h \in S1 : g[1] = h[1] => g = h
  PROVE  LET U == L(k)!Upsert(S1, f)
         IN  /\ U \subseteq S1 \cup {f} /\ Cardinality(U) <= Logs[k].MaxIndexEntries
             /\ \A g, h \in U : g[1] = h[1] => g = h
<1> DEFINE A == {g \in S1 : g[1] # f[1]} \union {f}
           Over(g) == {h \in A : h[1] > g[1]}
           X == Logs[k].MaxIndexEntries
           U == {g \in A : Cardinality(Over(g)) < X}
           F == [g \in U |-> Cardinality(Over(g))]
<1>1. L(k)!Upsert(S1, f) = U
  BY DEF L!Upsert, L!Cardinality, Cardinality
<1>2. \A g \in ReportOf(k) : g[1] \in Nat
  BY LogAssumption DEF ReportOf
<1>3. A \subseteq ReportOf(k) /\ A \subseteq S1 \cup {f} /\ \A g, h \in A : g[1] = h[1] => g = h
  OBVIOUS
<1>4. IsFiniteSet(A)
  <2>1. Logs[k].MaxWrites \in Nat /\ IsFiniteSet(Logs[k].Reports)
    BY LogAssumption
  <2>2. IsFiniteSet(1..Logs[k].MaxWrites)
    BY <2>1, UpTo
  <2>3. IsFiniteSet(ReportOf(k))
    BY <2>1, <2>2, FS_Product DEF ReportOf
  <2> HIDE DEF A
  <2> QED BY <1>3, <2>3, FS_Subset
<1> HIDE DEF A
<1>5. \A g \in A : IsFiniteSet(Over(g)) /\ Cardinality(Over(g)) \in Nat
  BY <1>4, FS_Subset, FS_CardinalityType
<1>6. \A g \in A : g[1] \in Nat
  BY <1>2, <1>3
<1>7. \A g, h \in A : g[1] < h[1] => Cardinality(Over(h)) < Cardinality(Over(g))
  <2> SUFFICES ASSUME NEW g \in A, NEW h \in A, g[1] < h[1]
               PROVE  Cardinality(Over(h)) < Cardinality(Over(g))
    OBVIOUS
  <2>1. IsFiniteSet(Over(g))
    BY <1>5
  <2>2. ASSUME NEW e \in Over(h) PROVE e \in Over(g)
    BY <1>6, <2>2
  <2>3. h \in Over(g) /\ h \notin Over(h)
    BY <1>6
  <2> HIDE DEF Over
  <2>4. Over(h) \subseteq Over(g) /\ h \in Over(g) \ Over(h)
    BY <2>2, <2>3
  <2> QED BY <2>1, <2>4, SmallerSet
<1>8. X \in Nat
  BY LogAssumption
<1>9. \A g \in U : g \in A /\ Cardinality(Over(g)) \in 0..(X - 1)
  BY <1>5, <1>8
<1>10. F \in [U -> 0..(X - 1)]
  BY <1>9
<1>11. \A g, h \in U : F[g] = F[h] => g = h
  <2> SUFFICES ASSUME NEW g \in U, NEW h \in U, F[g] = F[h] PROVE g = h
    OBVIOUS
  <2>1. g \in A /\ h \in A /\ Cardinality(Over(g)) = Cardinality(Over(h)) /\ Cardinality(Over(g)) \in Nat
    BY <1>5
  <2> HIDE DEF U, F, Over
  <2>2. ~(Cardinality(Over(g)) < Cardinality(Over(h))) /\ ~(Cardinality(Over(h)) < Cardinality(Over(g)))
    BY <2>1
  <2>3. ~(g[1] < h[1]) /\ ~(h[1] < g[1]) /\ g[1] \in Nat /\ h[1] \in Nat
    BY <1>6, <1>7, <2>1, <2>2
  <2>4. g[1] = h[1]
    BY <2>3
  <2> QED BY <1>3, <2>1, <2>4
<1>12. Cardinality(U) <= X
  <2> HIDE DEF U, F, X
  <2> QED BY <1>8, <1>10, <1>11, NumberedFew
<1>13. U \subseteq A
  OBVIOUS
<1> HIDE DEF U
<1>14. U \subseteq S1 \cup {f} /\ \A g, h \in U : g[1] = h[1] => g = h
  BY <1>3, <1>13
<1> QED BY <1>1, <1>12, <1>14

LEMMA PublishEntryStep ==
  ASSUME NEW k \in DOMAIN Logs, LogInv(k), NEW ok \in BOOLEAN, L(k)!PublishEntry(ok)
  PROVE  LogInv(k)'
<1> DEFINE f == Head(lMem.pending)
           U == L(k)!Upsert(lStore.health, f)
<1>0. LogShape(k) /\ LogCaps(k) /\ LogWhere(k) /\ LogSent(k)
  BY LogNow
<1>1. /\ lPc = "entry" /\ lPc' = "publish" /\ L(k)!Call(ok)
      /\ lStore' = IF ok THEN [lStore EXCEPT !.health = U] ELSE lStore
      /\ lMem' = IF ok THEN L(k)!Done(lMem) ELSE L(k)!Retry(lMem)
      /\ UNCHANGED <<lDisk, lCopies, lEngine, lTee, lChan, lFile, lReports, lRun, lStorage>>
  BY DEF L!PublishEntry, L!World, L!Rest
<1>2. /\ lMem \in MemOf(k) /\ lStore \in StoreOf(k) /\ lMem.left <= Len(lMem.pending) /\ lMem.left > 0
      /\ Len(lMem.pending) <= Logs[k].MaxIndexEntries /\ lStore.objects[f[1]] # 0
      /\ Len(lMem.pending) \in Nat /\ Logs[k].MaxIndexEntries \in Nat
  BY <1>0, <1>1, LogTypes, MemFields, LogAssumption DEF LogCaps, LogWhere
<1>3. /\ lMem' \in MemOf(k) /\ lMem'.once = lMem.once /\ lMem'.sent = lMem.sent /\ lMem'.buf = lMem.buf
      /\ lMem'.final = lMem.final /\ lMem'.offset = lMem.offset /\ lMem'.ext = lMem.ext
      /\ Len(lMem'.pending) <= Len(lMem.pending) /\ lMem'.left <= Len(lMem'.pending)
      /\ f \in ReportOf(k)
  <2>1. lMem' \in {L(k)!Done(lMem), L(k)!Retry(lMem)}
    BY <1>1
  <2> QED BY <1>2, <2>1, QueueMoves
<1>4. Len(lMem'.pending) <= Logs[k].MaxIndexEntries
  <2>1. Len(lMem'.pending) \in Nat
    BY <1>3, MemFields
  <2> QED BY <1>2, <1>3, <2>1
<1>5. /\ lStore.health \in SUBSET ReportOf(k) /\ Cardinality(lStore.health) <= Logs[k].MaxIndexEntries
      /\ \A g, h \in lStore.health : g[1] = h[1] => g = h
      /\ \A g \in lStore.health : lStore.objects[g[1]] # 0
  BY <1>0, <1>2 DEF LogCaps, LogWhere, StoreOf
<1> HIDE DEF f
<1>6. /\ U \subseteq lStore.health \cup {f} /\ Cardinality(U) <= Logs[k].MaxIndexEntries
      /\ \A g, h \in U : g[1] = h[1] => g = h
  BY <1>3, <1>5, UpsertIs
<1> HIDE DEF U
<1>7. U \in SUBSET ReportOf(k) /\ \A g \in U : lStore.objects[g[1]] # 0
  BY <1>2, <1>3, <1>5, <1>6
<1>8. /\ lStore' \in StoreOf(k) /\ lStore'.latest = lStore.latest /\ lStore'.runs = lStore.runs
      /\ lStore'.index = lStore.index /\ lStore'.objects = lStore.objects
      /\ Cardinality(lStore'.health) <= Logs[k].MaxIndexEntries
      /\ \A g, h \in lStore'.health : g[1] = h[1] => g = h
      /\ \A g \in lStore'.health : lStore'.objects[g[1]] # 0
  <2>1. CASE ok = TRUE
    <3>1. lStore' = [lStore EXCEPT !.health = U]
      BY <1>1, <2>1
    <3>2. /\ lStore' \in StoreOf(k) /\ lStore'.latest = lStore.latest /\ lStore'.runs = lStore.runs
          /\ lStore'.index = lStore.index /\ lStore'.objects = lStore.objects /\ lStore'.health = U
      BY <1>2, <1>7, <3>1 DEF StoreOf
    <3> QED BY <1>6, <1>7, <3>2
  <2>2. CASE ok = FALSE
    BY <1>1, <1>2, <1>5, <2>2
  <2> QED BY <2>1, <2>2
<1>9. LogWhere(k)'
  BY <1>0, <1>1, <1>3, <1>8 DEF LogWhere
<1>10. L(k)!Bundle' = L(k)!Bundle /\ (L(k)!Pending(lMem') <=> L(k)!Pending(lMem))
  BY <1>1, <1>3 DEF L!Bundle, L!Pending
<1>11. LogSent(k)'
  BY <1>0, <1>1, <1>3, <1>8, <1>10 DEF LogSent
<1> QED BY <1>1, <1>3, <1>4, <1>8, <1>9, <1>11, CallIs, StoreFrame DEF LogPlaces

LEMMA PublishEndStep ==
  ASSUME NEW k \in DOMAIN Logs, LogInv(k), L(k)!PublishEnd
  PROVE  LogInv(k)'
<1>0. LogShape(k) /\ LogCaps(k) /\ LogWhere(k) /\ LogSent(k)
  BY LogNow
<1>1. /\ lPc = "publish" /\ lPc' = IF ~lMem.final THEN "loop" ELSE IF lMem.once THEN "finalize" ELSE "done"
      /\ UNCHANGED <<lDisk, lCopies, lEngine, lTee, lChan, lFile, lReports, lRun, lStorage, lMem, lStore, lFaults>>
  BY DEF L!PublishEnd, L!World, L!Rest
<1>2. /\ lMem \in MemOf(k) /\ lStore \in StoreOf(k) /\ lMem.final \in BOOLEAN /\ lMem.once \in BOOLEAN
      /\ lFaults \in 0..Logs[k].MaxFaults
  BY <1>0, LogTypes DEF LogShape
<1>3. /\ lPc' \in {"loop", "finalize", "done"} /\ (lPc' = "loop" => lMem.final = FALSE)
      /\ lPc' # "loop" => lMem.final = TRUE
      /\ lPc' = "finalize" => lMem.once = TRUE
  BY <1>1, <1>2
<1>4. LogWhere(k)'
  BY <1>0, <1>1, <1>3 DEF LogWhere
<1>5. L(k)!Bundle' = L(k)!Bundle /\ (L(k)!Pending(lMem') <=> L(k)!Pending(lMem))
  BY <1>1 DEF L!Bundle, L!Pending
<1>6. LogSent(k)'
  BY <1>0, <1>1, <1>3, <1>5 DEF LogSent
<1> QED BY <1>0, <1>1, <1>2, <1>3, <1>4, <1>6, StoreFrame DEF LogCaps, LogPlaces

LEMMA FinalizeStep ==
  ASSUME NEW k \in DOMAIN Logs, LogInv(k), NEW ok \in BOOLEAN, L(k)!FinalizeRun(ok)
  PROVE  LogInv(k)'
<1>0. LogShape(k) /\ LogCaps(k) /\ LogWhere(k) /\ LogSent(k)
  BY LogNow
<1>1. /\ lPc = "finalize" /\ L(k)!Call(ok) /\ lPc' = "done" /\ lMem' = lMem
      /\ lStore' = IF ok THEN [lStore EXCEPT !.index[lRun] = "ended"] ELSE lStore
      /\ UNCHANGED <<lDisk, lCopies, lEngine, lTee, lChan, lFile, lReports, lRun, lStorage>>
  BY DEF L!FinalizeRun, L!World, L!Rest
<1>2. lMem \in MemOf(k) /\ lStore \in StoreOf(k) /\ lRun \in 1..Logs[k].MaxRuns
  BY <1>0, LogTypes
<1>3. /\ lStore' \in StoreOf(k) /\ lStore'.latest = lStore.latest /\ lStore'.runs = lStore.runs
      /\ lStore'.objects = lStore.objects /\ lStore'.health = lStore.health
      /\ \A n \in 1..Logs[k].MaxRuns : n # lRun => lStore'.index[n] = lStore.index[n]
  <2>1. CASE ok = TRUE
    <3>1. lStore' = [lStore EXCEPT !.index[lRun] = "ended"]
      BY <1>1, <2>1
    <3> QED BY <1>2, <3>1 DEF StoreOf
  <2>2. CASE ok = FALSE
    BY <1>1, <1>2, <2>2
  <2> QED BY <2>1, <2>2
<1>4. LogWhere(k)'
  BY <1>0, <1>1, <1>2, <1>3 DEF LogWhere
<1>5. L(k)!Bundle' = L(k)!Bundle /\ (L(k)!Pending(lMem') <=> L(k)!Pending(lMem))
  BY <1>1 DEF L!Bundle, L!Pending
<1>6. LogSent(k)'
  BY <1>0, <1>1, <1>3, <1>5 DEF LogSent
<1> QED BY <1>0, <1>1, <1>2, <1>3, <1>4, <1>6, CallIs, StoreFrame DEF LogCaps, LogPlaces

LEMMA KillStep ==
  ASSUME NEW k \in DOMAIN Logs, LogInv(k), L(k)!Kill
  PROVE  LogInv(k)'
<1>0. LogShape(k) /\ LogCaps(k) /\ LogWhere(k) /\ LogLines(k)
  BY LogNow
<1>1. /\ lPc' = "dead" /\ lEngine' = FALSE /\ lChan' = <<>> /\ lMem' = L(k)!FreshMem
      /\ UNCHANGED <<lRun, lStorage, lTee, lFile, lReports, lDisk, lCopies, lStore, lFaults>>
  BY DEF L!Kill
<1>2. /\ lMem' \in MemOf(k) /\ lMem'.final = FALSE /\ lMem'.offset = 0
      /\ lMem'.once = FALSE /\ lMem'.sent = FALSE /\ lMem'.latestOk = FALSE
      /\ lMem'.pending = <<>> /\ lMem'.left = 0 /\ \A l \in L(k)!Lines : lMem'.buf[l] = 0
  BY <1>1, FreshIs
<1>3. /\ \A l \in L(k)!Lines : lDisk[l] \in Nat /\ lMem.buf[l] \in Nat
      /\ lRun \in Nat /\ Logs[k].ChannelCapacity \in Nat /\ Logs[k].MaxIndexEntries \in Nat
  BY <1>0, LogTypes, LogAssumption
<1>4. Len(lChan') = 0 /\ lChan' \in Seq({0} \X (1..Logs[k].MaxTee)) /\ Len(lMem'.pending) = 0
  BY <1>1, <1>2
<1>5. LogShape(k)'
  BY <1>0, <1>1, <1>2, <1>4 DEF LogShape, LogPlaces
<1>6. LogCaps(k)'
  BY <1>0, <1>1, <1>2, <1>3, <1>4 DEF LogCaps
<1>7. LogWhere(k)'
  <2>1. L(k)!FreshMem' = L(k)!FreshMem
    BY DEF L!FreshMem
  <2> QED BY <1>0, <1>1, <1>2, <2>1 DEF LogWhere
<1>8. LogLines(k)'
  <2>1. \A l \in L(k)!Lines : lDisk[l] + lMem'.buf[l] = lDisk[l] /\ lDisk[l] <= lDisk[l] + lMem.buf[l]
    BY <1>2, <1>3
  <2>2. \A l \in L(k)!Lines : l[1] = 0 /\ lTee < l[2] => lDisk[l] = 0
    BY <1>0, <1>3 DEF LogLines
  <2>3. \A l \in L(k)!Lines : lDisk[l] <= lRun /\ (lFile.gen < l[1] => lDisk[l] < lRun)
    BY <1>0, <1>3, <2>1 DEF LogLines
  <2> QED BY <1>1, <1>4, <2>1, <2>2, <2>3 DEF LogLines
<1>9. LogHeld(k)'
  BY <1>1, <1>2 DEF LogHeld
<1>10. LogSent(k)'
  BY <1>1, <1>2 DEF LogSent
<1> QED BY <1>5, <1>6, <1>7, <1>8, <1>9, <1>10 DEF LogInv

LEMMA RestartStep ==
  ASSUME NEW k \in DOMAIN Logs, LogInv(k), NEW keep \in BOOLEAN, L(k)!Restart(keep)
  PROVE  LogInv(k)'
<1>0. LogShape(k) /\ LogCaps(k) /\ LogWhere(k) /\ LogLines(k)
  BY LogNow
<1>1. /\ lPc \in {"dead", "done"} /\ lRun < Logs[k].MaxRuns /\ lRun' = lRun + 1 /\ lPc' = "loop"
      /\ lEngine' = TRUE /\ lMem' = L(k)!FreshMem
      /\ UNCHANGED <<lStorage, lTee, lChan, lStore, lFaults>>
      /\ \/ UNCHANGED <<lFile, lReports, lDisk, lCopies>>
         \/ /\ lFile' = [gen |-> lFile.gen, len |-> 0] /\ lReports' = [r \in Logs[k].Reports |-> 0]
            /\ lDisk' = [l \in L(k)!Lines |-> 0] /\ lCopies' = [r \in Logs[k].Reports |-> 0]
  BY DEF L!Restart, L!NoLine
<1>2. /\ lMem' \in MemOf(k) /\ lMem'.final = FALSE /\ lMem'.offset = 0
      /\ lMem'.once = FALSE /\ lMem'.sent = FALSE /\ lMem'.latestOk = FALSE
      /\ lMem'.pending = <<>> /\ lMem'.left = 0 /\ \A l \in L(k)!Lines : lMem'.buf[l] = 0
  BY <1>1, FreshIs
<1>3. /\ \A l \in L(k)!Lines : lDisk[l] \in Nat /\ lMem.buf[l] \in Nat /\ l[2] \in Nat \ {0}
      /\ lRun \in Nat \ {0} /\ Logs[k].MaxIndexEntries \in Nat /\ Logs[k].MaxRuns \in Nat
      /\ Logs[k].MaxHalves \in Nat /\ Logs[k].MaxWrites \in Nat
  BY <1>0, LogTypes, LineIs, LogAssumption
<1>4. lChan = <<>> /\ Len(lChan) = 0 /\ Len(lMem'.pending) = 0
  BY <1>0, <1>1, <1>2 DEF LogWhere
<1>5. /\ lDisk' \in [L(k)!Lines -> Nat] /\ lFile' \in [gen : 1..Logs[k].MaxGens, len : 0..Logs[k].MaxHalves]
      /\ lFile'.gen = lFile.gen /\ lFile'.len \in Nat
      /\ lReports' \in [Logs[k].Reports -> 0..Logs[k].MaxWrites]
      /\ lCopies' \in [Logs[k].Reports -> 0..Logs[k].MaxWrites]
      /\ \A l \in L(k)!Lines : lDisk'[l] <= lDisk[l]
  <2>1. /\ lDisk \in [L(k)!Lines -> Nat] /\ lFile \in [gen : 1..Logs[k].MaxGens, len : 0..Logs[k].MaxHalves]
        /\ lReports \in [Logs[k].Reports -> 0..Logs[k].MaxWrites]
        /\ lCopies \in [Logs[k].Reports -> 0..Logs[k].MaxWrites]
    BY <1>0 DEF LogShape
  <2>2. CASE UNCHANGED <<lFile, lReports, lDisk, lCopies>>
    BY <1>3, <2>1, <2>2
  <2>3. CASE /\ lFile' = [gen |-> lFile.gen, len |-> 0] /\ lReports' = [r \in Logs[k].Reports |-> 0]
             /\ lDisk' = [l \in L(k)!Lines |-> 0] /\ lCopies' = [r \in Logs[k].Reports |-> 0]
    BY <1>3, <2>1, <2>3
  <2> QED BY <1>1, <2>2, <2>3
<1>6. LogShape(k)'
  <2>1. lRun' \in 1..Logs[k].MaxRuns
    BY <1>1, <1>3
  <2> QED BY <1>0, <1>1, <1>2, <1>5, <2>1 DEF LogShape, LogPlaces
<1>7. LogCaps(k)'
  BY <1>0, <1>1, <1>2, <1>3, <1>4 DEF LogCaps
<1>8. LogWhere(k)'
  BY <1>0, <1>1, <1>2 DEF LogWhere
<1>9. LogLines(k)'
  <2>1. ASSUME NEW l \in L(k)!Lines
        PROVE  /\ lDisk'[l] + lMem'.buf[l] < lRun' /\ lDisk'[l] + lMem'.buf[l] \in Nat
               /\ l[1] = 0 /\ lTee < l[2] => lDisk'[l] + lMem'.buf[l] = 0
    <3>1. /\ lDisk[l] + lMem.buf[l] <= lRun /\ lDisk[l] \in Nat /\ lMem.buf[l] \in Nat /\ lRun \in Nat
          /\ l[1] = 0 /\ lTee < l[2] => lDisk[l] + lMem.buf[l] = 0
      BY <1>0, <1>3 DEF LogLines
    <3>2. lDisk'[l] \in Nat /\ lMem'.buf[l] = 0 /\ lDisk'[l] <= lDisk[l]
      BY <1>2, <1>5
    <3> QED BY <1>1, <3>1, <3>2
  <2>2. \A l \in L(k)!Lines : lDisk'[l] + lMem'.buf[l] <= lRun' /\ lDisk'[l] + lMem'.buf[l] # lRun'
    BY <1>1, <1>3, <2>1
  <2> QED BY <1>1, <1>4, <2>1, <2>2 DEF LogLines
<1>10. LogHeld(k)'
  <2>1. \A l \in L(k)!Lines : ~(2 * l[2] <= 0)
    BY <1>3
  <2> QED BY <1>1, <1>2, <1>5, <2>1 DEF LogHeld
<1>11. LogSent(k)'
  BY <1>1, <1>2 DEF LogSent
<1> QED BY <1>6, <1>7, <1>8, <1>9, <1>10, <1>11 DEF LogInv

LEMMA LogStart ==
  ASSUME NEW k \in DOMAIN Logs, L(k)!Init
  PROVE  LogInv(k)
<1>1. /\ lRun = 1 /\ lPc = "loop" /\ lStorage \in BOOLEAN /\ lEngine = TRUE
      /\ lTee = 0 /\ lChan = <<>> /\ lFile = [gen |-> 1, len |-> 0]
      /\ lReports = [r \in Logs[k].Reports |-> 0]
      /\ lDisk = [l \in L(k)!Lines |-> 0] /\ lCopies = [r \in Logs[k].Reports |-> 0]
      /\ lMem = L(k)!FreshMem
      /\ lStore = [latest |-> None, runs |-> [n \in 1..Logs[k].MaxRuns |-> None],
                   index |-> [n \in 1..Logs[k].MaxRuns |-> "absent"],
                   objects |-> [r \in Logs[k].Reports |-> 0], health |-> {}]
      /\ lFaults = 0
  BY DEF L!Init, L!NoLine
<1>2. /\ Logs[k].MaxTee \in Nat /\ Logs[k].MaxHalves \in Nat /\ Logs[k].MaxWrites \in Nat
      /\ Logs[k].MaxGens \in Nat \ {0} /\ Logs[k].MaxRuns \in Nat \ {0}
      /\ Logs[k].ChannelCapacity \in Nat /\ Logs[k].MaxIndexEntries \in Nat /\ Logs[k].MaxFaults \in Nat
      /\ \A l \in L(k)!Lines : l[2] \in Nat \ {0}
  BY LogAssumption, LineIs
<1>3. /\ lMem \in MemOf(k) /\ lMem.final = FALSE /\ lMem.offset = 0
      /\ lMem.once = FALSE /\ lMem.sent = FALSE /\ lMem.latestOk = FALSE
      /\ lMem.pending = <<>> /\ lMem.left = 0 /\ \A l \in L(k)!Lines : lMem.buf[l] = 0
  BY <1>1, FreshIs
<1>4. lStore \in StoreOf(k) /\ lStore.health = {} /\ \A n \in 1..Logs[k].MaxRuns : lStore.index[n] = "absent"
  BY <1>1, <1>2 DEF StoreOf
<1>5. LogShape(k)
  BY <1>1, <1>2, <1>3, <1>4 DEF LogShape, LogPlaces
<1>6. LogCaps(k)
  BY <1>1, <1>2, <1>3, <1>4, FS_EmptySet DEF LogCaps
<1>7. LogWhere(k)
  BY <1>1, <1>3, <1>4 DEF LogWhere
<1>8. LogLines(k)
  <2>1. \A l \in L(k)!Lines : lDisk[l] + lMem.buf[l] = 0
    BY <1>1, <1>3
  <2> QED BY <1>1, <2>1 DEF LogLines
<1>9. LogHeld(k)
  BY <1>1, <1>2, <1>3 DEF LogHeld
<1>10. LogSent(k)
  BY <1>1, <1>3 DEF LogSent
<1> QED BY <1>5, <1>6, <1>7, <1>8, <1>9, <1>10 DEF LogInv

LEMMA LogStep ==
  ASSUME NEW k \in DOMAIN Logs, LogInv(k), [L(k)!Next]_logVars
  PROVE  LogInv(k)'
<1>1. CASE L(k)!Tee \/ L(k)!WriteLog \/ L(k)!TruncateLog \/ L(k)!EngineExits \/ L(k)!Recv
           \/ L(k)!PublishEnd \/ L(k)!Kill
  BY <1>1, TeeStep, WriteLogStep, TruncateStep, EngineExitsStep, RecvStep, PublishEndStep, KillStep
<1>2. ASSUME NEW r \in Logs[k].Reports, L(k)!WriteReport(r) PROVE LogInv(k)'
  BY <1>2, WriteReportStep
<1>3. ASSUME NEW bad \in SUBSET Logs[k].Reports,
             L(k)!Tick(bad \cap L(k)!Fresh(lMem)) \/ L(k)!Disconnected(bad \cap L(k)!Fresh(lMem))
      PROVE  LogInv(k)'
  <2> DEFINE b == bad \cap L(k)!Fresh(lMem)
  <2>1. b \in SUBSET Logs[k].Reports
    OBVIOUS
  <2> HIDE DEF b
  <2>2. L(k)!Tick(b) \/ L(k)!Disconnected(b)
    BY <1>3 DEF b
  <2> QED BY <2>1, <2>2, LogTickStep, DisconnectedStep
<1>4. ASSUME NEW done, L(k)!FlushFails(done) PROVE LogInv(k)'
  BY <1>4, FlushFailsStep
<1>5. ASSUME NEW ok \in BOOLEAN,
             \/ L(k)!Flush(ok) \/ L(k)!PutLatest(ok) \/ L(k)!PutRun(ok) \/ L(k)!AddRunToIndex(ok)
             \/ L(k)!PublishObject(ok) \/ L(k)!PublishEntry(ok) \/ L(k)!FinalizeRun(ok)
      PROVE  LogInv(k)'
  BY <1>5, FlushStep, PutLatestStep, PutRunStep, AddRunStep, PublishObjectStep, PublishEntryStep, FinalizeStep
<1>6. ASSUME NEW keep \in BOOLEAN, L(k)!Restart(keep) PROVE LogInv(k)'
  BY <1>6, RestartStep
<1>7. CASE UNCHANGED logVars
  <2>1. UNCHANGED <<lRun, lPc, lStorage, lEngine, lTee, lChan, lFile, lReports, lDisk, lCopies, lMem, lStore, lFaults>>
    BY <1>7 DEF logVars
  <2>2. LogShape(k)' /\ LogCaps(k)' /\ LogWhere(k)'
    BY <2>1, LogNow DEF LogShape, LogCaps, LogWhere, L!FreshMem
  <2>3. LogLines(k)' /\ LogHeld(k)'
    BY <2>1, LogNow DEF LogLines, LogHeld
  <2>4. LogSent(k)'
    BY <2>1, LogNow DEF LogSent, L!Bundle, L!Pending
  <2> QED BY <2>2, <2>3, <2>4 DEF LogInv
<1> QED BY <1>1, <1>2, <1>3, <1>4, <1>5, <1>6, <1>7 DEF L!Next, L!Collector

LEMMA LogInvGives ==
  ASSUME NEW k \in DOMAIN Logs, LogInv(k)
  PROVE  L(k)!LogSafe
<1>0. LogShape(k) /\ LogCaps(k) /\ LogWhere(k) /\ LogLines(k) /\ LogHeld(k) /\ LogSent(k)
  BY LogNow
<1>1. L(k)!TypeOK
  <2>1. lMem.total <= Logs[k].MaxTotal
    BY <1>0, LogTypes, MemFields, LogAssumption
  <2> QED BY <1>0, <2>1 DEF L!TypeOK, L!Versions, LogShape, LogCaps, LogPlaces, L!Cardinality, Cardinality
<1>2. L(k)!ListedExists
  BY <1>0 DEF L!ListedExists, LogWhere
<1>3. L(k)!OncePerRun
  BY <1>0 DEF L!OncePerRun, LogLines
<1>4. lMem.sent \in BOOLEAN
  BY <1>0, LogTypes
<1>5. L(k)!SentIsWhole
  BY <1>0, <1>4 DEF L!SentIsWhole, LogSent
<1>6. L(k)!EndDelivers
  <2> SUFFICES ASSUME lPc = "done", lMem.sent = TRUE
               PROVE  /\ lStore.latest = L(k)!Bundle /\ ~L(k)!Pending(lMem)
                      /\ lFile.gen = 1 => \A l \in L(k)!Lines : l[1] = 1 /\ 2 * l[2] - 1 <= lFile.len =>
                                            l \in lStore.latest.lines
    BY <1>4 DEF L!EndDelivers
  <2>1. lStore.latest = L(k)!Bundle /\ ~L(k)!Pending(lMem) /\ lMem.final = TRUE
    BY <1>0 DEF LogSent, LogWhere
  <2>2. \A l \in L(k)!Lines : lMem.buf[l] = 0
    BY <2>1 DEF L!Pending, L!NoLine
  <2>3. ASSUME lFile.gen = 1, NEW l \in L(k)!Lines, l[1] = 1, 2 * l[2] - 1 <= lFile.len
        PROVE  l \in lStore.latest.lines
    <3>1. lDisk[l] + lMem.buf[l] > 0 /\ lDisk[l] \in Nat
      BY <1>0, <2>1, <2>3, LogTypes DEF LogHeld
    <3>2. lDisk[l] > 0
      BY <2>2, <3>1
    <3> QED BY <2>1, <3>2 DEF L!Bundle
  <2> QED BY <2>1, <2>3
<1> QED BY <1>1, <1>2, <1>3, <1>5, <1>6 DEF L!LogSafe

\* The log collector keeps its promises, for every number of runs, lines, reports and
\* failing calls: what an index lists exists, a run adds a line once, an acknowledged
\* upload is the tree, and an end with one delivers an untruncated log whole
\* (session_pod/log_stream).
THEOREM LogsAreSafe == PartSpec => []LogSafe
<1> DEFINE I == \A k \in DOMAIN Logs : part = k => LogInv(k)
<1>1. PartInit => I
  BY LogStart DEF PartInit
<1>2. I /\ [PartNext]_allVars => I'
  <2> SUFFICES ASSUME I, [PartNext]_allVars, NEW k \in DOMAIN Logs, part' = k PROVE LogInv(k)'
    OBVIOUS
  <2>1. part = k /\ [L(k)!Next]_logVars
    BY DEF PartNext, allVars
  <2> QED BY <2>1, LogStep
<1>3. I => LogSafe
  BY LogInvGives DEF LogSafe
<1> QED BY <1>1, <1>2, <1>3, PTL DEF PartSpec
=============================================================================
