------------------------ MODULE FindingProjectionProofs ------------------------
(***************************************************************************)
(* Proofs about the projection of finding triage, for any number of        *)
(* findings, versions and times and any size of a page: the types, and     *)
(* that a health check that answers "available" speaks the truth.          *)
(*                                                                         *)
(* The second follows a version from its commit, and from its listener, to *)
(* the index.  What the listener has projected since the index was built   *)
(* is in it (Keeps); what it projected before, and what it never projects  *)
(* although the event is done, has to be repaired by a cycle that began on *)
(* this index after the version was committed (CycleSound, PageSound,      *)
(* InspectSound), and the watermark vouches for that cycle (MarkSound).  A *)
(* record that was changed after the cutoff is not listed: only the check  *)
(* of the times in the state excludes it (AnswerSound), provided that a    *)
(* cycle begins after the one before it was saved (Serial).                *)
(***************************************************************************)
EXTENDS FindingProjectionProps, FiniteSetTheorems, FunctionTheorems, WellFoundedInduction, TLAPS

Phases == {"absent", "queued", "done", "parked"}

(* The events of a finding are the versions of its record, there is a      *)
(* number for the version of a change that is being committed, and what a  *)
(* listener projects was dispatched.                                       *)
EventsSound ==
  /\ phase \in [Events -> Phases]
  /\ begun \subseteq Events /\ projected \subseteq begun
  /\ \A f \in Findings, v \in 1 .. MaxVersion :
       phase[EventOf(f, v)] # "absent" <=> v <= record[f].version
  /\ \A f \in Findings : change[f] # 0 => record[f].version < MaxVersion
  /\ \A e \in begun : phase[e] # "absent"

(* No time is in the future.                                               *)
TimesSound ==
  /\ \A f \in Findings : /\ record[f].at <= clock
                         /\ change[f] <= clock
                         /\ change[f] # 0 => record[f].at <= change[f]
  /\ state.cutoff <= clock /\ state.through <= state.doneAt /\ state.doneAt <= clock
  /\ mark.through <= clock /\ check.through <= clock

(* No index is named before it was built.                                  *)
IndexSound ==
  /\ 1 <= index.uuid
  /\ state.began <= index.uuid /\ check.uuid <= index.uuid

(* The same of a batch; and it projects what it listed, which was          *)
(* committed.                                                              *)
BatchBasic(b) ==
  /\ b.cutoff <= clock /\ b.doneAt <= clock
  /\ b.step = "marked" => b.cutoff <= b.doneAt
  /\ b.began <= index.uuid
  /\ b.stale \subseteq b.page
  /\ b.step = "resolved" => b.stale = {}
  /\ \A r \in b.page : r[2] <= record[r[1]].version

Basic ==
  /\ TypeOK /\ EventsSound /\ TimesSound /\ IndexSound
  /\ \A p \in Batches : BatchBasic(batch[p])

(***************************************************************************)
(* Numbers, events and pages.                                              *)
(***************************************************************************)
LEMMA EventNumber ==
  ASSUME NEW f \in Findings, NEW v \in 1 .. MaxVersion
  PROVE  EventOf(f, v) \in Events /\ FindingOf(EventOf(f, v)) = f /\ VersionOf(EventOf(f, v)) = v
<1> DEFINE q == f - 1
           r == v - 1
<1>1. q \in Nat /\ r \in 0 .. MaxVersion - 1 /\ MaxVersion \in Nat \ {0}
  BY FindingsAssumption, BoundsAssumption
<1>2. (q * MaxVersion + r) \div MaxVersion = q /\ (q * MaxVersion + r) % MaxVersion = r
  <2> HIDE DEF q, r
  <2> QED BY <1>1
<1>3. q * MaxVersion \in Nat
  <2> HIDE DEF q, r
  <2> QED BY <1>1
<1>4. EventOf(f, v) - 1 = q * MaxVersion + r
  BY <1>1, <1>3 DEF EventOf
<1>5. FindingOf(EventOf(f, v)) = q + 1 /\ VersionOf(EventOf(f, v)) = r + 1
  BY <1>2, <1>4 DEF FindingOf, VersionOf
<1>6. EventOf(f, v) \in Events
  BY DEF EventOf, Events
<1> QED BY <1>5, <1>6, FindingsAssumption

LEMMA EventNames ==
  ASSUME NEW e \in Events
  PROVE  /\ FindingOf(e) \in Findings /\ VersionOf(e) \in 1 .. MaxVersion
         /\ EventOf(FindingOf(e), VersionOf(e)) = e
<1>1. PICK f \in Findings, v \in 1 .. MaxVersion : e = EventOf(f, v)
  BY DEF Events, EventOf
<1> QED BY <1>1, EventNumber

(* A set of natural numbers that is not empty has a least one.             *)
LEMMA Least ==
  ASSUME NEW T \in SUBSET Nat, T # {}
  PROVE  \E x \in T : \A y \in T : x <= y
<1>1. PICK x \in T : \A y \in T : <<y, x>> \notin OpToRel(<, Nat)
  BY WFMin, NatLessThanWellFounded, Zenon
<1>2. \A y \in T : ~(y < x)
  BY <1>1 DEF OpToRel
<1> QED BY <1>2

(* The findings before one of them.                                        *)
Below(S, f) == {g \in S : g < f}

LEMMA BelowGrows ==
  ASSUME NEW S \in SUBSET Findings
  PROVE  /\ \A f \in S : IsFiniteSet(Below(S, f)) /\ Cardinality(Below(S, f)) \in Nat
         /\ \A f \in S, g \in S : g < f => Cardinality(Below(S, g)) < Cardinality(Below(S, f))
<1>1. IsFiniteSet(S) /\ S \subseteq Nat
  BY FindingsAssumption, FS_Subset
<1>2. ASSUME NEW f \in S PROVE IsFiniteSet(Below(S, f)) /\ Cardinality(Below(S, f)) \in Nat
  <2>1. Below(S, f) \in SUBSET S
    BY DEF Below
  <2> QED BY <1>1, <2>1, FS_Subset, FS_CardinalityType
<1>3. ASSUME NEW f \in S, NEW g \in S, g < f
      PROVE  Cardinality(Below(S, g)) < Cardinality(Below(S, f))
  <2>1. g \in Below(S, f) /\ g \notin Below(S, g)
    BY <1>1, <1>3 DEF Below
  <2>2. Below(S, g) \in SUBSET Below(S, f)
    <3> SUFFICES ASSUME NEW h \in S, h < g PROVE h < f
      BY DEF Below
    <3>1. f \in Nat /\ g \in Nat /\ h \in Nat
      BY <1>1
    <3> QED BY <1>3, <3>1
  <2>3. Cardinality(Below(S, g)) <= Cardinality(Below(S, f))
    BY <1>2, <2>2, FS_Subset
  <2>4. Cardinality(Below(S, g)) # Cardinality(Below(S, f))
    <3> SUFFICES ASSUME Cardinality(Below(S, f)) = Cardinality(Below(S, g)) PROVE FALSE
      OBVIOUS
    <3>1. Below(S, f) = Below(S, g)
      BY <1>2, <2>2, FS_Subset
    <3> QED BY <2>1, <3>1
  <2>5. Cardinality(Below(S, g)) \in Nat /\ Cardinality(Below(S, f)) \in Nat
    BY <1>2
  <2> QED BY <2>3, <2>4, <2>5
<1> QED BY <1>2, <1>3

(* The first PageSize of the findings that are due: all of them, or        *)
(* exactly PageSize; and none before one of them is left out.              *)
LEMMA FirstOfDue ==
  ASSUME NEW due \in SUBSET Findings, NEW L,
         L = {f \in due : Cardinality(Below(due, f)) < PageSize}
  PROVE  /\ IsFiniteSet(L)
         /\ Cardinality(L) # PageSize => L = due
         /\ \A f \in L, g \in due : g < f => g \in L
<1>1. IsFiniteSet(due) /\ due \subseteq Nat /\ PageSize \in Nat \ {0}
  BY FindingsAssumption, BoundsAssumption, FS_Subset
<1>2. L \in SUBSET due
  OBVIOUS
<1>3. IsFiniteSet(L) /\ Cardinality(L) \in Nat
  BY <1>1, <1>2, FS_Subset, FS_CardinalityType
<1>4. \A f \in due : Cardinality(Below(due, f)) \in Nat
  BY BelowGrows
<1>5. \A f \in due, g \in due : g < f => Cardinality(Below(due, g)) < Cardinality(Below(due, f))
  BY BelowGrows
<1>6. \A f \in L, g \in due : g < f => g \in L
  <2> SUFFICES ASSUME NEW f \in L, NEW g \in due, g < f
               PROVE  Cardinality(Below(due, g)) < PageSize
    OBVIOUS
  <2>1. Cardinality(Below(due, f)) < PageSize /\ f \in due
    OBVIOUS
  <2>2. Cardinality(Below(due, g)) < Cardinality(Below(due, f))
    BY <1>5, <2>1
  <2>3. Cardinality(Below(due, g)) \in Nat /\ Cardinality(Below(due, f)) \in Nat
    BY <1>4, <2>1
  <2> QED BY <1>1, <2>1, <2>2, <2>3
<1>7. Cardinality(L) <= PageSize
  <2> SUFFICES ASSUME PageSize < Cardinality(L) PROVE FALSE
    BY <1>1, <1>3
  <2>1. IsFiniteSet(0 .. PageSize - 1) /\ Cardinality(0 .. PageSize - 1) = PageSize
    BY <1>1, FS_Interval
  <2>2. PICK c : c = [f \in L |-> Cardinality(Below(due, f))]
    OBVIOUS
  <2>3. \A f \in L : c[f] = Cardinality(Below(due, f)) /\ c[f] \in 0 .. PageSize - 1
    BY <1>1, <1>4, <2>2
  <2>4. c \in [L -> 0 .. PageSize - 1]
    BY <2>2, <2>3
  <2>5. PICK f \in L, g \in L : f # g /\ c[f] = c[g]
    BY <1>3, <2>1, <2>4, FS_PigeonHole
  <2>6. f < g \/ g < f
    BY <1>1, <1>2, <2>5
  <2>7. Cardinality(Below(due, f)) # Cardinality(Below(due, g))
    BY <1>2, <1>4, <1>5, <2>6
  <2> QED BY <2>3, <2>5, <2>7
<1>8. ASSUME L # due PROVE Cardinality(L) = PageSize
  <2>1. PICK g \in due \ L : \A h \in due \ L : g <= h
    <3>1. due \ L # {} /\ due \ L \in SUBSET Nat
      BY <1>1, <1>2, <1>8
    <3> QED BY <3>1, Least
  <2>2. Below(due, g) \in SUBSET L
    <3> SUFFICES ASSUME NEW h \in due, h < g, h \notin L PROVE FALSE
      BY DEF Below
    <3>1. g <= h /\ g \in Nat /\ h \in Nat
      BY <1>1, <2>1
    <3> QED BY <3>1
  <2>3. Cardinality(Below(due, g)) <= Cardinality(L)
    BY <1>3, <2>2, FS_Subset
  <2>4. ~(Cardinality(Below(due, g)) < PageSize) /\ Cardinality(Below(due, g)) \in Nat
    BY <1>4, <2>1
  <2> QED BY <1>1, <1>3, <1>7, <2>3, <2>4
<1> QED BY <1>3, <1>6, <1>8

(* A page names each of its findings once.                                 *)
LEMMA PageSizeOf ==
  ASSUME NEW L, IsFiniteSet(L), NEW page, page = {<<f, record[f].version>> : f \in L}
  PROVE  IsFiniteSet(page) /\ Cardinality(page) = Cardinality(L)
<1> DEFINE there == [f \in L |-> <<f, record[f].version>>]
           back  == [r \in page |-> r[1]]
<1>1. there \in Surjection(L, page)
  <2>1. there \in [L -> page] /\ \A r \in page : \E f \in L : there[f] = r
    OBVIOUS
  <2> HIDE DEF there
  <2> QED BY <2>1, Fun_IsSurj
<1>2. back \in Surjection(page, L)
  <2>1. \A r \in page : r[1] \in L
    OBVIOUS
  <2>2. back \in [page -> L] /\ \A f \in L : back[<<f, record[f].version>>] = f
    BY <2>1
  <2>3. \A f \in L : \E r \in page : back[r] = f
    BY <2>2
  <2> HIDE DEF back
  <2> QED BY <2>2, <2>3, Fun_IsSurj
<1> HIDE DEF there, back
<1>3. IsFiniteSet(page) /\ Cardinality(page) <= Cardinality(L)
  BY <1>1, FS_Surjection
<1>4. Cardinality(L) <= Cardinality(page)
  BY <1>2, <1>3, FS_Surjection
<1> QED BY <1>3, <1>4, FS_CardinalityType

(***************************************************************************)
(* What a step of a batch makes of it.                                     *)
(***************************************************************************)
Replaced(p, b) ==
  /\ batch' = [q \in Batches |-> IF q = p THEN b ELSE batch[q]]
  /\ b \in BatchType

(* The cycle a batch belongs to stays the same.                            *)
SameCycle(b, o) == b.cursor = o.cursor /\ b.cutoff = o.cutoff /\ b.began = o.began

LEMMA NoBatchType == NoBatch \in BatchType
<1>1. {} \in Entries /\ 0 \in Times /\ 0 \in Nat
  BY BoundsAssumption DEF Entries, Times
<1> QED BY <1>1 DEF NoBatch, BatchType

LEMMA Dropped ==
  ASSUME batch \in [Batches -> BatchType], NEW p \in Batches, batch' = [batch EXCEPT ![p] = NoBatch]
  PROVE  Replaced(p, NoBatch)
<1> QED BY NoBatchType DEF Replaced

LEMMA CycleType ==
  ASSUME TypeOK
  PROVE  /\ Cycle.cursor \in Findings \union {0} /\ Cycle.cutoff \in Times
         /\ Cycle.failed \in Nat /\ Cycle.began \in Nat
<1>1. clock \in Times
  BY BoundsAssumption DEF TypeOK, Times
<1>0. 0 \in Nat /\ 0 \in Findings \union {0}
  OBVIOUS
<1>2. CASE state.cursor # 0
  BY <1>2 DEF Cycle, TypeOK
<1>3. CASE state.cursor = 0
  BY <1>0, <1>1, <1>3 DEF Cycle, NewCycle, TypeOK
<1> QED BY <1>2, <1>3

LEMMA StartEffect ==
  ASSUME TypeOK, StartBatch
  PROVE  \E b : /\ Replaced("locked", b) /\ batch["locked"].step = "idle"
                /\ b.step = "resolved" /\ b.page = {} /\ b.stale = {} /\ b.doneAt = 0
                /\ SameCycle(b, Cycle) /\ b.failed = Cycle.failed
<1>1. NoBatch \in BatchType /\ NoBatch.page = {} /\ NoBatch.stale = {} /\ NoBatch.doneAt = 0
  BY NoBatchType DEF NoBatch
<1>2. Cycle.cursor \in Findings \union {0} /\ Cycle.cutoff \in Times /\ Cycle.failed \in Nat /\ Cycle.began \in Nat
  BY CycleType
<1> PICK b : b = [NoBatch EXCEPT !.step = "resolved", !.cursor = Cycle.cursor, !.cutoff = Cycle.cutoff,
                                 !.failed = Cycle.failed, !.began = Cycle.began]
  OBVIOUS
<1>3. batch' = [batch EXCEPT !["locked"] = b] /\ batch["locked"].step = "idle"
  BY DEF StartBatch, In
<1>4. batch \in [Batches -> BatchType] /\ "locked" \in Batches
  BY DEF TypeOK, Batches
<1>5. /\ b \in BatchType /\ b.step = "resolved" /\ b.page = NoBatch.page /\ b.stale = NoBatch.stale
      /\ b.doneAt = NoBatch.doneAt /\ b.failed = Cycle.failed /\ SameCycle(b, Cycle)
  BY <1>1, <1>2 DEF BatchType, SameCycle
<1>6. batch' = [q \in Batches |-> IF q = "locked" THEN b ELSE batch[q]]
  BY <1>3, <1>4
<1> QED BY <1>1, <1>3, <1>5, <1>6 DEF Replaced

LEMMA ListEffect ==
  ASSUME TypeOK, NEW p \in Batches, ListPage(p)
  PROVE  \E b : /\ Replaced(p, b) /\ batch[p].step = "resolved" /\ b.step = "listed"
                /\ b.page = {<<f, record[f].version>> : f \in Listed(b.cursor, b.cutoff)}
                /\ b.stale = batch[p].stale /\ b.doneAt = batch[p].doneAt
                /\ SameCycle(b, batch[p]) /\ b.failed = batch[p].failed
<1> DEFINE pg == {<<f, record[f].version>> : f \in Listed(batch[p].cursor, batch[p].cutoff)}
<1>1. pg \in Entries
  <2>1. \A f \in Findings : <<f, record[f].version>> \in Findings \X Versions
    BY DEF TypeOK
  <2>2. Listed(batch[p].cursor, batch[p].cutoff) \in SUBSET Findings
    BY DEF Listed
  <2> QED BY <2>1, <2>2 DEF Entries
<1> PICK o : o = batch[p]
  OBVIOUS
<1>2. o \in BatchType /\ batch \in [Batches -> BatchType]
  BY DEF TypeOK
<1> PICK b : b = [o EXCEPT !.step = "listed", !.page = pg]
  OBVIOUS
<1>3. o.step = "resolved" /\ batch' = [batch EXCEPT ![p].step = "listed", ![p].page = pg]
  BY DEF ListPage, In
<1> HIDE DEF pg
<1>4. batch' = [q \in Batches |-> IF q = p THEN b ELSE batch[q]]
  BY <1>2, <1>3
<1>5. /\ b \in BatchType /\ b.step = "listed" /\ b.page = pg /\ b.stale = o.stale
      /\ b.doneAt = o.doneAt /\ b.failed = o.failed /\ SameCycle(b, o)
  BY <1>1, <1>2 DEF BatchType, SameCycle
<1>6. pg = {<<f, record[f].version>> : f \in Listed(b.cursor, b.cutoff)}
  BY <1>5 DEF pg, SameCycle
<1>7. Replaced(p, b)
  BY <1>4, <1>5 DEF Replaced
<1>8. b.page = {<<f, record[f].version>> : f \in Listed(b.cursor, b.cutoff)}
  BY <1>5, <1>6
<1> QED BY <1>3, <1>5, <1>7, <1>8

LEMMA PageCount ==
  ASSUME NEW b \in BatchType
  PROVE  IsFiniteSet(b.page) /\ Cardinality(b.page) \in Nat
<1>1. b.page \in SUBSET (Findings \X Versions)
  BY DEF BatchType, Entries
<1>2. IsFiniteSet(Findings \X Versions)
  <2>1. IsFiniteSet(0 .. MaxVersion)
    BY BoundsAssumption, FS_Interval
  <2> QED BY <2>1, FindingsAssumption, FS_Product DEF Versions
<1> QED BY <1>1, <1>2, FS_Subset, FS_CardinalityType

LEMMA InspectEffect ==
  ASSUME TypeOK, NEW p \in Batches, Inspect(p)
  PROVE  \E b : /\ Replaced(p, b) /\ batch[p].step = "listed" /\ b.step = "inspected"
                /\ b.page = batch[p].page /\ b.doneAt = batch[p].doneAt /\ SameCycle(b, batch[p])
                /\ \/ /\ b.stale = {r \in b.page : index.version[r[1]] < r[2]}
                      /\ b.failed = batch[p].failed /\ NoIncident
                   \/ /\ b.failed = batch[p].failed + Cardinality(b.page)
                      /\ b.stale = batch[p].stale /\ Incident
<1> PICK o : o = batch[p]
  OBVIOUS
<1>1. o \in BatchType /\ batch \in [Batches -> BatchType] /\ o.step = "listed"
  BY DEF TypeOK, Inspect, In
<1>2. ASSUME NEW st, st = {r \in o.page : index.version[r[1]] < r[2]},
             batch' = [batch EXCEPT ![p].step = "inspected", ![p].stale = st], NoIncident
      PROVE  \E b : /\ Replaced(p, b) /\ b.step = "inspected"
                    /\ b.page = o.page /\ b.doneAt = o.doneAt /\ SameCycle(b, o)
                    /\ b.stale = {r \in b.page : index.version[r[1]] < r[2]} /\ b.failed = o.failed
  <2>1. st \in Entries
    BY <1>1, <1>2 DEF BatchType, Entries
  <2> PICK b : b = [o EXCEPT !.step = "inspected", !.stale = st]
    OBVIOUS
  <2>2. batch' = [q \in Batches |-> IF q = p THEN b ELSE batch[q]]
    BY <1>1, <1>2
  <2>3. /\ b \in BatchType /\ b.step = "inspected" /\ b.page = o.page /\ b.stale = st
        /\ b.doneAt = o.doneAt /\ b.failed = o.failed /\ SameCycle(b, o)
    BY <1>1, <2>1 DEF BatchType, SameCycle
  <2> QED BY <1>2, <2>2, <2>3 DEF Replaced
<1>3. ASSUME NEW n, n = o.failed + Cardinality(o.page),
             batch' = [batch EXCEPT ![p].step = "inspected", ![p].failed = n], Incident
      PROVE  \E b : /\ Replaced(p, b) /\ b.step = "inspected"
                    /\ b.page = o.page /\ b.doneAt = o.doneAt /\ SameCycle(b, o)
                    /\ b.failed = o.failed + Cardinality(b.page) /\ b.stale = o.stale
  <2>1. n \in Nat
    BY <1>1, <1>3, PageCount DEF BatchType
  <2> PICK b : b = [o EXCEPT !.step = "inspected", !.failed = n]
    OBVIOUS
  <2>2. batch' = [q \in Batches |-> IF q = p THEN b ELSE batch[q]]
    BY <1>1, <1>3
  <2>3. /\ b \in BatchType /\ b.step = "inspected" /\ b.page = o.page /\ b.stale = o.stale
        /\ b.doneAt = o.doneAt /\ b.failed = n /\ SameCycle(b, o)
    BY <1>1, <2>1 DEF BatchType, SameCycle
  <2> QED BY <1>3, <2>2, <2>3 DEF Replaced
<1>4. \/ /\ batch' = [batch EXCEPT ![p].step = "inspected",
                                   ![p].stale = {r \in o.page : index.version[r[1]] < r[2]}]
         /\ NoIncident
      \/ /\ batch' = [batch EXCEPT ![p].step = "inspected",
                                   ![p].failed = o.failed + Cardinality(o.page)]
         /\ Incident
  BY DEF Inspect
<1> QED BY <1>1, <1>2, <1>3, <1>4

LEMMA ProjectedEffect ==
  ASSUME TypeOK, NEW f \in Findings, NEW v \in Versions, NEW i, i = Projected(f, v)
  PROVE  /\ i \in [uuid : Nat, version : [Findings -> Versions]] /\ i.uuid = index.uuid
         /\ \A g \in Findings : g # f => i.version[g] = index.version[g]
         /\ i.version[f] = IF index.version[f] < v THEN v ELSE index.version[f]
<1>1. index \in [uuid : Nat, version : [Findings -> Versions]]
  BY DEF TypeOK
<1> DEFINE w == IF index.version[f] < v THEN v ELSE index.version[f]
<1>2. w \in Versions
  BY <1>1
<1>3. i = [index EXCEPT !.version[f] = w]
  BY DEF Projected
<1> HIDE DEF w
<1>4. i = [index EXCEPT !.version = [index.version EXCEPT ![f] = w]]
  BY <1>1, <1>3
<1>5. i.uuid = index.uuid /\ i.version = [index.version EXCEPT ![f] = w]
  BY <1>1, <1>4
<1>6. [index.version EXCEPT ![f] = w] \in [Findings -> Versions]
  BY <1>1, <1>2
<1>7. i \in [uuid : Nat, version : [Findings -> Versions]]
  BY <1>1, <1>4, <1>6
<1>8. i.version[f] = w /\ \A g \in Findings : g # f => i.version[g] = index.version[g]
  BY <1>1, <1>5
<1> QED BY <1>5, <1>7, <1>8 DEF w

LEMMA ProjectEffect ==
  ASSUME TypeOK, NEW p \in Batches, ProjectStale(p)
  PROVE  \E b, r :
           /\ Replaced(p, b) /\ batch[p].step = "inspected" /\ b.step = "inspected"
           /\ r \in batch[p].stale /\ b.stale = batch[p].stale \ {r}
           /\ b.page = batch[p].page /\ b.doneAt = batch[p].doneAt /\ SameCycle(b, batch[p])
           /\ \/ index' = Projected(r[1], r[2]) /\ b.failed = batch[p].failed /\ NoIncident
              \/ /\ index' = index \/ index' = Projected(r[1], r[2])
                 /\ b.failed = batch[p].failed + 1 /\ Incident
<1> PICK o : o = batch[p]
  OBVIOUS
<1>1. o \in BatchType /\ batch \in [Batches -> BatchType] /\ o.step = "inspected"
  BY DEF TypeOK, ProjectStale, PageDone, In
<1>2. PICK r \in o.stale :
        \/ /\ index' = Projected(r[1], r[2])
           /\ batch' = [batch EXCEPT ![p].stale = o.stale \ {r}]
           /\ NoIncident
        \/ /\ index' \in {index, Projected(r[1], r[2])}
           /\ batch' = [batch EXCEPT ![p].stale = o.stale \ {r}, ![p].failed = o.failed + 1]
           /\ Incident
  BY DEF ProjectStale
<1> PICK st, n : st = o.stale \ {r} /\ n = o.failed + 1
  OBVIOUS
<1>3. ASSUME batch' = [batch EXCEPT ![p].stale = st]
      PROVE  \E b : /\ Replaced(p, b) /\ b.step = "inspected" /\ b.stale = st
                    /\ b.page = o.page /\ b.doneAt = o.doneAt /\ SameCycle(b, o)
                    /\ b.failed = o.failed
  <2>1. st \in Entries
    BY <1>1 DEF BatchType, Entries
  <2> PICK b : b = [o EXCEPT !.stale = st]
    OBVIOUS
  <2>2. batch' = [q \in Batches |-> IF q = p THEN b ELSE batch[q]]
    BY <1>1, <1>3
  <2>3. /\ b \in BatchType /\ b.step = "inspected" /\ b.page = o.page /\ b.stale = st
        /\ b.doneAt = o.doneAt /\ b.failed = o.failed /\ SameCycle(b, o)
    BY <1>1, <2>1 DEF BatchType, SameCycle
  <2> QED BY <2>2, <2>3 DEF Replaced
<1>4. ASSUME batch' = [batch EXCEPT ![p].stale = st, ![p].failed = n]
      PROVE  \E b : /\ Replaced(p, b) /\ b.step = "inspected" /\ b.stale = st
                    /\ b.page = o.page /\ b.doneAt = o.doneAt /\ SameCycle(b, o)
                    /\ b.failed = n
  <2>1. st \in Entries /\ n \in Nat
    BY <1>1 DEF BatchType, Entries
  <2> PICK b : b = [o EXCEPT !.stale = st, !.failed = n]
    OBVIOUS
  <2>2. batch' = [q \in Batches |-> IF q = p THEN b ELSE batch[q]]
    BY <1>1, <1>4
  <2>3. /\ b \in BatchType /\ b.step = "inspected" /\ b.page = o.page /\ b.stale = st
        /\ b.doneAt = o.doneAt /\ b.failed = n /\ SameCycle(b, o)
    BY <1>1, <2>1 DEF BatchType, SameCycle
  <2> QED BY <2>2, <2>3 DEF Replaced
<1>5. CASE /\ index' = Projected(r[1], r[2])
           /\ batch' = [batch EXCEPT ![p].stale = st]
           /\ NoIncident
  <2>1. PICK b : /\ Replaced(p, b) /\ b.step = "inspected" /\ b.stale = st
                 /\ b.page = o.page /\ b.doneAt = o.doneAt /\ SameCycle(b, o)
                 /\ b.failed = o.failed
    BY <1>3, <1>5
  <2> QED BY <1>1, <1>2, <1>5, <2>1
<1>6. CASE /\ index' \in {index, Projected(r[1], r[2])}
           /\ batch' = [batch EXCEPT ![p].stale = st, ![p].failed = n]
           /\ Incident
  <2>1. PICK b : /\ Replaced(p, b) /\ b.step = "inspected" /\ b.stale = st
                 /\ b.page = o.page /\ b.doneAt = o.doneAt /\ SameCycle(b, o)
                 /\ b.failed = n
    BY <1>4, <1>6
  <2> QED BY <1>1, <1>2, <1>6, <2>1
<1>7. \/ /\ index' = Projected(r[1], r[2])
         /\ batch' = [batch EXCEPT ![p].stale = st]
         /\ NoIncident
      \/ /\ index' \in {index, Projected(r[1], r[2])}
         /\ batch' = [batch EXCEPT ![p].stale = st, ![p].failed = n]
         /\ Incident
  BY <1>2
<1> QED BY <1>5, <1>6, <1>7

LEMMA MarkEffect ==
  ASSUME TypeOK, NEW p \in Batches, WriteWatermark(p)
  PROVE  \E b : /\ Replaced(p, b) /\ batch[p].step = "inspected" /\ b.step = "marked"
                /\ b.page = batch[p].page /\ b.stale = batch[p].stale /\ SameCycle(b, batch[p])
                /\ b.failed = batch[p].failed /\ b.doneAt = clock
<1> PICK o : o = batch[p]
  OBVIOUS
<1>1. /\ o \in BatchType /\ batch \in [Batches -> BatchType] /\ o.step = "inspected"
      /\ clock \in Times
  BY BoundsAssumption DEF TypeOK, WriteWatermark, PageDone, In, Times
<1> PICK b : b = [o EXCEPT !.step = "marked", !.doneAt = clock]
  OBVIOUS
<1>2. batch' = [batch EXCEPT ![p].step = "marked", ![p].doneAt = clock]
  BY DEF WriteWatermark
<1>3. batch' = [q \in Batches |-> IF q = p THEN b ELSE batch[q]]
  BY <1>1, <1>2
<1>4. /\ b \in BatchType /\ b.step = "marked" /\ b.page = o.page /\ b.stale = o.stale
      /\ b.doneAt = clock /\ b.failed = o.failed /\ SameCycle(b, o)
  BY <1>1 DEF BatchType, SameCycle
<1> QED BY <1>1, <1>3, <1>4 DEF Replaced

(***************************************************************************)
(* Types, events, times and indexes.                                       *)
(***************************************************************************)
LEMMA InitBasic == Init => Basic
<1> SUFFICES ASSUME Init PROVE Basic
  OBVIOUS
<1> USE BoundsAssumption
<1>1. 0 \in Versions /\ 0 \in Times /\ clock \in 1 .. MaxClock /\ 0 \in 0 .. MaxIncidents
  BY DEF Init, Versions, Times
<1>2. batch \in [Batches -> BatchType] /\ \A p \in Batches : batch[p] = NoBatch
  BY NoBatchType DEF Init
<1>3. check \in CheckType
  BY <1>1 DEF Init, NoCheck, CheckType
<1>4. TypeOK
  BY <1>1, <1>2, <1>3 DEF Init, TypeOK
<1>5. EventsSound
  <2>1. phase = [e \in Events |-> "absent"] /\ begun = {} /\ projected = {}
    BY DEF Init, Outbox!Init
  <2>2. \A f \in Findings, v \in 1 .. MaxVersion :
          phase[EventOf(f, v)] = "absent" /\ ~(v <= record[f].version)
    BY <2>1, EventNumber DEF Init
  <2>3. \A f \in Findings : change[f] = 0
    BY DEF Init
  <2> QED BY <2>1, <2>2, <2>3 DEF EventsSound, Phases
<1>6. TimesSound /\ IndexSound
  BY <1>1 DEF Init, TimesSound, IndexSound, NoCheck
<1>7. BatchBasic(NoBatch)
  BY DEF Init, BatchBasic, NoBatch
<1> QED BY <1>2, <1>4, <1>5, <1>6, <1>7 DEF Basic

(* What is said of a batch stays true while time passes, records change    *)
(* and the index is rebuilt.                                               *)
LEMMA BatchGrows ==
  ASSUME NEW b \in BatchType, BatchBasic(b), TypeOK, TypeOK', clock <= clock',
         index.uuid <= index.uuid', \A f \in Findings : record[f].version <= record'[f].version
  PROVE  BatchBasic(b)'
<1>1. clock \in Nat /\ clock' \in Nat /\ index.uuid \in Nat /\ index'.uuid \in Nat
  BY DEF TypeOK
<1>2. b.cutoff \in Nat /\ b.doneAt \in Nat /\ b.began \in Nat
  BY BoundsAssumption DEF BatchType, Times
<1>3. ASSUME NEW r \in b.page PROVE r[2] <= record'[r[1]].version
  <2>1. r[1] \in Findings /\ r[2] \in Nat
    BY DEF BatchType, Entries, Versions
  <2>2. record[r[1]].version \in Nat /\ record'[r[1]].version \in Nat
    BY <2>1 DEF TypeOK, Versions
  <2>3. r[2] <= record[r[1]].version /\ record[r[1]].version <= record'[r[1]].version
    BY <2>1 DEF BatchBasic
  <2> QED BY <2>1, <2>2, <2>3
<1> QED BY <1>1, <1>2, <1>3 DEF BatchBasic

LEMMA NoBatchBasic ==
  ASSUME TypeOK
  PROVE  BatchBasic(NoBatch)
<1> QED BY DEF TypeOK, BatchBasic, NoBatch

LEMMA TickBasic ==
  ASSUME Basic, Tick
  PROVE  Basic'
<1> USE DEF triage, outbox, recon
<1>1. /\ clock' = clock + 1 /\ clock \in 1 .. MaxClock /\ clock < MaxClock /\ MaxClock \in Nat
      /\ UNCHANGED <<record, change, committed, phase, before, begun, projected, index, mark, state, batch, check, incidents>>
  BY BoundsAssumption DEF Tick, Basic, TypeOK
<1>2. TypeOK'
  BY <1>1 DEF Basic, TypeOK
<1>3. EventsSound' /\ IndexSound'
  BY <1>1 DEF Basic, EventsSound, IndexSound
<1>4. TimesSound'
  BY <1>1 DEF Basic, TypeOK, CheckType, TimesSound, Times
<1>5. ASSUME NEW p \in Batches PROVE BatchBasic(batch[p])'
  <2> PICK b : b = batch[p]
    OBVIOUS
  <2>1. b \in BatchType /\ BatchBasic(b) /\ batch'[p] = b
    BY <1>1 DEF Basic, TypeOK
  <2>2. BatchBasic(b)'
    BY <1>1, <1>2, <2>1, BatchGrows DEF Basic, TypeOK, Versions
  <2> QED BY <2>1, <2>2
<1> QED BY <1>2, <1>3, <1>4, <1>5 DEF Basic

LEMMA BeginBasic ==
  ASSUME Basic, NEW f \in Findings, BeginChange(f)
  PROVE  Basic'
<1> USE DEF triage, outbox, recon
<1>1. /\ change' = [change EXCEPT ![f] = clock]
      /\ incidents' = incidents \/ (incidents < MaxIncidents /\ incidents' = incidents + 1)
      /\ UNCHANGED <<clock, record, committed, phase, before, begun, projected, index, mark, state, batch, check>>
  BY DEF BeginChange, triageFrame, NoIncident, Incident
<1>2. clock \in 1 .. MaxClock /\ clock \in Times /\ incidents \in 0 .. MaxIncidents /\ MaxIncidents \in Nat
  BY BoundsAssumption DEF Basic, TypeOK, Times
<1>3. incidents' \in 0 .. MaxIncidents /\ (incidents' = 0 => incidents = 0)
  BY <1>1, <1>2
<1>4. TypeOK'
  BY <1>1, <1>2, <1>3 DEF Basic, TypeOK
<1>5. IndexSound'
  BY <1>1, <1>3 DEF Basic, IndexSound
<1>8. EventsSound'
  <2>1. \A g \in Findings : change'[g] # 0 => record[g].version < MaxVersion
    BY <1>1 DEF Basic, TypeOK, EventsSound, BeginChange
  <2> QED BY <1>1, <2>1 DEF Basic, EventsSound
<1>6. TimesSound'
  BY <1>1, <1>2 DEF Basic, TypeOK, TimesSound, Times
<1>7. ASSUME NEW p \in Batches PROVE BatchBasic(batch[p])'
  BY <1>1 DEF Basic, BatchBasic
<1> QED BY <1>4, <1>5, <1>6, <1>7, <1>8 DEF Basic

(* What a commit does to the record and to the event of its version.       *)
LEMMA CommitEffect ==
  ASSUME Basic, NEW f \in Findings, CommitChange(f)
  PROVE  \E v \in 1 .. MaxVersion, e \in Events :
           /\ v = record[f].version + 1 /\ e = EventOf(f, v) /\ change[f] # 0
           /\ record' = [record EXCEPT ![f] = [version |-> v, at |-> change[f]]]
           /\ change' = [change EXCEPT ![f] = 0]
           /\ committed' = [committed EXCEPT ![e] = clock]
           /\ phase[e] = "absent" /\ phase' = [phase EXCEPT ![e] = "queued"]
           /\ UNCHANGED <<clock, begun, projected, index, mark, state, batch, check, incidents>>
<1> USE DEF recon
<1> PICK v, e : v = record[f].version + 1 /\ e = EventOf(f, v)
  OBVIOUS
<1>1. /\ change[f] # 0
      /\ record' = [record EXCEPT ![f] = [version |-> v, at |-> change[f]]]
      /\ change' = [change EXCEPT ![f] = 0]
      /\ committed' = [committed EXCEPT ![e] = clock]
      /\ Outbox!Enqueue(e)
      /\ UNCHANGED <<triageFrame, incidents>>
  BY DEF CommitChange
<1>2. phase[e] = "absent" /\ phase' = [phase EXCEPT ![e] = "queued"] /\ UNCHANGED begun
  BY <1>1 DEF Outbox!Enqueue
<1>3. v \in 1 .. MaxVersion
  BY <1>1, BoundsAssumption DEF Basic, TypeOK, EventsSound, Versions
<1>4. e \in Events
  BY <1>3, EventNumber
<1> QED BY <1>1, <1>2, <1>3, <1>4 DEF triageFrame

LEMMA CommitBasic ==
  ASSUME Basic, NEW f \in Findings, CommitChange(f)
  PROVE  Basic'
<1>1. PICK v \in 1 .. MaxVersion, e \in Events :
        /\ v = record[f].version + 1 /\ e = EventOf(f, v) /\ change[f] # 0
        /\ record' = [record EXCEPT ![f] = [version |-> v, at |-> change[f]]]
        /\ change' = [change EXCEPT ![f] = 0]
        /\ committed' = [committed EXCEPT ![e] = clock]
        /\ phase[e] = "absent" /\ phase' = [phase EXCEPT ![e] = "queued"]
        /\ UNCHANGED <<clock, begun, projected, index, mark, state, batch, check, incidents>>
  BY CommitEffect
<1> PICK at : at = change[f]
  OBVIOUS
<1>2. /\ record \in [Findings -> [version : Versions, at : Times]] /\ change \in [Findings -> Times]
      /\ clock \in 1 .. MaxClock /\ v \in Versions /\ at \in Times /\ 0 \in Times
      /\ \A g \in Findings : record[g].version \in Nat
  BY BoundsAssumption DEF Basic, TypeOK, Versions, Times
<1>3. /\ record'[f] = [version |-> v, at |-> at]
      /\ \A g \in Findings : g # f => record'[g] = record[g]
      /\ record' \in [Findings -> [version : Versions, at : Times]]
  BY <1>1, <1>2
<1>4. \A g \in Findings : record[g].version <= record'[g].version
  BY <1>1, <1>2, <1>3
<1>5. TypeOK'
  <2>1. change' \in [Findings -> Times] /\ committed' \in [Events -> Times]
    BY <1>1, <1>2, BoundsAssumption DEF Basic, TypeOK, Times
  <2>2. \A g \in Findings : index'.version[g] <= record'[g].version
    <3> SUFFICES ASSUME NEW g \in Findings PROVE index.version[g] <= record'[g].version
      BY <1>1
    <3>1. index.version[g] \in Nat /\ record[g].version \in Nat /\ record'[g].version \in Nat
      BY <1>2, <1>3 DEF Basic, TypeOK, Versions
    <3>2. index.version[g] <= record[g].version
      BY DEF Basic, TypeOK
    <3> QED BY <1>4, <3>1, <3>2
  <2> QED BY <1>1, <1>3, <2>1, <2>2 DEF Basic, TypeOK
<1>6. EventsSound'
  <2>1. phase' \in [Events -> Phases] /\ begun' = begun /\ projected' = projected
    BY <1>1 DEF Basic, EventsSound, Phases
  <2>2. ASSUME NEW g \in Findings, NEW u \in 1 .. MaxVersion
        PROVE  phase'[EventOf(g, u)] # "absent" <=> u <= record'[g].version
    <3>1. EventOf(g, u) \in Events /\ (phase[EventOf(g, u)] # "absent" <=> u <= record[g].version)
      BY EventNumber DEF Basic, EventsSound
    <3>2. CASE g = f /\ u = v
      BY <1>1, <1>3, <3>1, <3>2 DEF Basic, EventsSound
    <3>3. CASE g # f
      <4>1. EventOf(g, u) # e
        BY <1>1, <3>3, EventNumber
      <4> QED BY <1>1, <1>3, <3>1, <3>3, <4>1 DEF Basic, EventsSound
    <3>4. CASE g = f /\ u # v
      <4>1. EventOf(g, u) # e
        BY <1>1, <3>4, EventNumber
      <4>2. u <= record[f].version <=> u <= v
        <5> PICK w : w = record[f].version
          OBVIOUS
        <5>1. w \in Nat /\ v = w + 1 /\ u \in Nat /\ u # v
          BY <1>1, <1>2, <3>4
        <5> QED BY <5>1
      <4> QED BY <1>1, <1>3, <3>1, <3>4, <4>1, <4>2 DEF Basic, EventsSound
    <3> QED BY <3>2, <3>3, <3>4
  <2>3. \A g \in Findings : change'[g] # 0 => record'[g].version < MaxVersion
    BY <1>1, <1>2, <1>3 DEF Basic, EventsSound
  <2>4. \A x \in begun : phase'[x] # "absent"
    BY <1>1 DEF Basic, EventsSound
  <2>5. begun \subseteq Events /\ projected \subseteq begun
    BY DEF Basic, EventsSound
  <2> QED BY <2>1, <2>2, <2>3, <2>4, <2>5 DEF EventsSound
<1>7. TimesSound'
  BY <1>1, <1>2, <1>3 DEF Basic, TimesSound
<1>8. IndexSound'
  BY <1>1 DEF Basic, IndexSound
<1>9. ASSUME NEW p \in Batches PROVE BatchBasic(batch[p])'
  <2> PICK b : b = batch[p]
    OBVIOUS
  <2>1. b \in BatchType /\ BatchBasic(b) /\ batch'[p] = b
    BY <1>1 DEF Basic, TypeOK
  <2>2. clock <= clock' /\ index.uuid <= index.uuid'
    BY <1>1, <1>2 DEF Basic, TypeOK
  <2>3. BatchBasic(b)'
    BY <1>4, <1>5, <2>1, <2>2, BatchGrows DEF Basic
  <2> QED BY <2>1, <2>3
<1> QED BY <1>5, <1>6, <1>7, <1>8, <1>9 DEF Basic

LEMMA CountedIncident ==
  ASSUME TypeOK, NoIncident \/ Incident
  PROVE  /\ incidents' \in 0 .. MaxIncidents /\ (incidents' = 0 => incidents = 0)
         /\ Incident => incidents' # 0
<1>1. incidents \in 0 .. MaxIncidents /\ MaxIncidents \in Nat
  BY BoundsAssumption DEF TypeOK
<1> QED BY <1>1 DEF NoIncident, Incident

LEMMA OutboxBasic ==
  ASSUME Basic, EventsSound', NoIncident \/ Incident,
         UNCHANGED <<clock, record, change, committed, projected, index, mark, state, batch, check>>
  PROVE  Basic'
<1>1. incidents' \in 0 .. MaxIncidents /\ (incidents' = 0 => incidents = 0)
  BY CountedIncident DEF Basic
<1>2. TypeOK'
  BY <1>1 DEF Basic, TypeOK
<1>3. TimesSound' /\ IndexSound'
  BY <1>1 DEF Basic, TimesSound, IndexSound
<1>4. \A p \in Batches : BatchBasic(batch[p])'
  BY DEF Basic, BatchBasic
<1> QED BY <1>2, <1>3, <1>4 DEF Basic

LEMMA DispatchBasic ==
  ASSUME Basic, NEW e \in Events, Dispatch(e)
  PROVE  Basic'
<1> USE DEF projectFrame, triage, recon
<1>1. /\ phase[e] = "queued" /\ begun' = begun \union {e} /\ NoIncident
      /\ UNCHANGED <<clock, record, change, committed, phase, projected, index, mark, state, batch, check>>
  BY DEF Dispatch, Outbox!Begin, NoIncident
<1>2. EventsSound'
  BY <1>1 DEF Basic, EventsSound
<1> QED BY <1>1, <1>2, OutboxBasic

(* An event that has been queued changes its phase.                        *)
LEMMA PhaseBasic ==
  ASSUME Basic, NEW e \in Events, NEW ph \in Phases \ {"absent"}, phase[e] # "absent",
         phase' = [phase EXCEPT ![e] = ph], NoIncident \/ Incident,
         UNCHANGED <<clock, record, change, committed, begun, projected, index, mark, state, batch, check>>
  PROVE  Basic'
<1>1. phase' \in [Events -> Phases] /\ \A x \in Events : phase'[x] # "absent" <=> phase[x] # "absent"
  BY DEF Basic, EventsSound
<1>2. \A f \in Findings, v \in 1 .. MaxVersion :
        phase'[EventOf(f, v)] # "absent" <=> v <= record[f].version
  BY <1>1, EventNumber DEF Basic, EventsSound
<1>3. begun \subseteq Events /\ \A x \in begun : phase'[x] # "absent"
  BY <1>1 DEF Basic, EventsSound
<1>4. EventsSound'
  BY <1>1, <1>2, <1>3 DEF Basic, EventsSound
<1> QED BY <1>4, OutboxBasic

LEMMA SettleBasic ==
  ASSUME Basic, NEW e \in Events, Settle(e)
  PROVE  Basic'
<1>1. /\ phase[e] = "queued" /\ phase' = [phase EXCEPT ![e] = "done"] /\ NoIncident
      /\ UNCHANGED <<clock, record, change, committed, begun, projected, index, mark, state, batch, check>>
  BY DEF Settle, Outbox!Finish, NoIncident, projectFrame, triage, recon
<1> QED BY <1>1, PhaseBasic DEF Phases

LEMMA ParkBasic ==
  ASSUME Basic, NEW e \in Events, Park(e)
  PROVE  Basic'
<1>1. /\ phase[e] = "queued" /\ phase' = [phase EXCEPT ![e] = "parked"] /\ Incident
      /\ UNCHANGED <<clock, record, change, committed, begun, projected, index, mark, state, batch, check>>
  BY DEF Park, Outbox!Park, projectFrame, triage, recon
<1> QED BY <1>1, PhaseBasic DEF Phases

LEMMA RequeueBasic ==
  ASSUME Basic, NEW e \in Events, Requeue(e)
  PROVE  Basic'
<1>1. /\ phase[e] = "parked" /\ phase' = [phase EXCEPT ![e] = "queued"] /\ NoIncident
      /\ UNCHANGED <<clock, record, change, committed, begun, projected, index, mark, state, batch, check>>
  BY DEF Requeue, Outbox!Requeue, NoIncident, projectFrame, triage, recon
<1> QED BY <1>1, PhaseBasic DEF Phases

(* A version that is projected was committed.                              *)
LEMMA ProjectedType ==
  ASSUME Basic, NEW f \in Findings, NEW v \in Versions, v <= record[f].version,
         NEW i, i = index \/ i = Projected(f, v)
  PROVE  /\ i \in [uuid : Nat, version : [Findings -> Versions]] /\ i.uuid = index.uuid
         /\ \A g \in Findings : i.version[g] <= record[g].version
         /\ \A g \in Findings : index.version[g] <= i.version[g]
         /\ i # index => v <= i.version[f]
<1>1. /\ index \in [uuid : Nat, version : [Findings -> Versions]] /\ TypeOK
      /\ \A g \in Findings : index.version[g] <= record[g].version /\ index.version[g] \in Nat
  BY DEF Basic, TypeOK, Versions
<1>2. CASE i = index
  BY <1>1, <1>2
<1>3. CASE i = Projected(f, v)
  <2>1. /\ i \in [uuid : Nat, version : [Findings -> Versions]] /\ i.uuid = index.uuid
        /\ \A g \in Findings : g # f => i.version[g] = index.version[g]
        /\ i.version[f] = IF index.version[f] < v THEN v ELSE index.version[f]
    BY <1>1, <1>3, ProjectedEffect
  <2>2. v \in Nat
    BY DEF Versions
  <2> HIDE DEF Versions
  <2> QED BY <1>1, <2>1, <2>2
<1> QED BY <1>2, <1>3

LEMMA HandleBasic ==
  ASSUME Basic, NEW e \in Events, HandleProjection(e)
  PROVE  Basic'
<1> PICK f, v : f = FindingOf(e) /\ v = VersionOf(e)
  OBVIOUS
<1>1. f \in Findings /\ v \in 1 .. MaxVersion /\ EventOf(f, v) = e
  BY EventNames
<1>2. /\ e \in begun /\ index' = Projected(f, v)
      /\ UNCHANGED <<clock, record, change, committed, mark, state, batch, check, phase, begun>>
      /\ projected' = projected \union {e} /\ NoIncident
  BY DEF HandleProjection, projectFrame, triage, recon, outbox, NoIncident
<1>3. v <= record[f].version /\ v \in Versions
  BY <1>1, <1>2, BoundsAssumption DEF Basic, EventsSound, Versions
<1>4. /\ index' \in [uuid : Nat, version : [Findings -> Versions]] /\ index'.uuid = index.uuid
      /\ \A g \in Findings : index'.version[g] <= record[g].version
  BY <1>1, <1>2, <1>3, ProjectedType
<1>5. incidents' \in 0 .. MaxIncidents /\ (incidents' = 0 => incidents = 0)
  BY <1>2, CountedIncident DEF Basic
<1>6. TypeOK'
  BY <1>2, <1>4, <1>5 DEF Basic, TypeOK
<1>7. EventsSound'
  BY <1>2 DEF Basic, EventsSound
<1>8. TimesSound' /\ IndexSound'
  BY <1>2, <1>4, <1>5 DEF Basic, TimesSound, IndexSound
<1>9. \A p \in Batches : BatchBasic(batch[p])'
  BY <1>2, <1>4 DEF Basic, BatchBasic
<1> QED BY <1>6, <1>7, <1>8, <1>9 DEF Basic

LEMMA RebuildBasic ==
  ASSUME Basic, Rebuild
  PROVE  Basic'
<1>1. /\ Incident /\ index' = [uuid |-> index.uuid + 1, version |-> [f \in Findings |-> 0]]
      /\ UNCHANGED <<clock, record, change, committed, mark, state, batch, check, phase, begun, projected>>
  BY DEF Rebuild, projectFrame, triage, recon, outbox
<1>2. incidents' \in 0 .. MaxIncidents /\ incidents' # 0
  BY <1>1, CountedIncident DEF Basic
<1>3. 0 \in Versions /\ index.uuid \in Nat /\ \A f \in Findings : record[f].version \in Nat
  BY BoundsAssumption DEF Basic, TypeOK, Versions
<1>4. /\ index' \in [uuid : Nat, version : [Findings -> Versions]] /\ index'.uuid = index.uuid + 1
      /\ \A f \in Findings : index'.version[f] = 0
  BY <1>1, <1>3
<1>5. \A n \in Nat : n <= index.uuid => n <= index'.uuid
  BY <1>3, <1>4
<1>6. mark.uuid \in Nat /\ state.began \in Nat /\ check.uuid \in Nat
  BY DEF Basic, TypeOK, CheckType
<1>7. TypeOK'
  <2>1. \A f \in Findings : index'.version[f] <= record[f].version
    BY <1>3, <1>4
  <2> QED BY <1>1, <1>2, <1>4, <1>5, <1>6, <2>1 DEF Basic, TypeOK
<1>8. EventsSound' /\ TimesSound'
  BY <1>1 DEF Basic, EventsSound, TimesSound
<1>9. IndexSound'
  <2>1. 1 <= index'.uuid
    BY <1>3, <1>4
  <2> QED BY <1>1, <1>2, <1>5, <1>6, <2>1 DEF Basic, IndexSound
<1>10. ASSUME NEW p \in Batches PROVE BatchBasic(batch[p])'
  <2>1. batch[p].began \in Nat /\ batch[p].began <= index.uuid /\ BatchBasic(batch[p])
    BY DEF Basic, TypeOK, BatchType, BatchBasic
  <2> QED BY <1>1, <1>5, <2>1 DEF BatchBasic
<1> QED BY <1>7, <1>8, <1>9, <1>10 DEF Basic

(* What the batches write.                                                 *)
StateBasic ==
  /\ state \in [cursor : Findings \union {0}, cutoff : Times, failed : Nat, began : Nat,
                through : Times, doneAt : Times]
  /\ state.cutoff <= clock /\ state.through <= state.doneAt /\ state.doneAt <= clock
  /\ state.began <= index.uuid

MarkBasic ==
  /\ mark \in [uuid : Nat, through : Times, doneAt : Times, failed : Nat, began : Nat]
  /\ mark.began <= mark.uuid /\ mark.uuid <= index.uuid /\ mark.through <= mark.doneAt
  /\ mark.through <= clock

LEMMA StateAndMark ==
  ASSUME Basic
  PROVE  /\ StateBasic /\ MarkBasic
         /\ UNCHANGED <<clock, state>> /\ index'.uuid = index.uuid => StateBasic'
         /\ UNCHANGED <<clock, mark>> /\ index'.uuid = index.uuid => MarkBasic'
<1>1. StateBasic /\ MarkBasic
  BY DEF Basic, TypeOK, TimesSound, IndexSound, StateBasic, MarkBasic
<1> QED BY <1>1 DEF StateBasic, MarkBasic

LEMMA ReplacedBasic ==
  ASSUME Basic, NEW p \in Batches, NEW b, Replaced(p, b),
         NoIncident \/ Incident,
         UNCHANGED <<clock, record, change, committed, phase, begun, projected, check>>,
         index' = index \/ \E r \in b.page : index' = Projected(r[1], r[2]),
         b.cutoff <= clock, b.doneAt <= clock, b.step = "marked" => b.cutoff <= b.doneAt,
         b.began <= index.uuid, b.stale \subseteq b.page, b.step = "resolved" => b.stale = {},
         \A r \in b.page : r[2] <= record[r[1]].version,
         index'.uuid = index.uuid => StateBasic' /\ MarkBasic'
  PROVE  Basic'
<1>1. /\ index' \in [uuid : Nat, version : [Findings -> Versions]] /\ index'.uuid = index.uuid
      /\ \A g \in Findings : index'.version[g] <= record[g].version
  <2>1. CASE index' = index
    BY <2>1 DEF Basic, TypeOK
  <2>2. CASE \E r \in b.page : index' = Projected(r[1], r[2])
    <3>1. PICK r \in b.page : index' = Projected(r[1], r[2])
      BY <2>2
    <3>2. r[1] \in Findings /\ r[2] \in Versions /\ r[2] <= record[r[1]].version
      BY DEF Replaced, BatchType, Entries
    <3> QED BY <3>1, <3>2, ProjectedType
  <2> QED BY <2>1, <2>2
<1>2. StateBasic' /\ MarkBasic'
  BY <1>1
<1>3. incidents' \in 0 .. MaxIncidents /\ (incidents' = 0 => incidents = 0)
  BY CountedIncident DEF Basic
<1>4. batch' \in [Batches -> BatchType]
  BY DEF Basic, TypeOK, Replaced
<1>5. TypeOK'
  <2>1. /\ clock' \in 1 .. MaxClock /\ check' \in CheckType
        /\ record' \in [Findings -> [version : Versions, at : Times]]
        /\ change' \in [Findings -> Times] /\ committed' \in [Events -> Times]
        /\ projected' \subseteq Events
        /\ \A g \in Findings : index'.version[g] <= record'[g].version
    BY <1>1 DEF Basic, TypeOK
  <2>2. StateBasic' /\ MarkBasic'
    BY <1>2
  <2> QED BY <1>1, <2>2, <1>3, <1>4, <2>1 DEF TypeOK, StateBasic, MarkBasic
<1>6. EventsSound'
  BY DEF Basic, EventsSound
<1>7. TimesSound' /\ IndexSound'
  BY <1>1, <1>2, <1>3 DEF Basic, TimesSound, IndexSound, StateBasic, MarkBasic
<1>8. ASSUME NEW q \in Batches PROVE BatchBasic(batch[q])'
  <2>1. CASE q = p
    <3>1. batch'[q] = b
      BY <2>1 DEF Replaced
    <3> QED BY <1>1, <3>1 DEF BatchBasic
  <2>2. CASE q # p
    <3>1. batch'[q] = batch[q] /\ BatchBasic(batch[q])
      BY <2>2 DEF Replaced, Basic
    <3> QED BY <1>1, <3>1 DEF BatchBasic
  <2> QED BY <2>1, <2>2
<1> QED BY <1>5, <1>6, <1>7, <1>8 DEF Basic

(* The batch itself, before the step.                                      *)
LEMMA BatchFacts ==
  ASSUME Basic, NEW p \in Batches
  PROVE  /\ batch[p] \in BatchType /\ BatchBasic(batch[p]) /\ TypeOK
         /\ batch[p].cutoff \in Nat /\ batch[p].doneAt \in Nat /\ batch[p].began \in Nat
         /\ batch[p].failed \in Nat /\ clock \in Nat /\ index.uuid \in Nat
<1>1. batch[p] \in BatchType /\ BatchBasic(batch[p]) /\ TypeOK
  BY DEF Basic, TypeOK
<1> QED BY <1>1, BoundsAssumption DEF TypeOK, BatchType, Times

LEMMA StartBasic ==
  ASSUME Basic, StartBatch
  PROVE  Basic'
<1>1. PICK b : /\ Replaced("locked", b) /\ b.step = "resolved" /\ b.page = {} /\ b.stale = {}
               /\ b.doneAt = 0 /\ SameCycle(b, Cycle)
  BY StartEffect DEF Basic
<1>2. NoIncident /\ UNCHANGED <<clock, record, change, committed, phase, begun, projected, check, index, mark, state>>
  BY DEF StartBatch, batchFrame, triage, outbox, NoIncident
<1>3. Cycle.cutoff <= clock /\ Cycle.began <= index.uuid
  <2>1. clock \in Nat /\ index.uuid \in Nat /\ state.cutoff <= clock /\ state.began <= index.uuid
    BY DEF Basic, TypeOK, TimesSound, IndexSound
  <2> QED BY <2>1 DEF Cycle, NewCycle
<1>4. StateBasic' /\ MarkBasic'
  BY <1>2, StateAndMark
<1>5. "locked" \in Batches /\ 0 <= clock
  BY DEF Batches, Basic, TypeOK
<1>6. b.cutoff <= clock /\ b.began <= index.uuid
  BY <1>1, <1>3 DEF SameCycle
<1> QED BY <1>1, <1>2, <1>4, <1>5, <1>6, ReplacedBasic

LEMMA ListBasic ==
  ASSUME Basic, NEW p \in Batches, ListPage(p)
  PROVE  Basic'
<1>1. PICK b : /\ Replaced(p, b) /\ batch[p].step = "resolved" /\ b.step = "listed"
               /\ b.page = {<<f, record[f].version>> : f \in Listed(b.cursor, b.cutoff)}
               /\ b.stale = batch[p].stale /\ b.doneAt = batch[p].doneAt
               /\ SameCycle(b, batch[p]) /\ b.failed = batch[p].failed
  BY ListEffect DEF Basic
<1>2. NoIncident /\ UNCHANGED <<clock, record, change, committed, phase, begun, projected, check, index, mark, state>>
  BY DEF ListPage, batchFrame, triage, outbox, NoIncident
<1>3. StateBasic' /\ MarkBasic'
  BY <1>2, StateAndMark
<1>4. \A r \in b.page : r[2] <= record[r[1]].version
  <2>1. \A f \in Findings : record[f].version \in Nat
    BY DEF Basic, TypeOK, Versions
  <2> PICK L : L = Listed(b.cursor, b.cutoff)
    OBVIOUS
  <2>2. L \subseteq Findings
    BY DEF Listed
  <2>3. ASSUME NEW r \in b.page PROVE r[2] <= record[r[1]].version
    <3>1. PICK f \in L : r = <<f, record[f].version>>
      BY <1>1
    <3>2. r[1] = f /\ r[2] = record[f].version
      BY <3>1
    <3> QED BY <2>1, <2>2, <3>2
  <2> QED BY <2>3
<1>5. b.stale \subseteq b.page /\ b.cutoff <= clock /\ b.doneAt <= clock /\ b.began <= index.uuid
  BY <1>1, BatchFacts DEF BatchBasic, SameCycle
<1> QED BY <1>1, <1>2, <1>3, <1>4, <1>5, ReplacedBasic

LEMMA InspectBasic ==
  ASSUME Basic, NEW p \in Batches, Inspect(p)
  PROVE  Basic'
<1>1. PICK b : /\ Replaced(p, b) /\ batch[p].step = "listed" /\ b.step = "inspected"
               /\ b.page = batch[p].page /\ b.doneAt = batch[p].doneAt /\ SameCycle(b, batch[p])
               /\ \/ /\ b.stale = {r \in b.page : index.version[r[1]] < r[2]}
                     /\ b.failed = batch[p].failed /\ NoIncident
                  \/ /\ b.failed = batch[p].failed + Cardinality(b.page)
                     /\ b.stale = batch[p].stale /\ Incident
  BY InspectEffect DEF Basic
<1>2. UNCHANGED <<clock, record, change, committed, phase, begun, projected, check, index, mark, state>>
  BY DEF Inspect, batchFrame, triage, outbox
<1>3. StateBasic' /\ MarkBasic'
  BY <1>2, StateAndMark
<1>4. b.stale \subseteq b.page
  BY <1>1, BatchFacts DEF BatchBasic
<1>5. /\ b.cutoff <= clock /\ b.doneAt <= clock /\ b.began <= index.uuid
      /\ \A r \in b.page : r[2] <= record[r[1]].version
  BY <1>1, BatchFacts DEF BatchBasic, SameCycle
<1> QED BY <1>1, <1>2, <1>3, <1>4, <1>5, ReplacedBasic

LEMMA ProjectBasic ==
  ASSUME Basic, NEW p \in Batches, ProjectStale(p)
  PROVE  Basic'
<1>1. PICK b, r :
           /\ Replaced(p, b) /\ batch[p].step = "inspected" /\ b.step = "inspected"
           /\ r \in batch[p].stale /\ b.stale = batch[p].stale \ {r}
           /\ b.page = batch[p].page /\ b.doneAt = batch[p].doneAt /\ SameCycle(b, batch[p])
           /\ index' = index \/ index' = Projected(r[1], r[2])
           /\ NoIncident \/ Incident
  BY ProjectEffect DEF Basic
<1>2. UNCHANGED <<clock, record, change, committed, phase, begun, projected, check, mark, state>>
  BY DEF ProjectStale, batchFrame, triage, outbox
<1>3. index'.uuid = index.uuid => StateBasic' /\ MarkBasic'
  BY <1>2, StateAndMark
<1>4. b.stale \subseteq b.page /\ r \in b.page
  BY <1>1, BatchFacts DEF BatchBasic
<1>5. /\ b.cutoff <= clock /\ b.doneAt <= clock /\ b.began <= index.uuid
      /\ \A x \in b.page : x[2] <= record[x[1]].version
  BY <1>1, BatchFacts DEF BatchBasic, SameCycle
<1> QED BY <1>1, <1>2, <1>3, <1>4, <1>5, ReplacedBasic

LEMMA DroppedBasic ==
  ASSUME Basic, NEW p \in Batches, batch' = [batch EXCEPT ![p] = NoBatch], NoIncident \/ Incident,
         UNCHANGED <<clock, record, change, committed, phase, begun, projected, check, index>>,
         StateBasic' /\ MarkBasic'
  PROVE  Basic'
<1>1. Replaced(p, NoBatch)
  BY Dropped DEF Basic, TypeOK
<1>2. 0 <= clock /\ 0 <= index.uuid
  BY DEF Basic, TypeOK
<1>3. /\ NoBatch.cutoff = 0 /\ NoBatch.doneAt = 0 /\ NoBatch.step = "idle" /\ NoBatch.began = 0
      /\ NoBatch.stale = {} /\ NoBatch.page = {}
  BY DEF NoBatch
<1> PICK b : b = NoBatch
  OBVIOUS
<1> QED BY <1>1, <1>2, <1>3, ReplacedBasic

(* The cursor that is saved is the last record of the page.                *)
LEMMA SaveEffect ==
  ASSUME Basic, NEW p \in Batches, SaveCursor(p)
  PROVE  \E f \in Findings :
           /\ batch[p].step = "inspected" /\ batch[p].stale = {}
           /\ Cardinality(batch[p].page) = PageSize
           /\ \E r \in batch[p].page : r[1] = f
           /\ \A r \in batch[p].page : r[1] <= f
           /\ state' \in [cursor : Findings \union {0}, cutoff : Times, failed : Nat, began : Nat,
                          through : Times, doneAt : Times]
           /\ state'.cursor = f /\ state'.cutoff = batch[p].cutoff /\ state'.failed = batch[p].failed
           /\ state'.began = batch[p].began /\ state'.through = state.through
           /\ state'.doneAt = state.doneAt
           /\ batch' = [batch EXCEPT ![p] = NoBatch] /\ NoIncident
           /\ UNCHANGED <<clock, record, change, committed, phase, begun, projected, check, index, mark>>
<1> PICK o : o = batch[p]
  OBVIOUS
<1>1. o \in BatchType
  BY BatchFacts
<1>2. PICK f \in {r[1] : r \in o.page} :
        /\ \A r \in o.page : r[1] <= f
        /\ state' = [state EXCEPT !.cursor = f, !.cutoff = o.cutoff,
                                  !.failed = o.failed, !.began = o.began]
  BY DEF SaveCursor
<1>3. f \in Findings /\ \E r \in o.page : r[1] = f
  BY <1>1 DEF BatchType, Entries
<1> PICK s : s = state
  OBVIOUS
<1>4. s \in [cursor : Findings \union {0}, cutoff : Times, failed : Nat, began : Nat,
             through : Times, doneAt : Times]
  BY DEF Basic, TypeOK
<1> PICK t : t = [s EXCEPT !.cursor = f, !.cutoff = o.cutoff, !.failed = o.failed, !.began = o.began]
  OBVIOUS
<1>5. /\ t \in [cursor : Findings \union {0}, cutoff : Times, failed : Nat, began : Nat,
                through : Times, doneAt : Times]
      /\ t.cursor = f /\ t.cutoff = o.cutoff /\ t.failed = o.failed /\ t.began = o.began
      /\ t.through = s.through /\ t.doneAt = s.doneAt
  BY <1>1, <1>3, <1>4 DEF BatchType
<1>6. state' = t
  BY <1>2
<1>7. /\ o.step = "inspected" /\ o.stale = {} /\ Cardinality(o.page) = PageSize
      /\ batch' = [batch EXCEPT ![p] = NoBatch] /\ NoIncident
      /\ UNCHANGED <<clock, record, change, committed, phase, begun, projected, check, index, mark>>
  BY DEF SaveCursor, PageDone, FullPage, In, NoIncident, batchFrame, triage, outbox
<1> QED BY <1>2, <1>3, <1>5, <1>6, <1>7

LEMMA SaveBasic ==
  ASSUME Basic, NEW p \in Batches, SaveCursor(p)
  PROVE  Basic'
<1>1. PICK f \in Findings :
           /\ state' \in [cursor : Findings \union {0}, cutoff : Times, failed : Nat, began : Nat,
                          through : Times, doneAt : Times]
           /\ state'.cutoff = batch[p].cutoff
           /\ state'.began = batch[p].began /\ state'.through = state.through
           /\ state'.doneAt = state.doneAt
           /\ batch' = [batch EXCEPT ![p] = NoBatch] /\ NoIncident
           /\ UNCHANGED <<clock, record, change, committed, phase, begun, projected, check, index, mark>>
  BY SaveEffect
<1>2. StateBasic'
  BY <1>1, BatchFacts, StateAndMark DEF StateBasic, BatchBasic
<1>3. MarkBasic'
  BY <1>1, StateAndMark
<1> QED BY <1>1, <1>2, <1>3, DroppedBasic

LEMMA WriteBasic ==
  ASSUME Basic, NEW p \in Batches, WriteWatermark(p)
  PROVE  Basic'
<1>1. PICK b : /\ Replaced(p, b) /\ batch[p].step = "inspected" /\ b.step = "marked"
               /\ b.page = batch[p].page /\ b.stale = batch[p].stale /\ SameCycle(b, batch[p])
               /\ b.failed = batch[p].failed /\ b.doneAt = clock
  BY MarkEffect DEF Basic
<1>2. /\ mark' = [uuid |-> index.uuid, through |-> batch[p].cutoff, doneAt |-> clock,
                  failed |-> batch[p].failed, began |-> batch[p].began]
      /\ NoIncident /\ UNCHANGED <<clock, record, change, committed, phase, begun, projected, check, index, state>>
  BY DEF WriteWatermark, batchFrame, triage, outbox, NoIncident
<1>3. /\ batch[p] \in BatchType /\ batch[p].cutoff <= clock /\ batch[p].began <= index.uuid
      /\ clock \in Times /\ index.uuid \in Nat /\ clock \in Nat
      /\ \A r \in batch[p].page : r[2] <= record[r[1]].version
      /\ batch[p].stale \subseteq batch[p].page
  BY BatchFacts, BoundsAssumption DEF BatchBasic, TypeOK, Times
<1>4. MarkBasic'
  BY <1>2, <1>3 DEF MarkBasic, BatchType
<1>5. StateBasic'
  BY <1>2, StateAndMark
<1>6. /\ b.cutoff <= clock /\ b.doneAt <= clock /\ b.cutoff <= b.doneAt /\ b.began <= index.uuid
  BY <1>1, <1>3 DEF SameCycle
<1> QED BY <1>1, <1>2, <1>3, <1>4, <1>5, <1>6, ReplacedBasic

LEMMA CompletedEffect ==
  ASSUME Basic, NEW p \in Batches, SaveCompleted(p)
  PROVE  /\ batch[p].step = "marked"
         /\ state' \in [cursor : Findings \union {0}, cutoff : Times, failed : Nat, began : Nat,
                        through : Times, doneAt : Times]
         /\ state'.cursor = 0 /\ state'.cutoff = 0 /\ state'.failed = batch[p].failed
         /\ state'.began = 0 /\ state'.through = batch[p].cutoff /\ state'.doneAt = batch[p].doneAt
         /\ batch' = [batch EXCEPT ![p] = NoBatch] /\ NoIncident
         /\ UNCHANGED <<clock, record, change, committed, phase, begun, projected, check, index, mark>>
<1>1. batch[p] \in BatchType /\ 0 \in Times
  BY BatchFacts, BoundsAssumption DEF Times
<1>2. state' = Completed(batch[p])
  BY DEF SaveCompleted
<1>3. state' \in [cursor : Findings \union {0}, cutoff : Times, failed : Nat, began : Nat,
                  through : Times, doneAt : Times]
  BY <1>1, <1>2 DEF Completed, BatchType
<1> QED BY <1>2, <1>3 DEF SaveCompleted, Completed, In, NoIncident, batchFrame, triage, outbox

LEMMA CompletedBasic ==
  ASSUME Basic, NEW p \in Batches, SaveCompleted(p)
  PROVE  Basic'
<1>1. StateBasic'
  BY CompletedEffect, BatchFacts DEF StateBasic, BatchBasic
<1>2. MarkBasic'
  BY CompletedEffect, StateAndMark
<1> QED BY <1>1, <1>2, CompletedEffect, DroppedBasic

LEMMA AbortBasic ==
  ASSUME Basic, NEW p \in Batches, Abort(p)
  PROVE  Basic'
<1>1. /\ batch' = [batch EXCEPT ![p] = NoBatch] /\ Incident
      /\ UNCHANGED <<clock, record, change, committed, phase, begun, projected, check, index, mark, state>>
  BY DEF Abort, batchFrame, triage, outbox
<1> QED BY <1>1, StateAndMark, DroppedBasic

LEMMA LoseEffect ==
  ASSUME Basic, LoseSession
  PROVE  /\ batch' \in [Batches -> BatchType] /\ batch'["locked"] = NoBatch
         /\ batch'["orphan"] = batch["locked"]
         /\ index.uuid = 1 /\ incidents < MaxIncidents /\ incidents' = MaxIncidents
         /\ UNCHANGED <<clock, record, change, committed, phase, begun, projected, check, index, mark, state>>
<1>1. batch' = [locked |-> NoBatch, orphan |-> batch["locked"]]
  BY DEF LoseSession
<1>2. batch["locked"] \in BatchType /\ NoBatch \in BatchType
  BY NoBatchType DEF Basic, TypeOK, Batches
<1>3. batch' \in [Batches -> BatchType]
  BY <1>1, <1>2 DEF Batches
<1> QED BY <1>1, <1>3 DEF LoseSession, batchFrame, triage, outbox

LEMMA LoseBasic ==
  ASSUME Basic, LoseSession
  PROVE  Basic'
<1>1. MaxIncidents \in 0 .. MaxIncidents /\ MaxIncidents # 0
  BY BoundsAssumption
<1>2. TypeOK'
  BY <1>1, LoseEffect DEF Basic, TypeOK
<1>3. EventsSound' /\ TimesSound' /\ IndexSound'
  BY <1>1, LoseEffect DEF Basic, EventsSound, TimesSound, IndexSound
<1>4. BatchBasic(NoBatch) /\ BatchBasic(batch["locked"])
  BY NoBatchBasic DEF Basic, Batches
<1>5. ASSUME NEW p \in Batches PROVE BatchBasic(batch[p])'
  <2>1. batch'[p] = NoBatch \/ batch'[p] = batch["locked"]
    BY LoseEffect DEF Batches
  <2> QED BY <1>4, <2>1, LoseEffect DEF BatchBasic
<1> QED BY <1>2, <1>3, <1>5 DEF Basic

LEMMA NoCheckType == NoCheck \in CheckType
<1>1. 0 \in Versions /\ 0 \in Times /\ 0 \in Nat
  BY BoundsAssumption DEF Versions, Times
<1> QED BY <1>1 DEF NoCheck, CheckType

LEMMA BegunType ==
  ASSUME TypeOK
  PROVE  Begun \in [Findings -> Versions]
<1>1. [f \in Findings |-> record[f].version] \in [Findings -> Versions]
  BY DEF TypeOK
<1>2. check.asked \in [Findings -> Versions]
  BY DEF TypeOK, CheckType
<1> QED BY <1>1, <1>2 DEF Begun

(* What a read makes of the check.                                         *)
LEMMA OutboxRead ==
  ASSUME TypeOK, ReadOutbox
  PROVE  /\ \/ check' = NoCheck
            \/ /\ ~EventLag /\ check.step # "marked" /\ check' \in CheckType
               /\ check'.quiet /\ check'.asked = Begun
               /\ check'.step = check.step /\ check'.through = check.through
               /\ check'.doneAt = check.doneAt /\ check'.uuid = check.uuid
         /\ UNCHANGED <<clock, record, change, committed, phase, begun, projected, index, mark, state, batch, incidents>>
<1>1. UNCHANGED <<clock, record, change, committed, phase, begun, projected, index, mark, state, batch, incidents>>
  BY DEF ReadOutbox, checkFrame, triage, outbox, recon
<1> PICK c, a : c = check /\ a = Begun
  OBVIOUS
<1>2. c \in CheckType /\ a \in [Findings -> Versions]
  BY BegunType DEF TypeOK
<1>3. CASE EventLag \/ check.step = "marked"
  BY <1>1, <1>3 DEF ReadOutbox
<1>4. CASE ~(EventLag \/ check.step = "marked")
  <2> PICK d : d = [c EXCEPT !.quiet = TRUE, !.asked = a]
    OBVIOUS
  <2>1. check' = d
    BY <1>4 DEF ReadOutbox
  <2>2. /\ d \in CheckType /\ d.quiet /\ d.asked = a /\ d.step = c.step
        /\ d.through = c.through /\ d.doneAt = c.doneAt /\ d.uuid = c.uuid
    BY <1>2 DEF CheckType
  <2> QED BY <1>1, <1>4, <2>1, <2>2
<1> QED BY <1>3, <1>4

LEMMA StateRead ==
  ASSUME TypeOK, ReadState
  PROVE  /\ \/ check' = NoCheck
            \/ /\ Reconciled /\ check.step = "idle" /\ check' \in CheckType
               /\ check'.step = "reconciled" /\ check'.asked = Begun
               /\ check'.through = state.through /\ check'.doneAt = state.doneAt
               /\ check'.quiet = check.quiet /\ check'.uuid = check.uuid
         /\ UNCHANGED <<clock, record, change, committed, phase, begun, projected, index, mark, state, batch, incidents>>
<1>1. UNCHANGED <<clock, record, change, committed, phase, begun, projected, index, mark, state, batch, incidents>>
  BY DEF ReadState, checkFrame, triage, outbox, recon
<1> PICK c, a, th, dn : c = check /\ a = Begun /\ th = state.through /\ dn = state.doneAt
  OBVIOUS
<1>2. c \in CheckType /\ a \in [Findings -> Versions] /\ th \in Times /\ dn \in Times
  BY BegunType DEF TypeOK
<1>3. CASE ~Reconciled
  BY <1>1, <1>3 DEF ReadState
<1>4. CASE Reconciled
  <2> PICK d : d = [c EXCEPT !.step = "reconciled", !.asked = a, !.through = th, !.doneAt = dn]
    OBVIOUS
  <2>1. check' = d
    BY <1>4 DEF ReadState
  <2>2. /\ d \in CheckType /\ d.step = "reconciled" /\ d.asked = a /\ d.quiet = c.quiet
        /\ d.through = th /\ d.doneAt = dn /\ d.uuid = c.uuid
    BY <1>2 DEF CheckType
  <2> QED BY <1>1, <1>4, <2>1, <2>2 DEF ReadState
<1> QED BY <1>3, <1>4

LEMMA WatermarkRead ==
  ASSUME TypeOK, ReadWatermark
  PROVE  /\ \/ check' = NoCheck
            \/ /\ MarkMatches(check) /\ check.step = "reconciled" /\ check' \in CheckType
               /\ check'.step = "marked" /\ check'.asked = check.asked
               /\ check'.through = check.through
               /\ check'.quiet = FALSE /\ check'.uuid = Witnessed
         /\ UNCHANGED <<clock, record, change, committed, phase, begun, projected, index, mark, state, batch, incidents>>
<1>1. UNCHANGED <<clock, record, change, committed, phase, begun, projected, index, mark, state, batch, incidents>>
  BY DEF ReadWatermark, checkFrame, triage, outbox, recon
<1> PICK a, th, u : a = check.asked /\ th = check.through /\ u = Witnessed
  OBVIOUS
<1>2. a \in [Findings -> Versions] /\ th \in Times /\ u \in Nat
  BY DEF TypeOK, CheckType, Witnessed
<1>3. CASE ~(MarkMatches(check) /\ ~check.quiet)
  BY <1>1, <1>3 DEF ReadWatermark
<1>4. CASE MarkMatches(check) /\ ~check.quiet
  <2> PICK n : n = NoCheck
    OBVIOUS
  <2>1. n \in CheckType /\ n.quiet = FALSE
    BY NoCheckType DEF NoCheck
  <2> PICK d : d = [n EXCEPT !.step = "marked", !.asked = a, !.through = th, !.uuid = u]
    OBVIOUS
  <2>2. check' = d
    BY <1>4 DEF ReadWatermark
  <2>3. /\ d \in CheckType /\ d.step = "marked" /\ d.asked = a /\ d.through = th
        /\ d.quiet = n.quiet /\ d.uuid = u
    BY <1>2, <2>1 DEF CheckType
  <2> QED BY <1>1, <1>4, <2>1, <2>2, <2>3 DEF ReadWatermark
<1> QED BY <1>3, <1>4

LEMMA CheckBasic ==
  ASSUME Basic, ReadOutbox \/ ReadState \/ ReadWatermark
  PROVE  Basic'
<1>1. UNCHANGED <<clock, record, change, committed, phase, begun, projected, index, mark, state, batch, incidents>>
  BY OutboxRead, StateRead, WatermarkRead DEF Basic
<1>2. /\ NoCheck.uuid = 0 /\ Witnessed <= index.uuid /\ 0 <= index.uuid
      /\ NoCheck.through = 0 /\ 0 <= clock
  BY DEF NoCheck, Witnessed, Basic, TypeOK
<1>3. check' \in CheckType /\ check'.uuid <= index.uuid /\ check'.through <= clock
  <2>1. /\ check' \in CheckType
        /\ check'.uuid = 0 \/ check'.uuid = check.uuid \/ check'.uuid = Witnessed
        /\ check'.through = 0 \/ check'.through = check.through \/ check'.through = state.through
    <3>1. TypeOK
      BY DEF Basic
    <3>2. \/ check' = NoCheck
          \/ /\ check' \in CheckType
             /\ check'.uuid = check.uuid \/ check'.uuid = Witnessed
             /\ check'.through = check.through \/ check'.through = state.through
      <4>1. CASE ReadOutbox
        BY <3>1, <4>1, OutboxRead
      <4>2. CASE ReadState
        BY <3>1, <4>2, StateRead
      <4>3. CASE ReadWatermark
        BY <3>1, <4>3, WatermarkRead
      <4> QED BY <4>1, <4>2, <4>3
    <3> QED BY <1>2, <3>2, NoCheckType
  <2>2. state.through <= clock
    <3>1. state.through \in Nat /\ state.doneAt \in Nat /\ clock \in Nat
      BY BoundsAssumption DEF Basic, TypeOK, Times
    <3> QED BY <3>1 DEF Basic, TimesSound
  <2> QED BY <1>2, <2>1, <2>2 DEF Basic, IndexSound, TimesSound
<1>4. TypeOK'
  BY <1>1, <1>3 DEF Basic, TypeOK
<1>5. EventsSound' /\ TimesSound' /\ IndexSound'
  BY <1>1, <1>3 DEF Basic, EventsSound, TimesSound, IndexSound
<1>6. \A p \in Batches : BatchBasic(batch[p])'
  BY <1>1 DEF Basic, BatchBasic
<1> QED BY <1>4, <1>5, <1>6 DEF Basic

LEMMA StutterBasic ==
  ASSUME Basic, UNCHANGED vars
  PROVE  Basic'
<1>1. UNCHANGED <<clock, record, change, committed, phase, begun, projected, index, mark, state, batch, check, incidents>>
  BY DEF vars, triage, outbox, recon
<1>2. TypeOK' /\ EventsSound' /\ TimesSound' /\ IndexSound'
  BY <1>1 DEF Basic, TypeOK, EventsSound, TimesSound, IndexSound
<1>3. \A p \in Batches : BatchBasic(batch[p])'
  BY <1>1 DEF Basic, BatchBasic
<1> QED BY <1>2, <1>3 DEF Basic

LEMMA BasicKept == Basic /\ [Next]_vars => Basic'
<1> SUFFICES ASSUME Basic, [Next]_vars PROVE Basic'
  OBVIOUS
<1>1. CASE Tick
  BY <1>1, TickBasic
<1>2. ASSUME NEW f \in Findings, BeginChange(f) \/ CommitChange(f) PROVE Basic'
  BY <1>2, BeginBasic, CommitBasic
<1>3. ASSUME NEW e \in Events,
             Dispatch(e) \/ HandleProjection(e) \/ Settle(e) \/ Park(e) \/ Requeue(e)
      PROVE  Basic'
  BY <1>3, DispatchBasic, HandleBasic, SettleBasic, ParkBasic, RequeueBasic
<1>4. CASE Rebuild
  BY <1>4, RebuildBasic
<1>5. CASE StartBatch
  BY <1>5, StartBasic
<1>6. ASSUME NEW p \in Batches, BatchStep(p) \/ Abort(p) PROVE Basic'
  BY <1>6, ListBasic, InspectBasic, ProjectBasic, SaveBasic, WriteBasic, CompletedBasic, AbortBasic
     DEF BatchStep
<1>7. CASE LoseSession
  BY <1>7, LoseBasic
<1>8. CASE ReadOutbox \/ ReadState \/ ReadWatermark
  BY <1>8, CheckBasic
<1>9. CASE UNCHANGED vars
  BY <1>9, StutterBasic
<1> QED BY <1>1, <1>2, <1>3, <1>4, <1>5, <1>6, <1>7, <1>8, <1>9 DEF Next

(* Records, index, watermark, state, batches and checks keep their types:  *)
(* nothing is projected that was not committed, and the watermark names an *)
(* index that exists (projectFindingProjection, writeWatermark).           *)
THEOREM TypeCorrect == Spec => []TypeOK
<1>1. Basic => TypeOK
  BY DEF Basic
<1> QED BY InitBasic, BasicKept, <1>1, PTL DEF Spec

(***************************************************************************)
(* What the index holds.  GoodFrom(f, u, c): of the versions from u on,    *)
(* those that were projected, or committed before time c, are in the index.*)
(***************************************************************************)
Due(e, c) == e \in projected \/ committed[e] < c

GoodFrom(f, u, c) ==
  \A v \in 1 .. record[f].version : u <= v /\ Due(EventOf(f, v), c) => v <= index.version[f]

Good(f, c)    == GoodFrom(f, 1, c)
LatestGood(f) == GoodFrom(f, record[f].version, 0)

(* A cycle with this cutoff has not to look at the finding any more.       *)
Covered(f, cutoff) == Good(f, cutoff) \/ (record[f].at > cutoff /\ LatestGood(f))

(* A cycle that began on this index has covered what it has passed without *)
(* a failure, and a record that changed after its cutoff was projected by  *)
(* the listener, or will be when it gets to it.  The first index is that   *)
(* of every cycle.                                                         *)
Here(b)   == b.began = index.uuid \/ index.uuid = 1
Passed(b) == b.failed = 0 => \A f \in Findings : f <= b.cursor => Covered(f, b.cutoff)
Late(b)   == \A f \in Findings : record[f].at > b.cutoff => LatestGood(f)

CycleSound(b) == Here(b) => Passed(b) /\ Late(b)

(* Its page lacks nothing, and nothing above the versions it names.        *)
OnPage(b, f) == \E r \in b.page : r[1] = f
Behind(b, f) == f > b.cursor /\ (Cardinality(b.page) # PageSize \/ \E r \in b.page : f < r[1])

PageSound(b) ==
  Here(b) =>
    /\ \A r \in b.page : GoodFrom(r[1], r[2] + 1, b.cutoff)
    /\ \A f \in Findings : Behind(b, f) /\ ~OnPage(b, f) => Covered(f, b.cutoff)

InspectSound(b) ==
  Here(b) /\ b.failed = 0 => \A r \in b.page \ b.stale : r[2] <= index.version[r[1]]

(* At its end it has covered every record.                                 *)
EndSound(b) == Here(b) /\ b.failed = 0 => \A f \in Findings : Covered(f, b.cutoff)

BatchSound(b) ==
  /\ b.step # "idle" => CycleSound(b)
  /\ b.step \in {"listed", "inspected"} => PageSound(b)
  /\ b.step = "inspected" => InspectSound(b)
  /\ b.step = "marked" => EndSound(b)

CyclesSound ==
  /\ state.cursor # 0 => CycleSound(state)
  /\ \A p \in Batches : BatchSound(batch[p])

(* The watermark of a cycle that began and ended on this index without a   *)
(* failure vouches for every record; on the first index, so does the state *)
(* of a completed cycle.                                                   *)
MarkTrusted == mark.began = index.uuid /\ mark.uuid = index.uuid /\ mark.failed = 0
MarkSound   == MarkTrusted => \A f \in Findings : Covered(f, mark.through)

StateTrusted == index.uuid = 1 /\ state.cursor = 0 /\ state.failed = 0 /\ state.through # 0
StateSound   == StateTrusted => \A f \in Findings : Covered(f, state.through)

(* Unless a session was lost, which is explored on the first index only,   *)
(* cycles follow one another: one begins after the last one was saved.     *)
SessionLost == index.uuid = 1 /\ incidents = MaxIncidents

Successive ==
  /\ batch["orphan"].step = "idle"
  /\ state.cursor # 0 => state.doneAt <= state.cutoff
  /\ batch["locked"].step # "idle" => state.doneAt <= batch["locked"].cutoff
  /\ check.step = "reconciled" => check.doneAt <= state.doneAt

Serial == SessionLost \/ Successive

(* What a check has found out so far.                                      *)
AskedSound ==
  /\ \A f \in Findings : check.asked[f] <= record[f].version
  /\ check.quiet =>
       \A f \in Findings : check.asked[f] # 0 => phase[EventOf(f, check.asked[f])] = "done"

Matching == MarkTrusted /\ mark.through = check.through /\ mark.doneAt = check.doneAt

AnswerSound ==
  \/ check.step = "marked" /\ check.uuid = index.uuid
  \/ check.step = "reconciled" /\ (index.uuid = 1 \/ Matching)
  => \A f \in Findings : Good(f, check.through)

HealthInv ==
  /\ Basic /\ CyclesSound /\ MarkSound /\ StateSound
  /\ Serial /\ AskedSound /\ AnswerSound

(***************************************************************************)
(* Facts about one state.                                                  *)
(***************************************************************************)
LEMMA CommittedVersions ==
  ASSUME Basic, NEW f \in Findings
  PROVE  /\ record[f].version \in 0 .. MaxVersion /\ record[f].at \in Nat
         /\ index.version[f] \in 0 .. MaxVersion /\ index.version[f] <= record[f].version
         /\ ~EventLag => \A v \in 1 .. MaxVersion :
                           v <= record[f].version => phase[EventOf(f, v)] = "done"
<1>1. /\ record[f].version \in 0 .. MaxVersion /\ record[f].at \in Nat
      /\ index.version[f] \in 0 .. MaxVersion /\ index.version[f] <= record[f].version
  BY BoundsAssumption DEF Basic, TypeOK, Versions, Times
<1>2. ASSUME ~EventLag, NEW v \in 1 .. MaxVersion, v <= record[f].version
      PROVE  phase[EventOf(f, v)] = "done"
  <2>1. EventOf(f, v) \in Events /\ phase[EventOf(f, v)] # "absent"
    BY <1>2, EventNumber DEF Basic, EventsSound
  <2> QED BY <1>2, <2>1 DEF Basic, EventsSound, EventLag, Phases
<1> QED BY <1>1, <1>2

LEMMA GoodFacts ==
  ASSUME Basic, NEW f \in Findings, NEW c \in Nat
  PROVE  /\ record[f].version = 0 => Good(f, c)
         /\ GoodFrom(f, record[f].version + 1, c)
         /\ \A v \in Nat : GoodFrom(f, v + 1, c) /\ v <= index.version[f] => Good(f, c)
         /\ Covered(f, c) /\ record[f].at <= c => Good(f, c)
<1> PICK n, i, t : n = record[f].version /\ i = index.version[f] /\ t = record[f].at
  OBVIOUS
<1>1. n \in Nat /\ i \in Nat /\ t \in Nat
  BY BoundsAssumption, CommittedVersions
<1>2. n = 0 => Good(f, c)
  BY <1>1 DEF Good, GoodFrom
<1>3. GoodFrom(f, n + 1, c)
  BY <1>1 DEF GoodFrom
<1>4. ASSUME NEW v \in Nat, GoodFrom(f, v + 1, c), v <= i PROVE Good(f, c)
  <2> SUFFICES ASSUME NEW w \in 1 .. n, Due(EventOf(f, w), c) PROVE w <= i
    BY DEF Good, GoodFrom
  <2>1. v + 1 <= w => w <= i
    BY <1>4 DEF GoodFrom
  <2> QED BY <1>1, <1>4, <2>1
<1>5. Covered(f, c) /\ t <= c => Good(f, c)
  BY <1>1 DEF Covered
<1> QED BY <1>2, <1>3, <1>4, <1>5

(***************************************************************************)
(* What no step but a rebuild takes from the index.                        *)
(***************************************************************************)
Keeps ==
  /\ index'.uuid = index.uuid
  /\ \A f \in Findings : index.version[f] <= index'.version[f]
  /\ \A f \in Findings, u \in Nat, c \in Nat :
       c <= clock /\ GoodFrom(f, u, c) => GoodFrom(f, u, c)'
  /\ \A f \in Findings : LatestGood(f) => LatestGood(f)'
  /\ \A f \in Findings : record[f].at <= record'[f].at
  /\ \A f \in Findings : record'[f].at = record[f].at \/ LatestGood(f)'

LEMMA QuietKeeps ==
  ASSUME Basic, UNCHANGED <<record, committed, projected, index>>
  PROVE  Keeps
<1>1. \A f \in Findings, u \in Nat, c \in Nat : GoodFrom(f, u, c) => GoodFrom(f, u, c)'
  BY DEF GoodFrom, Due
<1>2. \A f \in Findings : LatestGood(f) => LatestGood(f)'
  BY DEF LatestGood, GoodFrom, Due
<1>3. \A f \in Findings : record[f].at \in Nat /\ index.version[f] \in Nat
  BY CommittedVersions
<1> QED BY <1>1, <1>2, <1>3 DEF Keeps

(* The version that is committed has not been projected yet, and no cycle  *)
(* that has begun owes it.                                                 *)
LEMMA CommitKeeps ==
  ASSUME Basic, NEW f \in Findings, CommitChange(f)
  PROVE  Keeps
<1>1. PICK v \in 1 .. MaxVersion, e \in Events :
        /\ v = record[f].version + 1 /\ e = EventOf(f, v) /\ change[f] # 0
        /\ record' = [record EXCEPT ![f] = [version |-> v, at |-> change[f]]]
        /\ committed' = [committed EXCEPT ![e] = clock]
        /\ phase[e] = "absent"
        /\ UNCHANGED <<projected, index>>
  BY CommitEffect
<1>2. /\ \A g \in Findings : record[g].at \in Nat /\ record[g].version \in 0 .. MaxVersion
                             /\ index.version[g] \in Nat
      /\ clock \in Nat /\ MaxVersion \in Nat
  BY CommittedVersions, BoundsAssumption DEF Basic, TypeOK
<1>3. \A g \in Findings : g # f => record'[g] = record[g]
  BY <1>1 DEF Basic, TypeOK
<1>4. record'[f].version = v /\ record'[f].at = change[f]
  BY <1>1 DEF Basic, TypeOK
<1>5. e \notin projected' /\ committed'[e] = clock
      /\ \A x \in Events : x # e => committed'[x] = committed[x]
  BY <1>1 DEF Basic, TypeOK, EventsSound
<1>6. ASSUME NEW g \in Findings, NEW w \in 1 .. record'[g].version, NEW c \in Nat, c <= clock,
             Due(EventOf(g, w), c)'
      PROVE  w \in 1 .. record[g].version /\ Due(EventOf(g, w), c)
  <2>1. w \in 1 .. MaxVersion
    BY <1>1, <1>2, <1>3, <1>4, <1>6
  <2>2. EventOf(g, w) # e
    BY <1>2, <1>5, <1>6 DEF Due
  <2>3. EventOf(g, w) \in Events
    BY <2>1, EventNumber
  <2>4. g # f \/ w # v
    BY <1>1, <2>2
  <2> QED BY <1>1, <1>2, <1>3, <1>4, <1>5, <1>6, <2>2, <2>3, <2>4 DEF Due
<1>7. \A g \in Findings, u \in Nat, c \in Nat : c <= clock /\ GoodFrom(g, u, c) => GoodFrom(g, u, c)'
  BY <1>1, <1>6 DEF GoodFrom
<1>8. record[f].at <= record'[f].at
  BY <1>1, <1>4 DEF Basic, TimesSound
<1>9. LatestGood(f)'
  <2>1. 0 \in Nat /\ 0 <= clock /\ v \in Nat
    BY <1>1, <1>2
  <2>2. GoodFrom(f, v, 0)
    BY <1>1, <2>1, GoodFacts
  <2>3. GoodFrom(f, v, 0)'
    BY <1>7, <2>1, <2>2
  <2> QED BY <1>4, <2>3 DEF LatestGood
<1>10. ASSUME NEW g \in Findings, g # f, LatestGood(g) PROVE LatestGood(g)'
  <2> PICK n : n = record[g].version
    OBVIOUS
  <2>1. n \in Nat /\ 0 \in Nat /\ 0 <= clock /\ GoodFrom(g, n, 0)
    BY <1>2, <1>10 DEF LatestGood
  <2>2. GoodFrom(g, n, 0)'
    BY <1>7, <2>1
  <2> QED BY <1>3, <1>10, <2>2 DEF LatestGood
<1> QED BY <1>1, <1>2, <1>3, <1>7, <1>8, <1>9, <1>10 DEF Keeps

(* A listener's event is projected with its version; a batch projects      *)
(* without.                                                                *)
LEMMA ProjectionKeeps ==
  ASSUME Basic, NEW f \in Findings, NEW v \in Versions, v <= record[f].version,
         index' = index \/ index' = Projected(f, v), UNCHANGED <<record, committed>>,
         \A g \in Findings, w \in 1 .. MaxVersion :
           EventOf(g, w) \in projected' =>
             EventOf(g, w) \in projected \/ (index' = Projected(f, v) /\ g = f /\ w = v)
  PROVE  Keeps /\ (index' = Projected(f, v) => v <= index'.version[f])
<1>1. /\ index'.uuid = index.uuid
      /\ \A g \in Findings : index.version[g] <= index'.version[g]
      /\ index' \in [uuid : Nat, version : [Findings -> Versions]]
  BY ProjectedType
<1>2. \A g \in Findings : /\ record[g].at \in Nat /\ record[g].version \in 0 .. MaxVersion
                          /\ index.version[g] \in Nat /\ index'.version[g] \in Nat
  BY <1>1, CommittedVersions DEF Versions
<1>3. v \in Nat
  BY DEF Versions
<1>4. index' = Projected(f, v) => v <= index'.version[f]
  <2> SUFFICES ASSUME index' = Projected(f, v) PROVE v <= index'.version[f]
    OBVIOUS
  <2>1. index'.version[f] = IF index.version[f] < v THEN v ELSE index.version[f]
    BY ProjectedEffect DEF Basic
  <2> QED BY <1>2, <1>3, <2>1
<1>5. ASSUME NEW g \in Findings, NEW u \in Nat, NEW c \in Nat, GoodFrom(g, u, c)
      PROVE  GoodFrom(g, u, c)'
  <2> SUFFICES ASSUME NEW w \in 1 .. record[g].version, u <= w, Due(EventOf(g, w), c)'
               PROVE  w <= index'.version[g]
    BY DEF GoodFrom
  <2>1. w \in 1 .. MaxVersion
    BY <1>2, BoundsAssumption
  <2>2. CASE Due(EventOf(g, w), c)
    <3>1. w <= index.version[g]
      BY <1>5, <2>2 DEF GoodFrom
    <3> QED BY <1>1, <1>2, <3>1
  <2>3. CASE index' = Projected(f, v) /\ g = f /\ w = v
    BY <1>4, <2>3
  <2> QED BY <2>1, <2>2, <2>3 DEF Due
<1>6. \A g \in Findings : LatestGood(g) => LatestGood(g)'
  BY <1>2, <1>5 DEF LatestGood
<1>7. \A g \in Findings : record[g].at <= record'[g].at
  BY <1>2
<1> QED BY <1>1, <1>4, <1>5, <1>6, <1>7 DEF Keeps

LEMMA HandleKeeps ==
  ASSUME Basic, NEW e \in Events, HandleProjection(e)
  PROVE  Keeps
<1> PICK f, v : f = FindingOf(e) /\ v = VersionOf(e)
  OBVIOUS
<1>1. f \in Findings /\ v \in 1 .. MaxVersion /\ EventOf(f, v) = e
  BY EventNames
<1>2. /\ e \in begun /\ index' = Projected(f, v) /\ UNCHANGED <<record, committed>>
      /\ projected' = projected \union {e}
  BY DEF HandleProjection, projectFrame, triage, outbox
<1>3. v <= record[f].version /\ v \in Versions
  BY <1>1, <1>2, BoundsAssumption DEF Basic, EventsSound, Versions
<1>4. \A g \in Findings, w \in 1 .. MaxVersion :
        EventOf(g, w) \in projected' => EventOf(g, w) \in projected \/ (g = f /\ w = v)
  BY <1>1, <1>2, EventNumber
<1> QED BY <1>1, <1>2, <1>3, <1>4, ProjectionKeeps

LEMMA ProjectKeeps ==
  ASSUME Basic, NEW p \in Batches, NEW r \in batch[p].stale,
         index' = index \/ index' = Projected(r[1], r[2]), UNCHANGED <<record, committed, projected>>
  PROVE  Keeps /\ (index' = Projected(r[1], r[2]) => r[2] <= index'.version[r[1]])
<1>1. r \in batch[p].page /\ r[2] <= record[r[1]].version
  BY BatchFacts DEF BatchBasic
<1>2. r[1] \in Findings /\ r[2] \in Versions
  BY <1>1, BatchFacts DEF BatchType, Entries
<1> PICK f, v : f = r[1] /\ v = r[2]
  OBVIOUS
<1> QED BY <1>1, <1>2, ProjectionKeeps

LEMMA StepKeeps ==
  ASSUME Basic, [Next]_vars
  PROVE  Keeps \/ Rebuild
<1>1. CASE Tick
  BY <1>1, QuietKeeps DEF Tick, triage, outbox
<1>2. ASSUME NEW f \in Findings, BeginChange(f) PROVE Keeps
  BY <1>2, QuietKeeps DEF BeginChange, triageFrame, outbox
<1>3. ASSUME NEW e \in Events, Dispatch(e) \/ Settle(e) \/ Park(e) \/ Requeue(e) PROVE Keeps
  <2>1. UNCHANGED <<record, committed, projected, index>>
    BY <1>3 DEF Dispatch, Settle, Park, Requeue, projectFrame, triage,
                Outbox!Finish, Outbox!Park, Outbox!Requeue
  <2> QED BY <2>1, QuietKeeps
<1>4. CASE StartBatch
  BY <1>4, QuietKeeps DEF StartBatch, batchFrame, triage, outbox
<1>5. ASSUME NEW p \in Batches, ListPage(p) \/ Inspect(p) \/ SaveCursor(p) \/ WriteWatermark(p)
                                \/ SaveCompleted(p) \/ Abort(p)
      PROVE  Keeps
  <2>1. UNCHANGED <<record, committed, projected, index>>
    BY <1>5 DEF ListPage, Inspect, SaveCursor, WriteWatermark, SaveCompleted, Abort,
                batchFrame, triage, outbox
  <2> QED BY <2>1, QuietKeeps
<1>6. ASSUME NEW p \in Batches, ProjectStale(p) PROVE Keeps
  <2>1. PICK r \in batch[p].stale : index' = index \/ index' = Projected(r[1], r[2])
    BY <1>6, ProjectEffect DEF Basic
  <2>2. UNCHANGED <<record, committed, projected>>
    BY <1>6 DEF ProjectStale, batchFrame, triage, outbox
  <2> QED BY <2>1, <2>2, ProjectKeeps
<1>7. CASE LoseSession
  BY <1>7, LoseEffect, QuietKeeps
<1>8. CASE ReadOutbox \/ ReadState \/ ReadWatermark
  BY <1>8, QuietKeeps DEF ReadOutbox, ReadState, ReadWatermark, checkFrame, triage, outbox
<1>9. CASE UNCHANGED vars
  BY <1>9, QuietKeeps DEF vars, triage, outbox
<1>10. ASSUME NEW e \in Events, HandleProjection(e) PROVE Keeps
  BY <1>10, HandleKeeps
<1>11. ASSUME NEW f \in Findings, CommitChange(f) PROVE Keeps
  BY <1>11, CommitKeeps
<1> QED BY <1>1, <1>2, <1>3, <1>4, <1>5, <1>6, <1>7, <1>8, <1>9, <1>10, <1>11 DEF Next, BatchStep

LEMMA KeepsCovered ==
  ASSUME Basic, Basic', Keeps, NEW f \in Findings, NEW c \in Nat, c <= clock
  PROVE  /\ Good(f, c) => Good(f, c)'
         /\ Covered(f, c) => Covered(f, c)'
         /\ (record[f].at > c => LatestGood(f)) => (record[f].at > c => LatestGood(f))'
<1>1. record[f].at \in Nat /\ record[f].at <= record'[f].at
  BY CommittedVersions DEF Keeps
<1>2. record'[f].at \in Nat
  BY BoundsAssumption DEF Basic, TypeOK, Times
<1>3. Good(f, c) => Good(f, c)'
  BY DEF Keeps, Good
<1>4. LatestGood(f) => LatestGood(f)'
  BY DEF Keeps
<1>5. record'[f].at = record[f].at \/ LatestGood(f)'
  BY DEF Keeps
<1>6. record[f].at > c => record'[f].at > c
  BY <1>1, <1>2
<1>7. Covered(f, c) => Covered(f, c)'
  BY <1>3, <1>4, <1>6 DEF Covered
<1> QED BY <1>3, <1>4, <1>5, <1>7

LEMMA KeepsCycle ==
  ASSUME Basic, Basic', Keeps, NEW b, b.cutoff \in Nat, b.cutoff <= clock
  PROVE  /\ CycleSound(b) => CycleSound(b)'
         /\ EndSound(b) => EndSound(b)'
<1>1. Here(b)' => Here(b)
  BY DEF Keeps, Here
<1>2. Passed(b) => Passed(b)'
  BY KeepsCovered DEF Passed
<1>3. Late(b) => Late(b)'
  BY KeepsCovered DEF Late
<1>4. \A f \in Findings : Covered(f, b.cutoff) => Covered(f, b.cutoff)'
  BY KeepsCovered
<1> QED BY <1>1, <1>2, <1>3, <1>4 DEF CycleSound, EndSound

LEMMA KeepsPage ==
  ASSUME Basic, Basic', Keeps, NEW b \in BatchType, b.cutoff <= clock
  PROVE  /\ PageSound(b) => PageSound(b)'
         /\ InspectSound(b) => InspectSound(b)'
<1>1. (Here(b)' => Here(b)) /\ b.cutoff \in Nat
  BY BoundsAssumption DEF Keeps, Here, BatchType, Times
<1>2. \A r \in b.page : r[1] \in Findings /\ r[2] \in Nat
  BY DEF BatchType, Entries, Versions
<1>3. ASSUME PageSound(b) PROVE PageSound(b)'
  <2>1. \A r \in b.page : GoodFrom(r[1], r[2] + 1, b.cutoff) => GoodFrom(r[1], r[2] + 1, b.cutoff)'
    BY <1>1, <1>2 DEF Keeps
  <2>2. \A f \in Findings : (Behind(b, f) /\ ~OnPage(b, f) => Covered(f, b.cutoff))
                              => (Behind(b, f) /\ ~OnPage(b, f) => Covered(f, b.cutoff))'
    BY <1>1, KeepsCovered DEF Behind, OnPage
  <2> QED BY <1>1, <1>3, <2>1, <2>2 DEF PageSound
<1>4. ASSUME InspectSound(b) PROVE InspectSound(b)'
  <2>1. ASSUME NEW r \in b.page, r[2] <= index.version[r[1]] PROVE r[2] <= index'.version[r[1]]
    <3>1. index.version[r[1]] \in Nat /\ index'.version[r[1]] \in Nat
      BY <1>2 DEF Basic, TypeOK, Versions
    <3>2. index.version[r[1]] <= index'.version[r[1]]
      BY <1>2 DEF Keeps
    <3> QED BY <1>2, <2>1, <3>1, <3>2
  <2> QED BY <1>1, <1>4, <2>1 DEF InspectSound
<1> QED BY <1>3, <1>4

LEMMA KeepsBatch ==
  ASSUME Basic, Basic', Keeps, NEW b \in BatchType, b.cutoff <= clock, BatchSound(b)
  PROVE  BatchSound(b)'
<1>1. b.cutoff \in Nat
  BY BoundsAssumption DEF BatchType, Times
<1> QED BY <1>1, KeepsCycle, KeepsPage DEF BatchSound

(* A rebuild: nothing that was said of the index before is said of the new *)
(* one.                                                                    *)
LEMMA RebuildVoids ==
  ASSUME Basic, Rebuild
  PROVE  /\ \A b : b.began \in Nat /\ b.began <= index.uuid => BatchSound(b)' /\ CycleSound(b)'
         /\ ~MarkTrusted' /\ index'.uuid # 1 /\ check.uuid # index'.uuid
         /\ incidents # MaxIncidents
<1>1. index'.uuid = index.uuid + 1 /\ incidents < MaxIncidents /\ UNCHANGED mark
  BY DEF Rebuild, Incident, projectFrame, triage, recon
<1>2. /\ index.uuid \in Nat /\ 1 <= index.uuid /\ mark.uuid \in Nat /\ mark.uuid <= index.uuid
      /\ check.uuid \in Nat /\ check.uuid <= index.uuid /\ MaxIncidents \in Nat /\ incidents \in Nat
  BY BoundsAssumption DEF Basic, TypeOK, IndexSound, CheckType
<1>3. index'.uuid # 1 /\ \A n \in Nat : n <= index.uuid => n # index'.uuid
  BY <1>1, <1>2
<1>4. ASSUME NEW b, b.began \in Nat, b.began <= index.uuid PROVE BatchSound(b)' /\ CycleSound(b)'
  <2>1. ~Here(b)'
    BY <1>3, <1>4 DEF Here
  <2> QED BY <2>1 DEF BatchSound, CycleSound, PageSound, InspectSound, EndSound
<1> QED BY <1>1, <1>2, <1>3, <1>4 DEF MarkTrusted

(***************************************************************************)
(* The cycles.                                                             *)
(***************************************************************************)
LEMMA StateNumbers ==
  ASSUME Basic
  PROVE  /\ state.cutoff \in Nat /\ state.doneAt \in Nat /\ state.through \in Nat
         /\ state.began \in Nat /\ state.failed \in Nat /\ state.began <= index.uuid
         /\ state.cutoff <= clock /\ state.through <= clock
         /\ clock \in Nat /\ index.uuid \in Nat
         /\ \A f \in Findings : record[f].at \in Nat /\ record[f].at <= clock
<1>1. \A f \in Findings : record[f].at \in Nat /\ record[f].at <= clock
  BY CommittedVersions DEF Basic, TimesSound
<1>2. /\ state.cutoff \in Nat /\ state.doneAt \in Nat /\ state.through \in Nat
      /\ state.began \in Nat /\ state.failed \in Nat /\ clock \in Nat /\ index.uuid \in Nat
  BY BoundsAssumption DEF Basic, TypeOK, Times
<1> QED BY <1>1, <1>2 DEF Basic, TimesSound, IndexSound

(* A cycle that begins: what has changed after now was projected.          *)
LEMMA CycleBegins ==
  ASSUME Basic, state.cursor # 0 => CycleSound(state)
  PROVE  CycleSound(Cycle)
<1>1. CASE state.cursor # 0
  BY <1>1 DEF Cycle, CycleSound, Here, Passed, Late
<1>2. CASE state.cursor = 0
  <2>1. Cycle = NewCycle
    BY <1>2 DEF Cycle
  <2>2. Passed(NewCycle)
    <3>1. \A f \in Findings : ~(f <= NewCycle.cursor)
      BY FindingsAssumption DEF NewCycle
    <3> QED BY <3>1 DEF Passed
  <2>3. Late(NewCycle)
    <3>1. \A f \in Findings : ~(record[f].at > NewCycle.cutoff)
      BY StateNumbers DEF NewCycle
    <3> QED BY <3>1 DEF Late
  <2> QED BY <2>1, <2>2, <2>3 DEF CycleSound
<1> QED BY <1>1, <1>2

(* The page that is listed: a record it leaves out has no need of it.      *)
LEMMA PageListed ==
  ASSUME Basic, NEW b \in BatchType, CycleSound(b),
         b.page = {<<f, record[f].version>> : f \in Listed(b.cursor, b.cutoff)}
  PROVE  PageSound(b)
<1> DEFINE due == {f \in Findings : record[f].version > 0 /\ record[f].at <= b.cutoff /\ f > b.cursor}
           L   == Listed(b.cursor, b.cutoff)
<1>1. L = {f \in due : Cardinality(Below(due, f)) < PageSize} /\ due \in SUBSET Findings
  BY DEF Listed, Below
<1>2. \A r \in b.page : \E f \in L : r = <<f, record[f].version>>
  OBVIOUS
<1>3. \A f \in L : <<f, record[f].version>> \in b.page
  OBVIOUS
<1>4. \A f \in Findings : f \in due <=> record[f].version > 0 /\ record[f].at <= b.cutoff /\ f > b.cursor
  OBVIOUS
<1>5. b.page = {<<f, record[f].version>> : f \in L}
  OBVIOUS
<1> HIDE DEF due, L
<1>6. /\ IsFiniteSet(L)
      /\ Cardinality(L) # PageSize => L = due
      /\ \A f \in L, g \in due : g < f => g \in L
  BY <1>1, FirstOfDue
<1>7. Cardinality(b.page) = Cardinality(L)
  BY <1>5, <1>6, PageSizeOf
<1>8. L \subseteq Findings
  BY <1>1
<1>0. b.cutoff \in Nat
  BY BoundsAssumption DEF BatchType, Times
<1>9. \A r \in b.page : GoodFrom(r[1], r[2] + 1, b.cutoff)
  <2> SUFFICES ASSUME NEW r \in b.page PROVE GoodFrom(r[1], r[2] + 1, b.cutoff)
    OBVIOUS
  <2>1. PICK f \in L : r = <<f, record[f].version>>
    BY <1>2
  <2>2. r[1] = f /\ r[2] = record[f].version
    BY <2>1
  <2> QED BY <1>0, <1>8, <2>2, GoodFacts
<1>10. ASSUME Here(b), NEW f \in Findings, Behind(b, f), ~OnPage(b, f)
       PROVE  Covered(f, b.cutoff)
  <2>1. f \notin L
    <3>1. f \in L => \E r \in b.page : r[1] = f
      BY <1>3
    <3> QED BY <1>10, <3>1 DEF OnPage
  <2>2. f \notin due
    <3>1. CASE Cardinality(b.page) # PageSize
      BY <1>6, <1>7, <2>1, <3>1
    <3>2. CASE \E r \in b.page : f < r[1]
      <4>1. PICK g \in L : f < g
        <5>1. PICK r \in b.page : f < r[1]
          BY <3>2
        <5>2. PICK g \in L : r = <<g, record[g].version>>
          BY <1>2
        <5> QED BY <5>1, <5>2
      <4> QED BY <1>6, <2>1, <4>1
    <3> QED BY <1>10, <3>1, <3>2 DEF Behind
  <2>3. record[f].version \in Nat /\ record[f].at \in Nat
    BY CommittedVersions
  <2>4. record[f].version = 0 \/ record[f].at > b.cutoff
    <3>1. ~(record[f].version > 0 /\ record[f].at <= b.cutoff)
      BY <1>4, <1>10, <2>2 DEF Behind
    <3> QED BY <1>0, <2>3, <3>1
  <2>5. record[f].at > b.cutoff => LatestGood(f)
    BY <1>10 DEF CycleSound, Late
  <2> QED BY <1>0, <2>4, <2>5, GoodFacts DEF Covered
<1> QED BY <1>9, <1>10 DEF PageSound

(* A page that is done covers its own records and those it leaves behind.  *)
LEMMA PageCovers ==
  ASSUME Basic, NEW b \in BatchType, BatchSound(b), b.step = "inspected", b.stale = {},
         Here(b), b.failed = 0,
         NEW f \in Findings, f <= b.cursor \/ OnPage(b, f) \/ Behind(b, f)
  PROVE  Covered(f, b.cutoff)
<1>1. Passed(b) /\ PageSound(b) /\ InspectSound(b)
  BY DEF BatchSound, CycleSound
<1>2. CASE f <= b.cursor
  BY <1>1, <1>2 DEF Passed
<1>3. CASE OnPage(b, f)
  <2>1. PICK r \in b.page : r[1] = f
    BY <1>3 DEF OnPage
  <2>2. r[2] \in Nat /\ GoodFrom(f, r[2] + 1, b.cutoff) /\ r[2] <= index.version[f]
    BY <1>1, <2>1 DEF BatchType, Entries, Versions, PageSound, InspectSound
  <2>3. b.cutoff \in Nat
    BY BoundsAssumption DEF BatchType, Times
  <2> QED BY <2>2, <2>3, GoodFacts DEF Covered
<1>4. CASE Behind(b, f) /\ ~OnPage(b, f)
  BY <1>1, <1>4 DEF PageSound
<1> QED BY <1>2, <1>3, <1>4

(* After a step of a batch that is no rebuild.                             *)
LEMMA OneBatch ==
  ASSUME Basic, Basic', Keeps, CyclesSound, NEW p \in Batches, NEW b, Replaced(p, b), BatchSound(b)',
         UNCHANGED state \/ (state'.cursor # 0 => CycleSound(state)')
  PROVE  CyclesSound'
<1>1. state'.cursor # 0 => CycleSound(state)'
  <2>1. ASSUME UNCHANGED state, state.cursor # 0 PROVE CycleSound(state)'
    <3> PICK s : s = state
      OBVIOUS
    <3>1. s.cutoff \in Nat /\ s.cutoff <= clock /\ CycleSound(s)
      BY <2>1, StateNumbers DEF CyclesSound
    <3>2. CycleSound(s)'
      BY <3>1, KeepsCycle
    <3> QED BY <2>1, <3>2 DEF CycleSound, Here, Passed, Late
  <2> QED BY <2>1
<1>2. ASSUME NEW q \in Batches PROVE BatchSound(batch[q])'
  <2>1. CASE q = p
    BY <2>1 DEF Replaced
  <2>2. CASE q # p
    <3> PICK o : o = batch[q]
      OBVIOUS
    <3>1. o \in BatchType /\ o.cutoff <= clock /\ BatchSound(o) /\ batch'[q] = o
      BY <2>2, BatchFacts DEF CyclesSound, Replaced, BatchBasic
    <3>2. BatchSound(o)'
      BY <3>1, KeepsBatch
    <3> QED BY <3>1, <3>2
  <2> QED BY <2>1, <2>2
<1> QED BY <1>1, <1>2 DEF CyclesSound

LEMMA IdleBatch == BatchSound(NoBatch)'
<1> QED BY DEF BatchSound, NoBatch

LEMMA StartCycles ==
  ASSUME Basic, Basic', Keeps, CyclesSound, StartBatch
  PROVE  CyclesSound'
<1>1. PICK b : /\ Replaced("locked", b) /\ b.step = "resolved"
               /\ SameCycle(b, Cycle) /\ b.failed = Cycle.failed
  BY StartEffect DEF Basic
<1>2. CycleSound(Cycle)
  BY CycleBegins DEF CyclesSound
<1>3. CycleSound(b)
  BY <1>1, <1>2 DEF SameCycle, CycleSound, Here, Passed, Late
<1>4. b \in BatchType /\ b.cutoff \in Nat /\ b.cutoff <= clock
  <2>1. clock <= clock
    BY StateNumbers
  <2>2. Cycle.cutoff <= clock
    BY <2>1, StateNumbers DEF Cycle, NewCycle
  <2> QED BY <1>1, <2>2, BoundsAssumption DEF Replaced, BatchType, Times, SameCycle
<1>5. CycleSound(b)'
  BY <1>3, <1>4, KeepsCycle
<1>6. BatchSound(b)'
  BY <1>1, <1>5 DEF BatchSound
<1>7. UNCHANGED state /\ "locked" \in Batches
  BY DEF StartBatch, Batches
<1> QED BY <1>1, <1>6, <1>7, OneBatch

LEMMA ListCycles ==
  ASSUME Basic, Basic', Keeps, CyclesSound, NEW p \in Batches, ListPage(p)
  PROVE  CyclesSound'
<1>1. PICK b : /\ Replaced(p, b) /\ batch[p].step = "resolved" /\ b.step = "listed"
               /\ b.page = {<<f, record[f].version>> : f \in Listed(b.cursor, b.cutoff)}
               /\ SameCycle(b, batch[p]) /\ b.failed = batch[p].failed
  BY ListEffect DEF Basic
<1>2. CycleSound(batch[p])
  BY <1>1 DEF CyclesSound, BatchSound
<1>3. b \in BatchType /\ CycleSound(b)
  BY <1>1, <1>2 DEF Replaced, SameCycle, CycleSound, Here, Passed, Late
<1>4. PageSound(b)
  BY <1>1, <1>3, PageListed
<1>5. BatchSound(b)
  BY <1>1, <1>3, <1>4 DEF BatchSound
<1>6. BatchSound(b)'
  <2>1. b.cutoff <= clock
    BY <1>1, BatchFacts DEF SameCycle, BatchBasic
  <2> QED BY <1>3, <1>5, <2>1, KeepsBatch
<1>7. UNCHANGED state
  BY DEF ListPage
<1> QED BY <1>1, <1>6, <1>7, OneBatch

(* A page whose comparison failed counts as failed, unless it was empty.   *)
LEMMA InspectCycles ==
  ASSUME Basic, Basic', Keeps, CyclesSound, NEW p \in Batches, Inspect(p)
  PROVE  CyclesSound'
<1>1. PICK b : /\ Replaced(p, b) /\ batch[p].step = "listed" /\ b.step = "inspected"
               /\ b.page = batch[p].page /\ SameCycle(b, batch[p])
               /\ \/ /\ b.stale = {r \in b.page : index.version[r[1]] < r[2]}
                     /\ b.failed = batch[p].failed
                  \/ b.failed = batch[p].failed + Cardinality(b.page)
  BY InspectEffect DEF Basic
<1>2. CycleSound(batch[p]) /\ PageSound(batch[p])
  BY <1>1 DEF CyclesSound, BatchSound
<1>3. /\ b \in BatchType /\ batch[p].failed \in Nat
      /\ Cardinality(b.page) \in Nat /\ IsFiniteSet(b.page)
  BY <1>1, BatchFacts, PageCount DEF Replaced
<1>4. b.failed = 0 => batch[p].failed = 0
  BY <1>1, <1>3
<1>5. CycleSound(b)
  BY <1>1, <1>2, <1>4 DEF SameCycle, CycleSound, Here, Passed, Late
<1>6. PageSound(b)
  BY <1>1, <1>2 DEF SameCycle, PageSound, Here, Behind, OnPage
<1>7. ASSUME b.failed = 0, NEW r \in b.page \ b.stale PROVE r[2] <= index.version[r[1]]
  <2>1. CASE b.stale = {x \in b.page : index.version[x[1]] < x[2]}
    <3>1. r[1] \in Findings /\ r[2] \in Nat
      BY <1>3, <1>7 DEF BatchType, Entries, Versions
    <3>2. index.version[r[1]] \in Nat /\ ~(index.version[r[1]] < r[2])
      BY <1>7, <2>1, <3>1, CommittedVersions
    <3> QED BY <3>1, <3>2
  <2>2. CASE b.failed = batch[p].failed + Cardinality(b.page)
    <3>1. Cardinality(b.page) = 0
      BY <1>3, <1>7, <2>2
    <3>2. b.page = {}
      BY <1>3, <3>1, FS_EmptySet
    <3> QED BY <1>7, <3>2
  <2> QED BY <1>1, <2>1, <2>2
<1>8. BatchSound(b)
  BY <1>1, <1>5, <1>6, <1>7 DEF BatchSound, InspectSound
<1>9. BatchSound(b)'
  <2>1. b.cutoff <= clock
    BY <1>1, BatchFacts DEF SameCycle, BatchBasic
  <2> QED BY <1>3, <1>8, <2>1, KeepsBatch
<1>10. UNCHANGED state
  BY DEF Inspect
<1> QED BY <1>1, <1>9, <1>10, OneBatch

LEMMA ProjectCycles ==
  ASSUME Basic, Basic', Keeps, CyclesSound, NEW p \in Batches, ProjectStale(p)
  PROVE  CyclesSound'
<1>1. PICK b, r :
        /\ Replaced(p, b) /\ batch[p].step = "inspected" /\ b.step = "inspected"
        /\ r \in batch[p].stale /\ b.stale = batch[p].stale \ {r}
        /\ b.page = batch[p].page /\ SameCycle(b, batch[p])
        /\ \/ index' = Projected(r[1], r[2]) /\ b.failed = batch[p].failed
           \/ (index' = index \/ index' = Projected(r[1], r[2])) /\ b.failed = batch[p].failed + 1
  BY ProjectEffect DEF Basic
<1>2. UNCHANGED <<record, committed, projected, state>>
  BY DEF ProjectStale, batchFrame, triage, outbox
<1> PICK o : o = batch[p]
  OBVIOUS
<1>3. o \in BatchType /\ o.cutoff <= clock /\ BatchSound(o) /\ o.failed \in Nat /\ b \in BatchType
  BY <1>1, BatchFacts DEF CyclesSound, Replaced, BatchBasic
<1>4. BatchSound(o)'
  BY <1>3, KeepsBatch
<1>5. b.failed = 0 => o.failed = 0
  BY <1>1, <1>3
<1>6. CycleSound(b)'
  BY <1>1, <1>4, <1>5 DEF BatchSound, SameCycle, CycleSound, Here, Passed, Late
<1>7. PageSound(b)'
  BY <1>1, <1>4 DEF BatchSound, SameCycle, PageSound, Here, Behind, OnPage
<1>8. ASSUME Here(b)', b.failed = 0, NEW x \in b.page \ b.stale
      PROVE  x[2] <= index'.version[x[1]]
  <2>1. CASE x \in o.page \ o.stale
    <3>1. InspectSound(o)' /\ Here(o)' /\ o.failed = 0
      BY <1>1, <1>4, <1>5, <1>8 DEF BatchSound, SameCycle, Here
    <3> QED BY <2>1, <3>1 DEF InspectSound
  <2>2. CASE x = r
    <3>1. index' = Projected(r[1], r[2])
      BY <1>1, <1>3, <1>8
    <3>2. r[2] <= index'.version[r[1]]
      BY <1>1, <1>2, <3>1, ProjectKeeps
    <3> QED BY <2>2, <3>2
  <2> QED BY <1>1, <1>8, <2>1, <2>2
<1>9. BatchSound(b)'
  BY <1>1, <1>6, <1>7, <1>8 DEF BatchSound, InspectSound
<1> QED BY <1>1, <1>2, <1>9, OneBatch

(* The cursor passes what the page has covered.                            *)
LEMMA SaveCycles ==
  ASSUME Basic, Basic', Keeps, CyclesSound, NEW p \in Batches, SaveCursor(p)
  PROVE  CyclesSound'
<1>1. PICK f \in Findings :
           /\ batch[p].step = "inspected" /\ batch[p].stale = {}
           /\ \E r \in batch[p].page : r[1] = f
           /\ state'.cursor = f /\ state'.cutoff = batch[p].cutoff /\ state'.failed = batch[p].failed
           /\ state'.began = batch[p].began
           /\ batch' = [batch EXCEPT ![p] = NoBatch]
           /\ UNCHANGED <<record, committed, projected, index>>
  BY SaveEffect
<1> PICK o, s : o = batch[p] /\ s = state'
  OBVIOUS
<1>2. o \in BatchType /\ BatchSound(o) /\ o.cutoff \in Nat /\ o.cutoff <= clock
  BY BatchFacts DEF CyclesSound, BatchBasic
<1>3. s.cursor = f /\ s.cutoff = o.cutoff /\ s.failed = o.failed /\ s.began = o.began
  BY <1>1
<1>4. ASSUME Here(o), s.failed = 0, NEW g \in Findings, g <= f
      PROVE  Covered(g, o.cutoff)
  <2>1. g <= o.cursor \/ OnPage(o, g) \/ Behind(o, g)
    <3>1. f \in Nat /\ g \in Nat /\ o.cursor \in Nat
      <4>1. \A h \in Findings : h \in Nat
        BY FindingsAssumption
      <4>2. o.cursor \in Findings \union {0}
        BY <1>2 DEF BatchType
      <4> QED BY <4>1, <4>2
    <3>2. CASE g = f
      BY <1>1, <3>2 DEF OnPage
    <3>3. CASE g # f /\ ~(g <= o.cursor)
      <4>1. g < f /\ g > o.cursor
        BY <1>4, <3>1, <3>3
      <4> QED BY <1>1, <4>1 DEF Behind
    <3> QED BY <3>2, <3>3
  <2> QED BY <1>1, <1>2, <1>3, <1>4, <2>1, PageCovers
<1>5. (Here(s) => Here(o)) /\ (Here(s) => Late(s))
  BY <1>1, <1>2, <1>3 DEF BatchSound, CycleSound, Here, Late
<1>6. CycleSound(s)
  BY <1>3, <1>4, <1>5 DEF CycleSound, Passed
<1>7. CycleSound(s)'
  BY <1>2, <1>3, <1>6, KeepsCycle
<1>8. CycleSound(state)'
  BY <1>7 DEF CycleSound, Here, Passed, Late
<1>9. Replaced(p, NoBatch)
  BY <1>1, Dropped DEF Basic, TypeOK
<1> QED BY <1>8, <1>9, IdleBatch, OneBatch

(* A page that is not full has no record behind it.                        *)
LEMMA LastPage ==
  ASSUME Basic, CyclesSound, NEW p \in Batches, PageDone(p), ~FullPage(p),
         Here(batch[p]), batch[p].failed = 0, NEW f \in Findings
  PROVE  Covered(f, batch[p].cutoff)
<1> PICK o : o = batch[p]
  OBVIOUS
<1>1. o \in BatchType /\ BatchSound(o) /\ o.step = "inspected" /\ o.stale = {}
      /\ Cardinality(o.page) # PageSize
  BY BatchFacts DEF CyclesSound, PageDone, FullPage, In
<1>2. o.cursor \in Nat /\ f \in Nat
  <2>1. o.cursor \in Findings \union {0}
    BY <1>1 DEF BatchType
  <2>2. \A g \in Findings : g \in Nat
    BY FindingsAssumption
  <2> QED BY <2>1, <2>2
<1>3. f <= o.cursor \/ Behind(o, f)
  BY <1>1, <1>2 DEF Behind
<1> QED BY <1>1, <1>3, PageCovers

LEMMA WriteCycles ==
  ASSUME Basic, Basic', Keeps, CyclesSound, NEW p \in Batches, WriteWatermark(p)
  PROVE  CyclesSound'
<1>1. PICK b : /\ Replaced(p, b) /\ batch[p].step = "inspected" /\ b.step = "marked"
               /\ SameCycle(b, batch[p]) /\ b.failed = batch[p].failed
  BY MarkEffect DEF Basic
<1>2. CycleSound(batch[p])
  BY <1>1 DEF CyclesSound, BatchSound
<1>3. CycleSound(b)
  BY <1>1, <1>2 DEF SameCycle, CycleSound, Here, Passed, Late
<1>4. EndSound(b)
  <2> SUFFICES ASSUME Here(b), b.failed = 0, NEW f \in Findings PROVE Covered(f, b.cutoff)
    BY DEF EndSound
  <2>1. Here(batch[p]) /\ batch[p].failed = 0 /\ b.cutoff = batch[p].cutoff
    BY <1>1 DEF SameCycle, Here
  <2>2. PageDone(p) /\ ~FullPage(p)
    BY DEF WriteWatermark
  <2> QED BY <2>1, <2>2, LastPage
<1>5. b \in BatchType /\ b.cutoff <= clock
  BY <1>1, BatchFacts DEF Replaced, SameCycle, BatchBasic
<1>6. BatchSound(b)'
  <2>1. BatchSound(b)
    BY <1>1, <1>3, <1>4 DEF BatchSound
  <2> QED BY <1>5, <2>1, KeepsBatch
<1>7. UNCHANGED state
  BY DEF WriteWatermark
<1> QED BY <1>1, <1>6, <1>7, OneBatch

LEMMA DroppedCycles ==
  ASSUME Basic, Basic', Keeps, CyclesSound, NEW p \in Batches, SaveCompleted(p) \/ Abort(p)
  PROVE  CyclesSound'
<1>1. batch' = [batch EXCEPT ![p] = NoBatch] /\ (UNCHANGED state \/ state'.cursor = 0)
  BY CompletedEffect DEF Abort
<1>2. Replaced(p, NoBatch)
  BY <1>1, Dropped DEF Basic, TypeOK
<1> QED BY <1>1, <1>2, IdleBatch, OneBatch

LEMMA LoseCycles ==
  ASSUME Basic, Basic', Keeps, CyclesSound, LoseSession
  PROVE  CyclesSound'
<1> PICK o, s : o = batch["locked"] /\ s = state
  OBVIOUS
<1>1. o \in BatchType /\ o.cutoff <= clock /\ BatchSound(o) /\ batch'["orphan"] = o /\ batch'["locked"] = NoBatch /\ state' = s
  BY LoseEffect, BatchFacts DEF CyclesSound, Batches, BatchBasic
<1>2. BatchSound(o)' /\ BatchSound(NoBatch)'
  BY <1>1, KeepsBatch, IdleBatch
<1>3. \A p \in Batches : BatchSound(batch[p])'
  BY <1>1, <1>2 DEF Batches
<1>4. s.cursor # 0 => CycleSound(s)'
  BY StateNumbers, KeepsCycle DEF CyclesSound
<1>5. state'.cursor # 0 => CycleSound(state)'
  BY <1>1, <1>4 DEF CycleSound, Here, Passed, Late
<1> QED BY <1>3, <1>5 DEF CyclesSound

LEMMA OtherCycles ==
  ASSUME Basic, Basic', Keeps, CyclesSound, UNCHANGED <<state, batch>>
  PROVE  CyclesSound'
<1> PICK s : s = state
  OBVIOUS
<1>1. s.cursor # 0 => CycleSound(s)'
  BY StateNumbers, KeepsCycle DEF CyclesSound
<1>2. ASSUME NEW p \in Batches PROVE BatchSound(batch[p])'
  <2> PICK o : o = batch[p]
    OBVIOUS
  <2>1. o \in BatchType /\ o.cutoff <= clock /\ BatchSound(o) /\ batch'[p] = o
    BY BatchFacts DEF CyclesSound, BatchBasic
  <2>2. BatchSound(o)'
    BY <2>1, KeepsBatch
  <2> QED BY <2>1, <2>2
<1>3. state'.cursor # 0 => CycleSound(state)'
  BY <1>1 DEF CycleSound, Here, Passed, Late
<1> QED BY <1>2, <1>3 DEF CyclesSound

LEMMA RebuildCycles ==
  ASSUME Basic, Rebuild
  PROVE  CyclesSound'
<1>1. UNCHANGED <<state, batch>>
  BY DEF Rebuild, projectFrame, recon
<1>2. CycleSound(state)'
  BY <1>1, StateNumbers, RebuildVoids DEF CycleSound, Here, Passed, Late
<1>3. ASSUME NEW p \in Batches PROVE BatchSound(batch[p])'
  <2> PICK o : o = batch[p]
    OBVIOUS
  <2>1. o.began \in Nat /\ o.began <= index.uuid /\ batch'[p] = o
    BY <1>1, BatchFacts DEF BatchBasic
  <2>2. BatchSound(o)'
    BY <2>1, RebuildVoids
  <2> QED BY <2>1, <2>2
<1> QED BY <1>2, <1>3 DEF CyclesSound

(* The steps that leave the batches and what they write alone.             *)
Elsewhere ==
  \/ Tick \/ UNCHANGED vars
  \/ \E f \in Findings : BeginChange(f) \/ CommitChange(f)
  \/ \E e \in Events : Dispatch(e) \/ HandleProjection(e) \/ Settle(e) \/ Park(e) \/ Requeue(e)
  \/ ReadOutbox \/ ReadState \/ ReadWatermark

LEMMA ElsewhereFrame ==
  ASSUME Elsewhere
  PROVE  UNCHANGED <<mark, state, batch>> /\ (NoIncident \/ Incident)
<1> USE DEF recon
<1>1. CASE Tick \/ UNCHANGED vars
  BY <1>1 DEF Tick, vars, NoIncident
<1>2. ASSUME NEW f \in Findings, BeginChange(f) \/ CommitChange(f)
      PROVE  UNCHANGED <<mark, state, batch>> /\ (NoIncident \/ Incident)
  BY <1>2 DEF BeginChange, CommitChange, triageFrame, NoIncident
<1>3. ASSUME NEW e \in Events,
             Dispatch(e) \/ HandleProjection(e) \/ Settle(e) \/ Park(e) \/ Requeue(e)
      PROVE  UNCHANGED <<mark, state, batch>> /\ (NoIncident \/ Incident)
  BY <1>3 DEF Dispatch, HandleProjection, Settle, Park, Requeue, projectFrame, NoIncident
<1>4. CASE ReadOutbox \/ ReadState \/ ReadWatermark
  BY <1>4 DEF ReadOutbox, ReadState, ReadWatermark, checkFrame, NoIncident
<1> QED BY <1>1, <1>2, <1>3, <1>4 DEF Elsewhere

LEMMA Steps ==
  ASSUME [Next]_vars
  PROVE  \/ Elsewhere \/ Rebuild \/ StartBatch \/ LoseSession
         \/ \E p \in Batches : BatchStep(p) \/ Abort(p)
<1> QED BY DEF Next, Elsewhere

LEMMA CyclesKept ==
  ASSUME Basic, Basic', CyclesSound, [Next]_vars
  PROVE  CyclesSound'
<1>1. CASE Rebuild
  BY <1>1, RebuildCycles
<1>2. CASE ~Rebuild
  <2>1. Keeps
    BY <1>2, StepKeeps
  <2>2. CASE Elsewhere
    BY <2>1, <2>2, ElsewhereFrame, OtherCycles
  <2>3. CASE StartBatch
    BY <2>1, <2>3, StartCycles
  <2>4. CASE LoseSession
    BY <2>1, <2>4, LoseCycles
  <2>5. ASSUME NEW p \in Batches, BatchStep(p) \/ Abort(p) PROVE CyclesSound'
    BY <2>1, <2>5, ListCycles, InspectCycles, ProjectCycles, SaveCycles, WriteCycles, DroppedCycles
       DEF BatchStep
  <2> QED BY <1>2, <2>2, <2>3, <2>4, <2>5, Steps
<1> QED BY <1>1, <1>2

(***************************************************************************)
(* The watermark, the state and the order of the cycles.                   *)
(***************************************************************************)
LEMMA MarkKept ==
  ASSUME Basic, Basic', MarkSound, CyclesSound, [Next]_vars
  PROVE  MarkSound'
<1>1. CASE Rebuild
  BY <1>1, RebuildVoids DEF MarkSound
<1>2. CASE Keeps /\ UNCHANGED mark
  <2>1. mark.through \in Nat /\ mark.through <= clock /\ index'.uuid = index.uuid
    BY <1>2, BoundsAssumption DEF Basic, TypeOK, Times, TimesSound, Keeps
  <2>2. MarkTrusted' => MarkTrusted
    BY <1>2, <2>1 DEF MarkTrusted
  <2> PICK c : c = mark.through
    OBVIOUS
  <2>3. \A f \in Findings : Covered(f, c) => Covered(f, c)'
    BY <1>2, <2>1, KeepsCovered
  <2>4. \A f \in Findings : Covered(f, c)' => Covered(f, mark.through)'
    BY <1>2 DEF Covered
  <2> QED BY <2>2, <2>3, <2>4 DEF MarkSound
<1>3. ASSUME NEW p \in Batches, WriteWatermark(p) PROVE MarkSound'
  <2> PICK c : c = batch[p].cutoff
    OBVIOUS
  <2>1. /\ mark' = [uuid |-> index.uuid, through |-> c, doneAt |-> clock,
                    failed |-> batch[p].failed, began |-> batch[p].began]
        /\ UNCHANGED <<record, committed, projected, index>> /\ PageDone(p) /\ ~FullPage(p)
    BY <1>3 DEF WriteWatermark, batchFrame, triage, outbox
  <2>2. ASSUME MarkTrusted', NEW f \in Findings PROVE Covered(f, mark.through)'
    <3>1. Here(batch[p]) /\ batch[p].failed = 0
      BY <2>1, <2>2 DEF MarkTrusted, Here
    <3>2. Covered(f, c)
      BY <2>1, <3>1, LastPage
    <3> QED BY <2>1, <3>2 DEF Covered, Good, LatestGood, GoodFrom, Due
  <2> QED BY <2>2 DEF MarkSound
<1>4. UNCHANGED mark \/ \E p \in Batches : WriteWatermark(p)
  <2>1. CASE Elsewhere \/ Rebuild
    BY <2>1, ElsewhereFrame DEF Rebuild, projectFrame, recon
  <2>2. CASE StartBatch \/ LoseSession \/ \E p \in Batches : BatchStep(p) \/ Abort(p)
    BY <2>2 DEF StartBatch, LoseSession, Abort, BatchStep, ListPage, Inspect, ProjectStale,
                SaveCursor, SaveCompleted
  <2> QED BY <2>1, <2>2, Steps
<1> QED BY <1>1, <1>2, <1>3, <1>4, StepKeeps

LEMMA StateKept ==
  ASSUME Basic, Basic', StateSound, CyclesSound, [Next]_vars
  PROVE  StateSound'
<1>1. CASE Rebuild
  BY <1>1, RebuildVoids DEF StateSound, StateTrusted
<1>2. CASE Keeps /\ UNCHANGED state
  <2>1. state.through \in Nat /\ state.through <= clock /\ index'.uuid = index.uuid
    BY <1>2, StateNumbers DEF Keeps
  <2>2. StateTrusted' => StateTrusted
    BY <1>2, <2>1 DEF StateTrusted
  <2> PICK c : c = state.through
    OBVIOUS
  <2>3. \A f \in Findings : Covered(f, c) => Covered(f, c)'
    BY <1>2, <2>1, KeepsCovered
  <2>4. \A f \in Findings : Covered(f, c)' => Covered(f, state.through)'
    BY <1>2 DEF Covered
  <2> QED BY <2>2, <2>3, <2>4 DEF StateSound
<1>3. ASSUME NEW p \in Batches, SaveCursor(p) PROVE StateSound'
  <2>1. PICK f \in Findings : state'.cursor = f
    BY <1>3, SaveEffect
  <2> QED BY <2>1, FindingsAssumption DEF StateSound, StateTrusted
<1>4. ASSUME NEW p \in Batches, SaveCompleted(p) PROVE StateSound'
  <2> PICK o : o = batch[p]
    OBVIOUS
  <2>1. /\ o.step = "marked" /\ state'.failed = o.failed /\ state'.through = o.cutoff
        /\ UNCHANGED <<record, committed, projected, index>>
    BY <1>4, CompletedEffect
  <2>2. EndSound(o)
    BY <2>1 DEF CyclesSound, BatchSound
  <2>3. ASSUME StateTrusted', NEW f \in Findings PROVE Covered(f, state.through)'
    <3>1. Here(o) /\ o.failed = 0
      BY <2>1, <2>3 DEF StateTrusted, Here
    <3>2. Covered(f, o.cutoff)
      BY <2>2, <3>1 DEF EndSound
    <3> QED BY <2>1, <3>2 DEF Covered, Good, LatestGood, GoodFrom, Due
  <2> QED BY <2>3 DEF StateSound
<1>5. UNCHANGED state \/ \E p \in Batches : SaveCursor(p) \/ SaveCompleted(p)
  <2>1. CASE Elsewhere \/ Rebuild
    BY <2>1, ElsewhereFrame DEF Rebuild, projectFrame, recon
  <2>2. CASE StartBatch \/ LoseSession \/ \E p \in Batches : BatchStep(p) \/ Abort(p)
    BY <2>2 DEF StartBatch, LoseSession, Abort, BatchStep, ListPage, Inspect, ProjectStale,
                WriteWatermark
  <2> QED BY <2>1, <2>2, Steps
<1> QED BY <1>1, <1>2, <1>3, <1>4, <1>5, StepKeeps

(* A lost session leaves no incident for a rebuild.                        *)
LEMMA LostForGood ==
  ASSUME Basic, [Next]_vars, SessionLost \/ LoseSession
  PROVE  SessionLost'
<1>1. CASE LoseSession
  BY <1>1, LoseEffect DEF Basic, IndexSound, SessionLost
<1>2. CASE SessionLost
  <2>1. MaxIncidents \in Nat \ {0}
    BY BoundsAssumption
  <2>2. ~Incident /\ ~LoseSession
    BY <1>2, <2>1 DEF SessionLost, Incident, LoseSession
  <2>3. ~Rebuild
    BY <2>2 DEF Rebuild
  <2>4. index'.uuid = index.uuid
    BY <2>3, StepKeeps DEF Keeps
  <2>5. NoIncident
    <3>1. CASE Elsewhere
      BY <2>2, <3>1, ElsewhereFrame
    <3>2. ASSUME NEW p \in Batches, BatchStep(p) \/ Abort(p) PROVE NoIncident
      BY <2>2, <3>2 DEF BatchStep, Abort, ListPage, Inspect, ProjectStale, SaveCursor,
                        WriteWatermark, SaveCompleted, NoIncident
    <3>3. CASE StartBatch
      BY <3>3 DEF StartBatch, NoIncident
    <3> QED BY <2>2, <2>3, <3>1, <3>2, <3>3, Steps
  <2> QED BY <1>2, <2>4, <2>5 DEF SessionLost, NoIncident
<1> QED BY <1>1, <1>2

(* Only the batch under the lock runs.                                     *)
LEMMA LockedOnly ==
  ASSUME Successive, NEW p \in Batches, BatchStep(p) \/ Abort(p)
  PROVE  p = "locked" /\ batch["locked"].step # "idle"
<1>1. batch[p].step # "idle"
  BY DEF BatchStep, Abort, ListPage, Inspect, ProjectStale, SaveCursor, WriteWatermark,
         SaveCompleted, PageDone, In
<1> QED BY <1>1 DEF Successive, Batches

(* What a step of the batch under the lock leaves of the order.            *)
LEMMA BatchSuccessive ==
  ASSUME Basic, Successive, NEW p \in Batches, BatchStep(p) \/ Abort(p)
  PROVE  Successive'
<1> PICK o : o = batch["locked"]
  OBVIOUS
<1>1. /\ p = "locked" /\ "locked" \in Batches /\ "orphan" \in Batches /\ o.step # "idle"
      /\ state.doneAt <= o.cutoff /\ batch \in [Batches -> BatchType]
  BY LockedOnly DEF Successive, Batches, Basic, TypeOK
<1>2. UNCHANGED check
  BY DEF BatchStep, Abort, ListPage, Inspect, ProjectStale, SaveCursor, WriteWatermark,
         SaveCompleted, batchFrame
<1>3. ASSUME NEW b, Replaced(p, b), SameCycle(b, o), UNCHANGED state PROVE Successive'
  <2>1. batch'["locked"] = b /\ batch'["orphan"] = batch["orphan"]
    BY <1>1, <1>3 DEF Replaced
  <2> QED BY <1>1, <1>2, <1>3, <2>1 DEF Successive, SameCycle
<1>4. CASE ListPage(p)
  BY <1>1, <1>3, <1>4, ListEffect DEF Basic, ListPage
<1>5. CASE Inspect(p)
  BY <1>1, <1>3, <1>5, InspectEffect DEF Basic, Inspect
<1>6. CASE ProjectStale(p)
  BY <1>1, <1>3, <1>6, ProjectEffect DEF Basic, ProjectStale
<1>7. CASE WriteWatermark(p)
  BY <1>1, <1>3, <1>7, MarkEffect DEF Basic, WriteWatermark
<1>8. ASSUME batch' = [batch EXCEPT ![p] = NoBatch], state.doneAt <= state'.doneAt,
             state'.cursor # 0 => state'.doneAt <= state'.cutoff
      PROVE  Successive'
  <2>1. batch'["locked"] = NoBatch /\ batch'["orphan"] = batch["orphan"] /\ NoBatch.step = "idle"
    BY <1>1, <1>8 DEF NoBatch
  <2>2. check.step = "reconciled" => check.doneAt <= state'.doneAt
    <3>1. state.doneAt \in Nat /\ check.doneAt \in Nat
      BY StateNumbers, BoundsAssumption DEF Basic, TypeOK, CheckType, Times
    <3>2. state'.doneAt \in Nat
      <4>1. Basic'
        BY BasicKept DEF Next
      <4> QED BY <4>1, BoundsAssumption DEF Basic, TypeOK, Times
    <3> QED BY <1>8, <3>1, <3>2 DEF Successive
  <2> QED BY <1>2, <1>8, <2>1, <2>2 DEF Successive
<1>9. CASE SaveCursor(p)
  <2>1. /\ state'.cutoff = o.cutoff /\ state'.doneAt = state.doneAt
        /\ batch' = [batch EXCEPT ![p] = NoBatch]
    BY <1>1, <1>9, SaveEffect
  <2>2. state.doneAt <= state.doneAt
    BY StateNumbers
  <2> QED BY <1>1, <1>8, <2>1, <2>2
<1>10. CASE SaveCompleted(p)
  <2>1. o.cutoff <= o.doneAt /\ o.cutoff \in Nat /\ o.doneAt \in Nat
    BY <1>1, <1>10, CompletedEffect, BatchFacts DEF BatchBasic
  <2>2. state.doneAt <= o.doneAt
    BY <1>1, <2>1, StateNumbers
  <2> QED BY <1>1, <1>8, <1>10, <2>2, CompletedEffect
<1>11. CASE Abort(p)
  <2>1. state.doneAt <= state.doneAt
    BY StateNumbers
  <2> QED BY <1>8, <1>11, <2>1 DEF Abort, Successive
<1> QED BY <1>4, <1>5, <1>6, <1>7, <1>9, <1>10, <1>11 DEF BatchStep

LEMMA SerialKept ==
  ASSUME Basic, Serial, [Next]_vars
  PROVE  Serial'
<1>1. CASE SessionLost \/ LoseSession
  BY <1>1, LostForGood DEF Serial
<1>2. CASE Successive /\ ~LoseSession
  <2>1. CASE StartBatch
    <3>1. PICK b : /\ Replaced("locked", b) /\ SameCycle(b, Cycle)
      BY <2>1, StartEffect DEF Basic
    <3>2. state.doneAt <= Cycle.cutoff
      <4>1. state.doneAt <= clock
        BY DEF Basic, TimesSound
      <4> QED BY <1>2, <4>1 DEF Cycle, NewCycle, Successive
    <3>3. batch'["locked"] = b /\ batch'["orphan"] = batch["orphan"] /\ UNCHANGED <<state, check>>
      BY <2>1, <3>1 DEF Replaced, Batches, StartBatch, batchFrame
    <3> QED BY <1>2, <3>1, <3>2, <3>3 DEF Serial, Successive, SameCycle
  <2>2. ASSUME NEW p \in Batches, BatchStep(p) \/ Abort(p) PROVE Serial'
    BY <1>2, <2>2, BatchSuccessive DEF Serial
  <2>3. CASE Rebuild
    BY <1>2, <2>3 DEF Serial, Successive, Rebuild, projectFrame, recon
  <2>4. CASE ReadOutbox \/ ReadState \/ ReadWatermark
    <3>1. UNCHANGED <<state, batch>>
      BY <2>4, ElsewhereFrame DEF Elsewhere
    <3>2. check'.step = "reconciled" =>
            check'.doneAt = state.doneAt \/ (check.step = "reconciled" /\ check'.doneAt = check.doneAt)
      <4>1. CASE check' = NoCheck
        BY <4>1 DEF NoCheck
      <4>2. CASE check' # NoCheck
        BY <2>4, <4>2, OutboxRead, StateRead, WatermarkRead DEF Basic
      <4> QED BY <4>1, <4>2
    <3>3. state.doneAt <= state.doneAt
      BY StateNumbers
    <3> QED BY <1>2, <3>1, <3>2, <3>3 DEF Serial, Successive
  <2>5. CASE Elsewhere /\ ~(ReadOutbox \/ ReadState \/ ReadWatermark)
    <3>1. UNCHANGED <<state, batch>>
      BY <2>5, ElsewhereFrame
    <3>2. UNCHANGED check
      BY <2>5 DEF Elsewhere, Tick, vars, BeginChange, CommitChange, triageFrame, Dispatch,
                  HandleProjection, Settle, Park, Requeue, projectFrame
    <3> QED BY <1>2, <3>1, <3>2 DEF Serial, Successive
  <2> QED BY <1>2, <2>1, <2>2, <2>3, <2>4, <2>5, Steps
<1> QED BY <1>1, <1>2 DEF Serial

(***************************************************************************)
(* The health check.                                                       *)
(***************************************************************************)
LEMMA CheckSteps ==
  ASSUME [Next]_vars
  PROVE  UNCHANGED check \/ ReadOutbox \/ ReadState \/ ReadWatermark
<1>1. CASE Elsewhere
  BY <1>1 DEF Elsewhere, Tick, vars, BeginChange, CommitChange, triageFrame, Dispatch,
              HandleProjection, Settle, Park, Requeue, projectFrame
<1>2. CASE Rebuild \/ StartBatch \/ LoseSession
  BY <1>2 DEF Rebuild, StartBatch, LoseSession, projectFrame, batchFrame
<1>3. ASSUME NEW p \in Batches, BatchStep(p) \/ Abort(p) PROVE UNCHANGED check
  BY <1>3 DEF BatchStep, Abort, ListPage, Inspect, ProjectStale, SaveCursor, WriteWatermark,
              SaveCompleted, batchFrame
<1> QED BY <1>1, <1>2, <1>3, Steps

(* Records only gain versions, and an event that is done stays done.       *)
Stays == \A e \in Events : phase[e] = "done" => phase'[e] = "done"

LEMMA Accumulates ==
  ASSUME Basic, [Next]_vars
  PROVE  Stays /\ \A f \in Findings : record[f].version <= record'[f].version
<1>0. /\ \A f \in Findings : record[f].version \in Nat
      /\ phase \in [Events -> Phases]
  BY CommittedVersions DEF Basic, EventsSound
<1>1. ASSUME NEW f \in Findings, CommitChange(f)
      PROVE  Stays /\ \A g \in Findings : record[g].version <= record'[g].version
  <2>1. PICK v \in 1 .. MaxVersion, e \in Events :
              /\ v = record[f].version + 1
              /\ record' = [record EXCEPT ![f] = [version |-> v, at |-> change[f]]]
              /\ phase[e] = "absent" /\ phase' = [phase EXCEPT ![e] = "queued"]
    BY <1>1, CommitEffect
  <2>2. /\ record'[f].version = v /\ \A g \in Findings : g # f => record'[g] = record[g]
    BY <2>1 DEF Basic, TypeOK
  <2>3. Stays
    BY <1>0, <2>1 DEF Stays
  <2> QED BY <1>0, <2>1, <2>2, <2>3
<1>2. ASSUME NEW e \in Events, Settle(e) \/ Park(e) \/ Requeue(e) PROVE UNCHANGED record /\ Stays
  <2>1. UNCHANGED record /\ phase[e] # "done" /\ \E ph \in Phases : phase' = [phase EXCEPT ![e] = ph]
    BY <1>2 DEF Settle, Park, Requeue, Outbox!Finish, Outbox!Park, Outbox!Requeue, projectFrame,
                triage, Phases
  <2> QED BY <1>0, <2>1 DEF Stays
<1>3. \/ UNCHANGED <<record, phase>>
      \/ \E f \in Findings : CommitChange(f)
      \/ \E e \in Events : Settle(e) \/ Park(e) \/ Requeue(e)
  <2>1. CASE Elsewhere
    BY <2>1 DEF Elsewhere, Tick, vars, BeginChange, triageFrame, Dispatch, HandleProjection,
                projectFrame, ReadOutbox, ReadState, ReadWatermark, checkFrame, triage, outbox
  <2>2. CASE Rebuild \/ StartBatch \/ LoseSession
    BY <2>2 DEF Rebuild, StartBatch, LoseSession, projectFrame, batchFrame, triage, outbox
  <2>3. ASSUME NEW p \in Batches, BatchStep(p) \/ Abort(p) PROVE UNCHANGED <<record, phase>>
    BY <2>3 DEF BatchStep, Abort, ListPage, Inspect, ProjectStale, SaveCursor, WriteWatermark,
                SaveCompleted, batchFrame, triage, outbox
  <2> QED BY <2>1, <2>2, <2>3, Steps
<1> QED BY <1>0, <1>1, <1>2, <1>3 DEF Stays

LEMMA BegunSound ==
  ASSUME Basic, AskedSound
  PROVE  /\ \A f \in Findings : Begun[f] <= record[f].version
         /\ check.quiet => Begun = check.asked
<1>1. \A f \in Findings : record[f].version \in Nat
  BY CommittedVersions
<1> QED BY <1>1 DEF Begun, NoCheck, AskedSound

LEMMA AskedKept ==
  ASSUME Basic, AskedSound, [Next]_vars
  PROVE  AskedSound'
<1>1. CASE UNCHANGED check
  <2>1. \A f \in Findings : /\ check.asked[f] \in 0 .. MaxVersion /\ record[f].version \in Nat
                            /\ record'[f].version \in Nat
    <3>1. Basic'
      BY BasicKept
    <3> QED BY <3>1, BoundsAssumption DEF Basic, TypeOK, CheckType, Versions
  <2>2. \A f \in Findings : check.asked[f] <= record'[f].version
    BY <2>1, BoundsAssumption, Accumulates DEF AskedSound
  <2>3. \A f \in Findings : check.asked[f] # 0 => EventOf(f, check.asked[f]) \in Events
    BY <2>1, BoundsAssumption, EventNumber
  <2> QED BY <1>1, <2>2, <2>3, Accumulates DEF AskedSound, Stays
<1>2. CASE check' = NoCheck /\ (ReadOutbox \/ ReadState \/ ReadWatermark)
  <2>1. \A f \in Findings : NoCheck.asked[f] = 0 /\ NoCheck.quiet = FALSE
    BY DEF NoCheck
  <2>2. \A f \in Findings : record[f].version \in Nat
    BY CommittedVersions
  <2>3. UNCHANGED <<record, phase>>
    BY <1>2, OutboxRead, StateRead, WatermarkRead DEF Basic
  <2> QED BY <1>2, <2>1, <2>2, <2>3 DEF AskedSound, NoCheck
<1>3. CASE ReadOutbox /\ check' # NoCheck
  <2>1. ~EventLag /\ check'.asked = Begun /\ UNCHANGED <<record, phase>>
    BY <1>3, OutboxRead DEF Basic
  <2>2. ASSUME NEW f \in Findings, Begun[f] # 0 PROVE phase[EventOf(f, Begun[f])] = "done"
    <3>1. Begun[f] \in 1 .. MaxVersion /\ Begun[f] <= record[f].version
      BY <2>2, BegunType, BegunSound, BoundsAssumption DEF Basic, Versions
    <3> QED BY <2>1, <3>1, CommittedVersions
  <2> QED BY <2>1, <2>2, BegunSound DEF AskedSound
<1>4. CASE ReadState /\ check' # NoCheck
  <2>1. check'.asked = Begun /\ check'.quiet = check.quiet /\ UNCHANGED <<record, phase>>
    BY <1>4, StateRead DEF Basic
  <2> QED BY <2>1, BegunSound DEF AskedSound
<1>5. CASE ReadWatermark /\ check' # NoCheck
  <2>1. check'.asked = check.asked /\ check'.quiet = FALSE /\ UNCHANGED <<record, phase>>
    BY <1>5, WatermarkRead DEF Basic
  <2> QED BY <2>1 DEF AskedSound
<1> QED BY <1>1, <1>2, <1>3, <1>4, <1>5, CheckSteps

(* A mark that matches, of a cycle that began on the index it names.       *)
LEMMA MarkNames ==
  ASSUME Basic, MarkMatches(check), Witnessed = index.uuid
  PROVE  Matching
<1>1. index.uuid # 0
  BY DEF Basic, IndexSound, TypeOK
<1> QED BY <1>1 DEF MarkMatches, Witnessed, MarkTrusted, Matching

(* A cycle that is marked at the time of the completion a check has read   *)
(* began at that time: its cutoff excludes no record.  The first index,    *)
(* where a lost session lets another cycle be marked, needs no mark.       *)
LEMMA MarkedAtOnce ==
  ASSUME Basic, Serial, NEW p \in Batches, WriteWatermark(p), MarkSound', index.uuid # 1,
         MarkTrusted', check.step = "reconciled", check.doneAt = clock, NEW f \in Findings
  PROVE  Good(f, mark.through)'
<1> PICK c : c = batch[p].cutoff
  OBVIOUS
<1>1. mark'.through = c /\ UNCHANGED <<record, committed, projected, index>> /\ c \in Nat
  BY BatchFacts DEF WriteWatermark, batchFrame, triage, outbox
<1>2. Successive
  BY DEF Serial, SessionLost
<1>3. clock <= state.doneAt /\ state.doneAt <= c
  BY <1>2, LockedOnly DEF Successive, BatchStep
<1>4. record[f].at <= c
  BY <1>1, <1>3, StateNumbers
<1>5. Covered(f, mark.through)'
  BY DEF MarkSound
<1>6. Covered(f, c)
  BY <1>1, <1>5 DEF Covered, Good, LatestGood, GoodFrom, Due
<1>7. Good(f, c)
  BY <1>1, <1>4, <1>6, GoodFacts
<1> QED BY <1>1, <1>7 DEF Good, GoodFrom, Due

(* A check that has read the state, or the watermark too.                  *)
Answering ==
  \/ check.step = "marked" /\ check.uuid = index.uuid
  \/ check.step = "reconciled" /\ (index.uuid = 1 \/ Matching)

AllGood == \A f \in Findings : Good(f, check.through)

LEMMA AnswerKept ==
  ASSUME HealthInv, [Next]_vars, Basic', MarkSound'
  PROVE  AnswerSound'
<1>1. Basic /\ MarkSound /\ StateSound /\ Serial /\ (Answering => AllGood)
  BY DEF HealthInv, AnswerSound, Answering, AllGood
<1>2. AnswerSound' <=> (Answering' => AllGood')
  BY DEF AnswerSound, Answering, AllGood
<1>3. CASE Rebuild
  <2>1. UNCHANGED check
    BY <1>3 DEF Rebuild, projectFrame
  <2>2. ~Answering'
    BY <1>1, <1>3, <2>1, RebuildVoids DEF Answering, Matching
  <2> QED BY <1>2, <2>2
<1>4. ASSUME Keeps, UNCHANGED check, AllGood PROVE AllGood'
  <2> PICK c : c = check.through
    OBVIOUS
  <2>1. c \in Nat /\ c <= clock /\ check'.through = c
    BY <1>1, <1>4, BoundsAssumption DEF Basic, TypeOK, CheckType, Times, TimesSound
  <2>2. \A f \in Findings : Good(f, c)'
    BY <1>1, <1>4, <2>1, KeepsCovered DEF AllGood
  <2> QED BY <2>1, <2>2 DEF AllGood
<1>5. CASE Keeps /\ UNCHANGED <<check, mark>>
  <2>1. Answering' => Answering
    BY <1>5 DEF Answering, Matching, MarkTrusted, Keeps
  <2> QED BY <1>1, <1>2, <1>4, <1>5, <2>1
<1>6. ASSUME NEW p \in Batches, WriteWatermark(p) PROVE AnswerSound'
  <2>1. UNCHANGED <<check, clock, record, committed, projected, index>> /\ mark'.doneAt = clock
    BY <1>6 DEF WriteWatermark, batchFrame, triage, outbox
  <2>2. Keeps
    BY <1>1, <2>1, QuietKeeps
  <2>3. CASE Answering
    BY <1>1, <1>2, <1>4, <2>1, <2>2, <2>3
  <2>4. CASE ~Answering /\ Answering'
    <3>1. check.step = "reconciled" /\ index.uuid # 1 /\ Matching'
      BY <2>1, <2>4 DEF Answering
    <3>2. MarkTrusted' /\ mark'.through = check'.through /\ check.doneAt = clock
      BY <2>1, <3>1 DEF Matching
    <3>3. \A f \in Findings : Good(f, mark.through)'
      BY <1>1, <1>6, <3>1, <3>2, MarkedAtOnce
    <3>4. AllGood'
      BY <3>2, <3>3 DEF AllGood
    <3> QED BY <1>2, <3>4
  <2> QED BY <1>2, <2>3, <2>4
<1>7. CASE ReadOutbox \/ ReadState \/ ReadWatermark
  <2>1. UNCHANGED <<record, committed, projected, index, mark>>
    BY <1>1, <1>7, OutboxRead, StateRead, WatermarkRead DEF Basic
  <2>2. /\ \A f \in Findings, c \in Nat : Good(f, c) => Good(f, c)'
        /\ MarkTrusted' => MarkTrusted
    BY <2>1 DEF Good, GoodFrom, Due, MarkTrusted
  <2>3. CASE check' = NoCheck
    <3>1. check'.step = "idle"
      BY <2>3 DEF NoCheck
    <3> QED BY <1>2, <3>1 DEF Answering
  <2>4. check.through \in Nat
    BY <1>1, BoundsAssumption DEF Basic, TypeOK, CheckType, Times
  <2>5. ASSUME check'.through = check.through, AllGood PROVE AllGood'
    <3> PICK c : c = check.through
      OBVIOUS
    <3>1. \A f \in Findings : Good(f, c)'
      BY <2>2, <2>4, <2>5 DEF AllGood
    <3> QED BY <2>5, <3>1 DEF AllGood
  <2>6. CASE ReadOutbox /\ check' # NoCheck
    <3>1. /\ check'.step = check.step /\ check'.uuid = check.uuid
          /\ check'.through = check.through /\ check'.doneAt = check.doneAt
      BY <1>1, <2>6, OutboxRead DEF Basic
    <3>2. Answering' => Answering
      BY <2>1, <2>2, <3>1 DEF Answering, Matching
    <3> QED BY <1>1, <1>2, <2>5, <3>1, <3>2
  <2>7. CASE ReadState /\ check' # NoCheck
    <3>1. Reconciled /\ check'.step = "reconciled" /\ check'.through = state.through
      BY <1>1, <2>7, StateRead DEF Basic
    <3> PICK c : c = state.through
      OBVIOUS
    <3>2. ASSUME Answering', NEW f \in Findings PROVE Good(f, c)
      <4>1. Covered(f, c)
        <5>1. CASE index.uuid = 1
          BY <1>1, <3>1, <5>1 DEF StateSound, StateTrusted, Reconciled
        <5>2. CASE index.uuid # 1
          <6>1. MarkTrusted /\ mark.through = c
            BY <2>1, <2>2, <3>1, <3>2, <5>2 DEF Answering, Matching
          <6> QED BY <1>1, <6>1 DEF MarkSound
        <5> QED BY <5>1, <5>2
      <4>2. record[f].at <= c /\ c \in Nat
        BY <1>1, <3>1, StateNumbers DEF Reconciled
      <4> QED BY <1>1, <4>1, <4>2, GoodFacts
    <3>3. c \in Nat
      BY <1>1, StateNumbers
    <3>4. ASSUME Answering' PROVE AllGood'
      <4>1. \A f \in Findings : Good(f, c)'
        BY <2>2, <3>2, <3>3, <3>4
      <4> QED BY <3>1, <4>1 DEF AllGood
    <3> QED BY <1>2, <3>4
  <2>8. CASE ReadWatermark /\ check' # NoCheck
    <3>1. /\ MarkMatches(check) /\ check.step = "reconciled"
          /\ check'.step = "marked" /\ check'.uuid = Witnessed /\ check'.through = check.through
      BY <1>1, <2>8, WatermarkRead DEF Basic
    <3>2. Answering' => Answering
      BY <1>1, <2>1, <3>1, MarkNames DEF Answering
    <3> QED BY <1>1, <1>2, <2>5, <3>1, <3>2
  <2> QED BY <1>7, <2>3, <2>6, <2>7, <2>8
<1>8. \/ UNCHANGED <<check, mark>> \/ ReadOutbox \/ ReadState \/ ReadWatermark
      \/ \E p \in Batches : WriteWatermark(p)
  <2>1. CASE UNCHANGED check
    <3>1. CASE Elsewhere \/ Rebuild
      BY <2>1, <3>1, ElsewhereFrame DEF Rebuild, projectFrame, recon
    <3>2. CASE StartBatch \/ LoseSession \/ \E p \in Batches : BatchStep(p) \/ Abort(p)
      BY <2>1, <3>2 DEF StartBatch, LoseSession, Abort, BatchStep, ListPage, Inspect, ProjectStale,
                        SaveCursor, SaveCompleted
    <3> QED BY <3>1, <3>2, Steps
  <2> QED BY <2>1, CheckSteps
<1> QED BY <1>1, <1>3, <1>5, <1>6, <1>7, <1>8, StepKeeps

(***************************************************************************)
(* A check that answers "available" speaks the truth.                      *)
(***************************************************************************)
LEMMA InitHealth == Init => HealthInv
<1> SUFFICES ASSUME Init PROVE HealthInv
  OBVIOUS
<1>1. Basic
  BY InitBasic
<1>2. /\ projected = {} /\ state.cursor = 0 /\ state.through = 0 /\ \A p \in Batches : batch[p] = NoBatch
      /\ check = NoCheck /\ index.uuid = 1 /\ mark.uuid = 0
  BY DEF Init, Outbox!Init
<1>3. NoBatch.step = "idle" /\ NoCheck.step = "idle" /\ NoCheck.quiet = FALSE
      /\ \A f \in Findings : NoCheck.asked[f] = 0
  BY DEF NoBatch, NoCheck
<1>4. StateSound
  BY <1>2 DEF StateSound, StateTrusted
<1>5. CyclesSound
  BY <1>2, <1>3 DEF CyclesSound, BatchSound
<1>6. MarkSound
  BY <1>2 DEF MarkSound, MarkTrusted
<1>7. Serial
  BY <1>2, <1>3 DEF Serial, Successive, Batches
<1>8. AskedSound
  <2>1. \A f \in Findings : record[f].version \in Nat
    BY <1>1, CommittedVersions
  <2> QED BY <1>2, <1>3, <2>1 DEF AskedSound
<1>9. AnswerSound
  BY <1>2, <1>3 DEF AnswerSound
<1> QED BY <1>1, <1>4, <1>5, <1>6, <1>7, <1>8, <1>9 DEF HealthInv

LEMMA HealthKept == HealthInv /\ [Next]_vars => HealthInv'
<1> SUFFICES ASSUME HealthInv, [Next]_vars PROVE HealthInv'
  OBVIOUS
<1>1. Basic /\ CyclesSound /\ MarkSound /\ StateSound /\ Serial /\ AskedSound
  BY DEF HealthInv
<1>2. Basic'
  BY <1>1, BasicKept
<1>3. CyclesSound' /\ MarkSound' /\ StateSound' /\ Serial' /\ AskedSound'
  BY <1>1, <1>2, CyclesKept, MarkKept, StateKept, SerialKept, AskedKept
<1>4. AnswerSound'
  BY <1>2, <1>3, AnswerKept
<1> QED BY <1>2, <1>3, <1>4 DEF HealthInv

LEMMA HealthSound == HealthInv => HealthIsTrue
<1> SUFFICES ASSUME HealthInv, Available, NEW f \in Findings,
                    (IF check.step = "marked" THEN check.uuid ELSE Witnessed) = index.uuid,
                    ~(index.version[f] >= check.asked[f])
             PROVE  Forgone(f, check.asked[f], check.through)
  BY DEF HealthIsTrue
<1> PICK n, i, a, c : /\ n = record[f].version /\ i = index.version[f]
                      /\ a = check.asked[f] /\ c = check.through
  OBVIOUS
<1>1. /\ n \in 0 .. MaxVersion /\ i \in Nat /\ a \in Nat /\ a <= n /\ MaxVersion \in Nat
      /\ ~EventLag => \A v \in 1 .. MaxVersion : v <= n => phase[EventOf(f, v)] = "done"
  BY CommittedVersions, BoundsAssumption DEF HealthInv, Basic, TypeOK, CheckType, Versions, AskedSound
<1>2. a \in 1 .. n /\ a \in 1 .. MaxVersion /\ ~(a <= i)
  BY <1>1
<1>3. Good(f, c) /\ phase[EventOf(f, a)] = "done"
  <2>1. CASE check.step = "marked" /\ ~EventLag
    BY <1>1, <1>2, <2>1 DEF HealthInv, AnswerSound
  <2>2. CASE check.step = "reconciled" /\ check.quiet /\ MarkMatches(check)
    <3>1. Good(f, c)
      BY <2>2, MarkNames DEF HealthInv, AnswerSound
    <3>2. phase[EventOf(f, a)] = "done"
      BY <1>2, <2>2 DEF HealthInv, AskedSound
    <3> QED BY <3>1, <3>2
  <2> QED BY <2>1, <2>2 DEF Available
<1>4. ~Due(EventOf(f, a), c)
  BY <1>2, <1>3 DEF Good, GoodFrom
<1>5. committed[EventOf(f, a)] \in Nat /\ c \in Nat
  BY <1>2, EventNumber, BoundsAssumption DEF HealthInv, Basic, TypeOK, CheckType, Times
<1> QED BY <1>3, <1>4, <1>5 DEF Due, Forgone

(* A health check that answers "available" is right about every change     *)
(* committed before it began to read, for any number of findings and any   *)
(* size of a page, however commits, listeners and their unheard failures,  *)
(* dead letters, batches and aborts interleave with its three reads        *)
(* (getProjectionHealth, readCompletionWatermark).  Three cases are not    *)
(* claimed: a change that was committed after the cutoff of the cycle and  *)
(* whose listener failed or is still at work (Forgone); an index that was  *)
(* rebuilt in the middle of the cycle (Witnessed); and a session that is   *)
(* lost after a rebuild or before another incident (LoseSession).          *)
THEOREM HealthIsTrueCorrect == Spec => []HealthIsTrue
<1> QED BY InitHealth, HealthKept, HealthSound, PTL DEF Spec
=============================================================================
