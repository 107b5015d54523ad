------------------------- MODULE MeterReadingsProofs -------------------------
(***************************************************************************)
(* Proofs about MeterReadings, for any number of months, any entries,      *)
(* failures and restarts.                                                  *)
(***************************************************************************)
EXTENDS MeterReadings, TLAPS

Parameters ==
  /\ LastMonth \in Nat \ {0} /\ Loads \subseteq Int /\ Readings \subseteq Nat
  /\ NoValue \notin Int /\ MaxEntries \in Nat /\ MaxFaults \in Nat

(* Of the months before n that are there one is the last.                    *)
HasLast(n) ==
  Before(n) # {} => \E l \in Before(n) : \A o \in Before(n) : o <= l

(* Month n has its place in the chain, and nothing that a recalculation      *)
(* would change.                                                             *)
ChainedAt(n) ==
  row[n].state = "present" =>
    /\ row[n].start \in Nat /\ row[n].end \in Nat
    /\ EndBefore(n) # NoValue /\ row[n].reset = "no" => row[n].start = EndBefore(n)
    /\ row[n].load # NoValue =>
         row[n].load >= 0 /\ row[n].end = row[n].start + row[n].load
    /\ row[n].load = NoValue => row[n].end = row[n].start

(* A recalculation that nobody has disturbed: what it has still to do is as  *)
(* it was read, and what it has done is chained up to what it carries.       *)
RunFits(x) ==
  run[x].pc = "write" /\ run[x].disturbed = "no" =>
    /\ \A n \in run[x].at..LastMonth : run[x].seen[n] = row[n]
    /\ run[x].carried = EndBefore(run[x].at)
    /\ \A n \in 1..(run[x].at - 1) : ChainedAt(n)

MeterInv ==
  /\ TypeOK
  /\ \A n \in History : HasLast(n)
  /\ settled = "yes" => \A n \in History : ChainedAt(n)
  /\ \A x \in Runs : RunFits(x)

(* What a recalculation makes of a row after the reading it carries.         *)
LEMMA ChainedRow ==
  ASSUME Parameters, NEW r \in Row, NEW carried \in Maybe,
         NEW c, c = Chained(r, carried)
  PROVE  /\ c \in Row /\ c.state = r.state /\ c.reset = r.reset
         /\ c.start \in Nat /\ c.end \in Nat
         /\ carried # NoValue /\ r.reset = "no" => c.start = carried
         /\ c.load # NoValue => c.load >= 0 /\ c.end = c.start + c.load
         /\ c.load = NoValue => c.end = c.start /\ r.load = NoValue
<1> DEFINE start == Start(r, carried)
           used == Consumption(r, start)
<1>1. /\ r.state \in {"absent", "present"} /\ r.reset \in {"no", "yes"}
      /\ r.load \in Int \cup {NoValue} /\ r.start \in Nat \cup {NoValue}
      /\ r.end \in Nat \cup {NoValue} /\ carried \in Nat \cup {NoValue}
  BY DEF Row, Maybe
<1>2. start \in Nat /\ (carried # NoValue /\ r.reset = "no" => start = carried)
  BY <1>1 DEF Start, Else
<1> HIDE DEF start
<1>3. used \in Nat
  BY <1>1, <1>2 DEF Consumption, Greatest
<1>4. r.load = NoValue /\ r.end = NoValue => used = 0
  BY DEF Consumption
<1>5. c = [r EXCEPT !.start = start, !.end = start + used,
             !.load = IF r.load = NoValue /\ r.end = NoValue /\ r.start = NoValue
                      THEN NoValue ELSE used]
  BY DEF Chained, start
<1> HIDE DEF used
<1>6. /\ c.state = r.state /\ c.reset = r.reset /\ c.start = start /\ c.end = start + used
      /\ c.load = IF r.load = NoValue /\ r.end = NoValue /\ r.start = NoValue THEN NoValue ELSE used
  BY <1>5 DEF Row
<1>7. c \in Row
  <2> DEFINE load == IF r.load = NoValue /\ r.end = NoValue /\ r.start = NoValue
                     THEN NoValue ELSE used
  <2>1. load \in Int \cup {NoValue}
    BY <1>3
  <2> HIDE DEF load
  <2>2. start + used \in Nat
    BY <1>2, <1>3
  <2>3. c = [r EXCEPT !.start = start, !.end = start + used, !.load = load]
    BY <1>5 DEF load
  <2> DEFINE end == start + used
  <2> HIDE DEF end
  <2>4. c = [r EXCEPT !.start = start, !.end = end, !.load = load] /\ end \in Nat
    BY <2>2, <2>3 DEF end
  <2>5. QED
    BY <1>1, <1>2, <2>1, <2>4 DEF Row, Maybe
<1>8. NoValue \notin Nat
  BY DEF Parameters
<1>9. QED
  BY <1>2, <1>3, <1>4, <1>6, <1>7, <1>8

(* ... and of a row that is chained already.                                 *)
LEMMA ChainedStands ==
  ASSUME Parameters, NEW r \in Row, NEW carried \in Maybe,
         r.start \in Nat, r.end \in Nat,
         carried # NoValue /\ r.reset = "no" => r.start = carried,
         r.load # NoValue => r.load >= 0 /\ r.end = r.start + r.load,
         r.load = NoValue => r.end = r.start
  PROVE  Chained(r, carried).start = r.start /\ Chained(r, carried).end = r.end
<1> DEFINE start == Start(r, carried)
           used == Consumption(r, start)
<1>1. r.reset \in {"no", "yes"} /\ r.load \in Int \cup {NoValue} /\ NoValue \notin Int
  BY DEF Row, Parameters
<1>2. start = r.start
  BY <1>1 DEF Start, Else
<1> HIDE DEF start
<1>3. start + used = r.end
  BY <1>1, <1>2 DEF Consumption, Greatest
<1>4. Chained(r, carried)
        = [r EXCEPT !.start = start, !.end = start + used,
             !.load = IF r.load = NoValue /\ r.end = NoValue /\ r.start = NoValue
                      THEN NoValue ELSE used]
  BY DEF Chained, start
<1> HIDE DEF used
<1>5. QED
  BY <1>2, <1>3, <1>4 DEF Row

(* The row that is written: the chained one, when nobody has disturbed.      *)
LEMMA WrittenRow ==
  ASSUME Parameters, TypeOK, NEW x \in Runs, run[x].pc = "write",
         NEW m, m = run[x].at
  PROVE  /\ m \in 1..LastMonth /\ run[x].carried \in Maybe
         /\ Written(x) \in Row /\ Written(x).state = row[m].state
         /\ run[x].seen[m] = row[m] =>
              Written(x) = IF row[m].state = "absent" THEN row[m]
                                 ELSE Chained(row[m], run[x].carried)
<1> DEFINE seen == run[x].seen[m]
           chained == Chained(seen, run[x].carried)
<1>1. run[x] \in Run
  BY DEF TypeOK
<1>2. m \in 1..LastMonth /\ run[x].carried \in Maybe
      /\ run[x].seen \in [History -> Row]
  BY <1>1 DEF Run
<1>3. seen \in Row /\ row[m] \in Row
  BY <1>2 DEF TypeOK, History
<1>4. Written(x) =
        IF seen.state = "absent" \/ chained = seen THEN row[m]
        ELSE [row[m] EXCEPT !.start = chained.start, !.end = chained.end,
                              !.load = IF chained.load = NoValue THEN @ ELSE chained.load]
  BY DEF Written
<1> HIDE DEF seen
<1>5. /\ chained \in Row /\ chained.state = seen.state /\ chained.reset = seen.reset
      /\ chained.load = NoValue => seen.load = NoValue
  BY <1>2, <1>3, ChainedRow
<1> HIDE DEF chained
<1>6. Written(x) \in Row /\ Written(x).state = row[m].state
  BY <1>3, <1>4, <1>5 DEF Row
<1>7. ASSUME seen = row[m], seen.state # "absent" PROVE Written(x) = chained
  <2> DEFINE w == Written(x)
  <2>1. CASE chained = seen
    BY <1>4, <1>7, <2>1
  <2>2. CASE chained # seen
    <3>1. w = [row[m] EXCEPT !.start = chained.start, !.end = chained.end,
                               !.load = IF chained.load = NoValue THEN @ ELSE chained.load]
      BY <1>4, <1>7, <2>2
    <3>2. w.start = chained.start /\ w.end = chained.end /\ w.load = chained.load
      BY <1>3, <1>5, <1>7, <3>1 DEF Row
    <3>3. w.state = chained.state /\ w.reset = chained.reset
      BY <1>3, <1>5, <1>7, <3>1 DEF Row
    <3>4. w \in Row
      BY <1>6
    <3> HIDE DEF w
    <3>5. w = chained
      BY <1>5, <3>2, <3>3, <3>4 DEF Row
    <3>6. QED
      BY <3>5 DEF w
  <2>3. QED
    BY <2>1, <2>2
<1>8. QED
  BY <1>2, <1>4, <1>6, <1>7 DEF seen, chained

(* What was chained stays chained while it and the rows before it stay.      *)
LEMMA EarlierRowsStay ==
  ASSUME Parameters, NEW n \in History, HasLast(n),
         \A o \in 1..(n - 1) : row'[o] = row[o]
  PROVE  /\ EndBefore(n)' = EndBefore(n)
         /\ row'[n] = row[n] /\ ChainedAt(n) => ChainedAt(n)'
<1>1. n \in Nat
  BY DEF History, Parameters
<1>2. Before(n)' = Before(n) /\ Before(n) \subseteq 1..(n - 1)
  BY DEF Before
<1>3. EndBefore(n)' = EndBefore(n)
  <2>1. CASE Before(n) = {}
    BY <1>2, <2>1 DEF EndBefore
  <2>2. CASE Before(n) # {}
    <3> DEFINE l == CHOOSE k \in Before(n) : \A o \in Before(n) : o <= k
    <3>1. l \in Before(n)
      BY <2>2 DEF HasLast
    <3>2. /\ EndBefore(n) = row[l].end
          /\ EndBefore(n)' = row'[l].end
      BY <1>2, <2>2 DEF EndBefore
    <3>3. QED
      BY <1>2, <3>1, <3>2
  <2>3. QED
    BY <2>1, <2>2
<1>4. QED
  BY <1>3 DEF ChainedAt

(* A row that is written does not vanish, so there is still a last one.      *)
LEMMA LastRemains ==
  ASSUME Parameters, TypeOK, \A n \in History : HasLast(n),
         NEW m \in History, row'[m].state \in {"present", row[m].state},
         \A n \in History \ {m} : row'[n] = row[n]
  PROVE  \A n \in History : HasLast(n)'
<1> SUFFICES ASSUME NEW n \in History, Before(n)' # {}
             PROVE  \E l \in Before(n)' : \A o \in Before(n)' : o <= l
  BY DEF HasLast
<1>1. m \in Nat /\ n \in Nat /\ Before(n) \subseteq Nat /\ 1..(n - 1) \subseteq History
  BY DEF History, Before, Parameters
<1>2. Before(n)' \in {Before(n), Before(n) \cup {m}}
  BY <1>1 DEF Before
<1>3. CASE Before(n) = {}
  BY <1>1, <1>2, <1>3
<1>4. CASE Before(n) # {}
  <2>1. PICK l \in Before(n) : \A o \in Before(n) : o <= l
    BY <1>4 DEF HasLast
  <2>2. CASE m <= l
    BY <1>1, <1>2, <2>1, <2>2
  <2>3. CASE ~(m <= l)
    <3>1. \A o \in Before(n) : o <= m
      BY <1>1, <2>1, <2>3
    <3>2. QED
      BY <1>1, <1>2, <2>1, <3>1
  <2>4. QED
    BY <2>2, <2>3
<1>5. QED
  BY <1>3, <1>4

(* What month m + 1 continues: month m, when it is there.                    *)
LEMMA EndOfMonth ==
  ASSUME Parameters, NEW m \in 1..(LastMonth - 1)
  PROVE  EndBefore(m + 1)'
           = IF row'[m].state = "present" THEN row'[m].end ELSE EndBefore(m)'
<1>1. m \in Nat /\ (m + 1) - 1 = m
  BY DEF Parameters
<1>2. CASE row'[m].state = "present"
  <2> DEFINE S == Before(m + 1)'
  <2>1. m \in S /\ \A o \in S : o <= m /\ o \in Nat
    BY <1>1, <1>2 DEF Before
  <2>2. EndBefore(m + 1)' = IF S = {} THEN NoValue ELSE row'[CHOOSE k \in S : \A o \in S : o <= k].end
    BY DEF EndBefore
  <2> HIDE DEF S
  <2>3. \A k \in S : (\A o \in S : o <= k) => k = m
    BY <1>1, <2>1
  <2>4. (CHOOSE k \in S : \A o \in S : o <= k) = m
    BY <2>1, <2>3
  <2>5. QED
    BY <1>2, <2>1, <2>2, <2>4
<1>3. CASE row'[m].state # "present"
  <2> DEFINE S == Before(m + 1)'
             T == Before(m)'
             EndOf(A) == IF A = {} THEN NoValue ELSE row'[CHOOSE k \in A : \A o \in A : o <= k].end
  <2>1. S = T
    BY <1>1, <1>3 DEF Before
  <2>2. EndBefore(m + 1)' = EndOf(S) /\ EndBefore(m)' = EndOf(T)
    BY DEF EndBefore
  <2> HIDE DEF S, T, EndOf
  <2>3. EndBefore(m + 1)' = EndBefore(m)'
    BY <2>1, <2>2
  <2>4. QED
    BY <1>3, <2>3
<1>4. QED
  BY <1>2, <1>3

(* A month that was chained after its predecessors has its place.            *)
LEMMA WrittenIsChained ==
  ASSUME Parameters, NEW m \in History, NEW r \in Row,
         NEW carried \in Maybe, carried = EndBefore(m)',
         row'[m] = IF r.state = "absent" THEN r ELSE Chained(r, carried)
  PROVE  ChainedAt(m)'
<1>1. CASE r.state = "absent"
  BY <1>1 DEF ChainedAt
<1>2. CASE r.state # "absent"
  BY <1>2, ChainedRow DEF ChainedAt
<1>3. QED
  BY <1>1, <1>2

(* Whoever writes a row disturbs all the others that are writing.            *)
LEMMA OthersDisturbed ==
  ASSUME TypeOK, NEW by
  PROVE  /\ Disturbed(run, by) \in [Runs -> Run]
         /\ \A x \in Runs :
              /\ Disturbed(run, by)[x].pc = run[x].pc
              /\ x = by => Disturbed(run, by)[x] = run[x]
              /\ x # by /\ run[x].pc = "write" => Disturbed(run, by)[x].disturbed = "yes"
<1>1. \A x \in Runs :
        /\ run[x] \in Run
        /\ Disturbed(run, by)[x] = IF x # by /\ run[x].pc = "write"
                                         THEN [run[x] EXCEPT !.disturbed = "yes"] ELSE run[x]
  BY DEF Disturbed, TypeOK
<1>2. \A x \in Runs : Disturbed(run, by)[x] \in Run
  BY <1>1 DEF Run
<1>3. Disturbed(run, by) \in [Runs -> Run]
  BY <1>2 DEF Disturbed
<1>4. QED
  BY <1>1, <1>3 DEF Run

LEMMA NothingRuns ==
  ASSUME Parameters
  PROVE  Idle \in Run /\ Idle.pc = "idle" /\ NoRow \in Row
<1>1. NoRow \in Row
  BY DEF NoRow, Row, Maybe
<1>2. 1 \in 1..LastMonth
  BY DEF Parameters
<1>3. QED
  BY <1>1, <1>2 DEF Idle, Run, Maybe

(* The rows change, a run starts or ends: those that write are disturbed, or *)
(* see no difference.                                                        *)
LEMMA RowsOfWriter ==
  ASSUME Parameters, MeterInv, NEW x \in Runs, run[x].pc = "write",
         NEW m, m = run[x].at, row' = [row EXCEPT ![m] = Written(x)]
  PROVE  /\ m \in History /\ row' \in [History -> Row]
         /\ row'[m] = Written(x) /\ \A n \in History \ {m} : row'[n] = row[n]
         /\ \A n \in History : HasLast(n)'
         /\ run[x].disturbed = "no" =>
              /\ EndBefore(m)' = run[x].carried
              /\ row'[m] = IF row[m].state = "absent" THEN row[m]
                             ELSE Chained(row[m], run[x].carried)
              /\ \A n \in 1..m : ChainedAt(n)'
<1>1. /\ TypeOK /\ RunFits(x) /\ \A n \in History : HasLast(n)
      /\ row \in [History -> Row]
  BY DEF MeterInv, TypeOK
<1>2. /\ m \in 1..LastMonth /\ run[x].carried \in Maybe
      /\ Written(x) \in Row /\ Written(x).state = row[m].state
      /\ run[x].seen[m] = row[m] =>
           Written(x) = IF row[m].state = "absent" THEN row[m]
                              ELSE Chained(row[m], run[x].carried)
  BY <1>1, WrittenRow
<1>3. m \in History /\ m \in Nat /\ \A n \in 1..m : n \in History
  BY <1>2 DEF History, Parameters
<1>4. /\ row' \in [History -> Row] /\ row'[m] = Written(x)
      /\ \A n \in History \ {m} : row'[n] = row[n]
  BY <1>1, <1>2, <1>3
<1>5. \A n \in History : HasLast(n)'
  BY <1>1, <1>2, <1>3, <1>4, LastRemains
<1>6. ASSUME run[x].disturbed = "no"
      PROVE  /\ EndBefore(m)' = run[x].carried
             /\ row'[m] = IF row[m].state = "absent" THEN row[m]
                            ELSE Chained(row[m], run[x].carried)
             /\ \A n \in 1..m : ChainedAt(n)'
  <2>1. /\ run[x].seen[m] = row[m] /\ run[x].carried = EndBefore(m)
        /\ \A n \in 1..(m - 1) : ChainedAt(n)
    BY <1>1, <1>2, <1>6 DEF RunFits
  <2>2. \A n \in 1..m : \A o \in 1..(n - 1) : row'[o] = row[o]
    BY <1>3, <1>4
  <2>3. EndBefore(m)' = run[x].carried
    BY <1>1, <1>3, <2>1, <2>2, EarlierRowsStay
  <2>4. \A n \in 1..(m - 1) : ChainedAt(n)'
    BY <1>1, <1>3, <1>4, <2>1, <2>2, EarlierRowsStay
  <2>5. row'[m] = IF row[m].state = "absent" THEN row[m]
                    ELSE Chained(row[m], run[x].carried)
    BY <1>2, <1>4, <2>1
  <2>6. row[m] \in Row
    BY <1>1, <1>3
  <2>7. ChainedAt(m)'
    BY <1>2, <1>3, <2>3, <2>5, <2>6, WrittenIsChained
  <2>8. QED
    BY <1>3, <2>3, <2>4, <2>5, <2>7
<1>7. QED
  BY <1>3, <1>4, <1>5, <1>6

LEMMA NoRowMoves ==
  ASSUME MeterInv, UNCHANGED row
  PROVE  /\ \A n : ChainedAt(n)' <=> ChainedAt(n)
         /\ \A n : EndBefore(n)' = EndBefore(n)
         /\ \A n \in History : HasLast(n)'
BY DEF MeterInv, ChainedAt, HasLast, EndBefore, Before

(* Another run that writes: either nothing has changed for it, or it is      *)
(* disturbed.                                                                *)
LEMMA OtherRunFits ==
  ASSUME MeterInv, NEW x, NEW y \in Runs, y # x,
         run'[y] = IF row' = row THEN run[y] ELSE Disturbed(run, x)[y]
  PROVE  RunFits(y)' /\ run'[y] \in Run
<1>1. TypeOK /\ RunFits(y) /\ run[y] \in Run
  BY DEF MeterInv, TypeOK
<1>2. CASE row' = row
  <2>1. run'[y] = run[y]
    BY <1>2
  <2>2. QED
    BY <1>1, <1>2, <2>1, NoRowMoves DEF RunFits
<1>3. CASE row' # row
  BY <1>1, <1>3, OthersDisturbed DEF RunFits
<1>4. QED
  BY <1>2, <1>3

LEMMA WriteRowStep ==
  ASSUME Parameters, MeterInv, NEW x \in Runs, WriteRow(x)
  PROVE  MeterInv'
<1>a. PICK m : m = run[x].at
  OBVIOUS
<1>b. PICK seen : seen = run[x].seen[m]
  OBVIOUS
<1>c. PICK carried : carried = run[x].carried
  OBVIOUS
<1>d. PICK others : others = IF row' = row THEN run ELSE Disturbed(run, x)
  OBVIOUS
<1>1. /\ run[x].pc = "write" /\ m < LastMonth
      /\ row' = [row EXCEPT ![m] = Written(x)]
      /\ settled' = IF row' = row THEN settled ELSE "no"
      /\ UNCHANGED <<entries, faults>>
  BY <1>a DEF WriteRow
<1>e. PICK next : next = IF seen.state = "absent" THEN carried ELSE Chained(seen, carried).end
  OBVIOUS
<1>2. run' = [others EXCEPT ![x] = [others[x] EXCEPT !.at = m + 1, !.seen[m] = NoRow,
                                                     !.carried = next]]
  BY <1>a, <1>b, <1>c, <1>d, <1>e DEF WriteRow, Carried
<1>3. /\ TypeOK /\ RunFits(x) /\ run[x] \in Run
      /\ run \in [Runs -> Run] /\ settled \in {"no", "yes"}
  BY DEF MeterInv, TypeOK
<1>4. /\ m \in 1..LastMonth /\ run[x].seen \in [History -> Row]
      /\ carried \in Maybe /\ m \in History /\ seen \in Row
      /\ LastMonth \in Nat
  BY <1>3, <1>a, <1>b, <1>c DEF Run, History, Parameters
<1>5. others \in [Runs -> Run] /\ others[x] = run[x]
  BY <1>3, <1>d, OthersDisturbed
<1>6. \A y \in Runs \ {x} :
        run'[y] = IF row' = row THEN run[y] ELSE Disturbed(run, x)[y]
  BY <1>2, <1>5, <1>d
<1>8. next \in Maybe
  BY <1>4, <1>e, ChainedRow DEF Maybe
<1>9. run'[x] = [run[x] EXCEPT !.at = m + 1, !.seen[m] = NoRow, !.carried = next]
  BY <1>2, <1>5
<1>10. /\ run'[x].pc = "write" /\ run'[x].at = m + 1 /\ run'[x].carried = next
       /\ run'[x].disturbed = run[x].disturbed
       /\ run'[x].seen = [run[x].seen EXCEPT ![m] = NoRow]
  BY <1>1, <1>3, <1>9 DEF Run
<1>11. run'[x] \in Run
  <2>1. m + 1 \in 1..LastMonth
    BY <1>1, <1>4
  <2>2. [run[x].seen EXCEPT ![m] = NoRow] \in [History -> Row]
    BY <1>4, NothingRuns
  <2>3. QED
    BY <1>3, <1>8, <1>9, <2>1, <2>2 DEF Run
<1>12. run' \in [Runs -> Run]
  BY <1>2, <1>5, <1>9, <1>11
<1>13. /\ row' \in [History -> Row]
       /\ \A n \in History \ {m} : row'[n] = row[n]
       /\ \A n \in History : HasLast(n)'
       /\ run[x].disturbed = "no" =>
            /\ EndBefore(m)' = carried
            /\ row'[m] = IF row[m].state = "absent" THEN row[m]
                           ELSE Chained(row[m], carried)
            /\ \A n \in 1..m : ChainedAt(n)'
  <2> DEFINE chained(c) ==
        /\ EndBefore(m)' = c
        /\ row'[m] = IF row[m].state = "absent" THEN row[m] ELSE Chained(row[m], c)
  <2>1. /\ row' \in [History -> Row]
        /\ \A n \in History \ {m} : row'[n] = row[n]
        /\ \A n \in History : HasLast(n)'
        /\ run[x].disturbed = "no" => \A n \in 1..m : ChainedAt(n)'
    <3>1. row' = [row EXCEPT ![m] = Written(x)] /\ run[x].pc = "write"
      BY <1>1
    <3>2. QED
      BY <3>1, <1>a, RowsOfWriter
  <2>2. run[x].disturbed = "no" => chained(run[x].carried)
    <3>1. row' = [row EXCEPT ![m] = Written(x)] /\ run[x].pc = "write"
      BY <1>1
    <3> HIDE DEF chained
    <3>2. QED
      BY <3>1, <1>a, RowsOfWriter DEF chained
  <2>3. QED
    BY <1>c, <2>1, <2>2
<1>14. TypeOK'
  BY <1>1, <1>3, <1>12, <1>13 DEF TypeOK
<1>15. settled' = "yes" => \A n \in History : ChainedAt(n)'
  <2> SUFFICES ASSUME settled' = "yes" PROVE \A n \in History : ChainedAt(n)'
    OBVIOUS
  <2>1. row' = row /\ settled = "yes"
    BY <1>1
  <2>2. QED
    BY <2>1, NoRowMoves DEF MeterInv
<1>16. RunFits(x)'
  <2> SUFFICES ASSUME run[x].disturbed = "no"
               PROVE  /\ \A n \in (m + 1)..LastMonth : run'[x].seen[n] = row'[n]
                      /\ next = EndBefore(m + 1)'
                      /\ \A n \in 1..m : ChainedAt(n)'
    BY <1>4, <1>10 DEF RunFits
  <2>1. /\ \A n \in m..LastMonth : run[x].seen[n] = row[n]
        /\ seen = row[m]
    BY <1>1, <1>3, <1>4, <1>a, <1>b DEF RunFits
  <2>2. \A n \in (m + 1)..LastMonth : run'[x].seen[n] = row'[n]
    BY <1>4, <1>10, <1>13, <2>1 DEF History
  <2>3. EndBefore(m + 1)' = IF row'[m].state = "present" THEN row'[m].end ELSE carried
    BY <1>1, <1>4, <1>13, EndOfMonth
  <2>4. row'[m].state = seen.state /\ (seen.state # "absent" => seen.state = "present")
    BY <1>4, <1>13, <2>1, ChainedRow DEF Row
  <2>5. next = EndBefore(m + 1)'
    BY <1>e, <1>13, <2>1, <2>3, <2>4
  <2>6. QED
    BY <1>13, <2>2, <2>5
<1>17. ASSUME NEW y \in Runs \ {x} PROVE RunFits(y)'
  BY <1>6, OtherRunFits
<1>18. QED
  BY <1>13, <1>14, <1>15, <1>16, <1>17 DEF MeterInv

LEMMA WriteLastRowStep ==
  ASSUME Parameters, MeterInv, NEW x \in Runs, WriteLastRow(x)
  PROVE  MeterInv'
<1>a. PICK m : m = run[x].at
  OBVIOUS
<1>b. PICK others : others = IF row' = row THEN run ELSE Disturbed(run, x)
  OBVIOUS
<1>1. /\ run[x].pc = "write" /\ m = LastMonth
      /\ row' = [row EXCEPT ![m] = Written(x)]
      /\ run' = [others EXCEPT ![x] = Idle]
      /\ settled' = IF run[x].disturbed = "no" THEN "yes" ELSE IF row' = row THEN settled ELSE "no"
      /\ UNCHANGED <<entries, faults>>
  BY <1>a, <1>b DEF WriteLastRow
<1>2. TypeOK /\ run \in [Runs -> Run] /\ settled \in {"no", "yes"}
  BY DEF MeterInv, TypeOK
<1>3. others \in [Runs -> Run]
  BY <1>2, <1>b, OthersDisturbed
<1>4. /\ run' \in [Runs -> Run] /\ run'[x].pc = "idle"
      /\ \A y \in Runs \ {x} :
           run'[y] = IF row' = row THEN run[y] ELSE Disturbed(run, x)[y]
  BY <1>1, <1>3, <1>b, NothingRuns
<1>5. /\ row' \in [History -> Row]
      /\ \A n \in History : HasLast(n)'
      /\ run[x].disturbed = "no" => \A n \in 1..m : ChainedAt(n)'
  BY <1>1, <1>a, RowsOfWriter
<1>6. TypeOK'
  BY <1>1, <1>2, <1>4, <1>5 DEF TypeOK
<1>7. settled' = "yes" => \A n \in History : ChainedAt(n)'
  <2>1. CASE run[x].disturbed = "no"
    BY <1>1, <1>5, <2>1 DEF History
  <2>2. CASE run[x].disturbed # "no"
    <3> SUFFICES ASSUME settled' = "yes" PROVE \A n \in History : ChainedAt(n)'
      OBVIOUS
    <3>1. row' = row /\ settled = "yes"
      BY <1>1, <2>2
    <3>2. QED
      BY <3>1, NoRowMoves DEF MeterInv
  <2>3. QED
    BY <2>1, <2>2
<1>8. RunFits(x)'
  BY <1>4 DEF RunFits
<1>9. ASSUME NEW y \in Runs \ {x} PROVE RunFits(y)'
  BY <1>4, OtherRunFits
<1>10. QED
  BY <1>5, <1>6, <1>7, <1>8, <1>9 DEF MeterInv

(* A run that does not write yet, or any more, and no row that moves.        *)
LEMMA RunsStartAndEnd ==
  ASSUME MeterInv, UNCHANGED <<row, settled>>,
         run' \in [Runs -> Run], entries' = entries, faults' \in 0..MaxFaults,
         \A x \in Runs : run'[x] = run[x] \/ run'[x].pc # "write"
  PROVE  MeterInv'
<1>1. TypeOK'
  BY DEF MeterInv, TypeOK
<1>2. \A n \in History : HasLast(n)'
  BY NoRowMoves
<1>3. settled' = "yes" => \A n \in History : ChainedAt(n)'
  BY NoRowMoves DEF MeterInv
<1>4. ASSUME NEW x \in Runs PROVE RunFits(x)'
  <2>1. CASE run'[x] = run[x]
    <3>1. RunFits(x)
      BY DEF MeterInv
    <3>2. QED
      BY <2>1, <3>1, NoRowMoves DEF RunFits
  <2>2. CASE run'[x].pc # "write"
    BY <2>2 DEF RunFits
  <2>3. QED
    BY <2>1, <2>2
<1>5. QED
  BY <1>1, <1>2, <1>3, <1>4 DEF MeterInv

LEMMA ReadStep ==
  ASSUME Parameters, MeterInv, NEW x \in Runs, Read(x)
  PROVE  MeterInv'
<1>1. PICK begun : begun = [pc |-> "write", at |-> 1, carried |-> NoValue, seen |-> row,
                            disturbed |-> "no"]
  OBVIOUS
<1>2. run' = [run EXCEPT ![x] = begun] /\ UNCHANGED <<row, settled, entries, faults>>
  BY <1>1 DEF Read
<1>3. /\ TypeOK /\ run \in [Runs -> Run]
      /\ row \in [History -> Row] /\ 1 \in 1..LastMonth
  BY DEF MeterInv, TypeOK, Parameters
<1>4. begun \in Run
  BY <1>1, <1>3 DEF Run, Maybe
<1>5. /\ run' \in [Runs -> Run] /\ run'[x] = begun
      /\ \A y \in Runs \ {x} : run'[y] = run[y]
  BY <1>2, <1>3, <1>4
<1>6. TypeOK'
  BY <1>2, <1>3, <1>5 DEF TypeOK
<1>7. EndBefore(1)' = NoValue
  BY DEF EndBefore, Before
<1>8. RunFits(x)'
  BY <1>1, <1>2, <1>5, <1>7 DEF RunFits
<1>9. ASSUME NEW y \in Runs \ {x} PROVE RunFits(y)'
  <2>1. RunFits(y)
    BY DEF MeterInv
  <2>2. QED
    BY <1>2, <1>5, <2>1, NoRowMoves DEF RunFits
<1>10. (\A n \in History : HasLast(n)')
         /\ (settled' = "yes" => \A n \in History : ChainedAt(n)')
  BY <1>2, NoRowMoves DEF MeterInv
<1>11. QED
  BY <1>6, <1>8, <1>9, <1>10 DEF MeterInv

(* A row that is entered: everybody who writes is disturbed.                 *)
LEMMA RowEntered ==
  ASSUME Parameters, MeterInv, NEW m \in History, NEW r \in Row, NEW by,
         r.state = "present", row' = [row EXCEPT ![m] = r], settled' = "no",
         entries' \in 0..MaxEntries, faults' = faults,
         run' \in [Runs -> Run],
         \A x \in Runs : run'[x] = Disturbed(run, by)[x] \/ run'[x].pc # "write",
         by \in Runs => run'[by].pc # "write"
  PROVE  MeterInv'
<1>1. TypeOK /\ row \in [History -> Row]
  BY DEF MeterInv, TypeOK
<1>2. /\ row' \in [History -> Row] /\ row'[m] = r
      /\ \A n \in History \ {m} : row'[n] = row[n]
  BY <1>1
<1>3. TypeOK'
  BY <1>1, <1>2 DEF TypeOK
<1>4. \A n \in History : HasLast(n)'
  BY <1>1, <1>2, LastRemains DEF MeterInv
<1>5. \A x \in Runs : RunFits(x)'
  BY <1>1, OthersDisturbed DEF RunFits
<1>6. QED
  BY <1>3, <1>4, <1>5 DEF MeterInv

LEMMA EntryStep ==
  ASSUME Parameters, MeterInv, Entry
  PROVE  MeterInv'
<1>1. PICK m \in History, load \in Loads \cup {NoValue},
           start \in Readings \cup {NoValue}, end \in Readings \cup {NoValue} :
        \/ \E isReset \in {"no", "yes"} :
             Enter(m, Entered(load, start, end, isReset))
        \/ ProviderWrites(m, load)
  BY DEF Entry
<1>2. /\ TypeOK /\ run \in [Runs -> Run] /\ row[m] \in Row
      /\ entries \in 0..MaxEntries /\ MaxEntries \in Nat
  BY DEF MeterInv, TypeOK, Parameters
<1>3. load \in Int \cup {NoValue} /\ start \in Nat \cup {NoValue} /\ end \in Nat \cup {NoValue}
  BY DEF Parameters
<1>4. ASSUME NEW isReset \in {"no", "yes"}, Enter(m, Entered(load, start, end, isReset))
      PROVE  MeterInv'
  <2>1. PICK r : r = Entered(load, start, end, isReset)
    OBVIOUS
  <2>2. r \in Row /\ r.state = "present"
    BY <1>3, <2>1 DEF Entered, Row, Maybe
  <2>3. PICK others : others = Disturbed(run, "request")
    OBVIOUS
  <2>4. /\ row' = [row EXCEPT ![m] = r] /\ settled' = "no" /\ faults' = faults
        /\ entries < MaxEntries /\ entries' = entries + 1
        /\ run' = [others EXCEPT !["request"].pc = "read"]
    BY <1>4, <2>1, <2>3 DEF Enter
  <2>5. others \in [Runs -> Run] /\ "request" \in Runs
    BY <1>2, <2>3, OthersDisturbed DEF Runs
  <2>6. /\ run'["request"] \in Run /\ run'["request"].pc = "read"
        /\ \A x \in Runs \ {"request"} : run'[x] = others[x]
    BY <2>4, <2>5 DEF Run
  <2>7. run' \in [Runs -> Run]
    BY <2>4, <2>5, <2>6
  <2>8. entries' \in 0..MaxEntries
    BY <1>2, <2>4
  <2>9. QED
    BY <2>2, <2>3, <2>4, <2>6, <2>7, <2>8, RowEntered
<1>5. ASSUME ProviderWrites(m, load) PROVE MeterInv'
  <2>1. PICK r : r = [row[m] EXCEPT !.state = "present", !.load = load, !.reset = "no"]
    OBVIOUS
  <2>2. r \in Row /\ r.state = "present"
    BY <1>2, <1>3, <2>1 DEF Row
  <2>3. /\ row' = [row EXCEPT ![m] = r] /\ settled' = "no" /\ faults' = faults
        /\ entries < MaxEntries /\ entries' = entries + 1
        /\ run' = Disturbed(run, "provider")
    BY <1>5, <2>1 DEF ProviderWrites
  <2>4. run' \in [Runs -> Run] /\ "provider" \notin Runs
    BY <1>2, <2>3, OthersDisturbed DEF Runs
  <2>5. entries' \in 0..MaxEntries
    BY <1>2, <2>3
  <2>6. QED
    BY <2>2, <2>3, <2>4, <2>5, RowEntered
<1>6. QED
  BY <1>1, <1>4, <1>5

(* The other steps of the part.                                              *)
LEMMA RestOfMeterSteps ==
  ASSUME Parameters, MeterInv,
         \/ ListRecords \/ RunHourlyRefresh \/ Restart
         \/ \E x \in Runs : Fail(x)
  PROVE  MeterInv'
<1>1. /\ run \in [Runs -> Run] /\ "request" \in Runs /\ "job" \in Runs
      /\ faults \in 0..MaxFaults /\ MaxFaults \in Nat
  BY DEF MeterInv, TypeOK, Runs, Parameters
<1>2. ASSUME NEW x \in Runs, run' = [run EXCEPT ![x].pc = "read"],
             UNCHANGED <<row, settled, entries, faults>>
      PROVE  MeterInv'
  <2>1. run'[x] \in Run /\ run'[x].pc # "write"
        /\ \A y \in Runs \ {x} : run'[y] = run[y]
    BY <1>1, <1>2 DEF Run
  <2>2. run' \in [Runs -> Run]
    BY <1>1, <1>2, <2>1
  <2>3. QED
    BY <1>1, <1>2, <2>1, <2>2, RunsStartAndEnd
<1>3. ASSUME NEW x \in Runs, Fail(x) PROVE MeterInv'
  <2>1. /\ run' = [run EXCEPT ![x] = Idle] /\ UNCHANGED <<row, settled, entries>>
        /\ faults < MaxFaults /\ faults' = faults + 1
    BY <1>3 DEF Fail
  <2>2. run' \in [Runs -> Run]
        /\ \A y \in Runs : run'[y] = run[y] \/ run'[y].pc # "write"
    BY <1>1, <2>1, NothingRuns
  <2>3. faults' \in 0..MaxFaults
    BY <1>1, <2>1
  <2>4. QED
    BY <2>1, <2>2, <2>3, RunsStartAndEnd
<1>4. ASSUME Restart PROVE MeterInv'
  <2>1. /\ run' = [x \in Runs |-> Idle] /\ UNCHANGED <<row, settled, entries>>
        /\ faults < MaxFaults /\ faults' = faults + 1
    BY <1>4 DEF Restart
  <2>2. run' \in [Runs -> Run] /\ \A y \in Runs : run'[y].pc # "write"
    BY <2>1, NothingRuns
  <2>3. faults' \in 0..MaxFaults
    BY <1>1, <2>1
  <2>4. QED
    BY <2>1, <2>2, <2>3, RunsStartAndEnd
<1>5. QED
  BY <1>1, <1>2, <1>3, <1>4 DEF ListRecords, RunHourlyRefresh

LEMMA MeterInvStep ==
  ASSUME Parameters, MeterInv, [Next]_vars
  PROVE  MeterInv'
<1>1. CASE UNCHANGED vars
  <2>1. /\ UNCHANGED <<row, settled, entries, run>> /\ faults' = faults
        /\ run \in [Runs -> Run] /\ faults \in 0..MaxFaults
    BY <1>1 DEF vars, MeterInv, TypeOK
  <2>2. QED
    BY <2>1, RunsStartAndEnd
<1>2. CASE Next
  BY <1>2, EntryStep, ReadStep, WriteRowStep, WriteLastRowStep, RestOfMeterSteps
     DEF Next, Proceed
<1>3. QED
  BY <1>1, <1>2

LEMMA MeterInvKept ==
  ASSUME Parameters
  PROVE  Spec => []MeterInv
<1>1. Init => MeterInv
  <2> SUFFICES ASSUME Init PROVE MeterInv
    OBVIOUS
  <2>1. TypeOK
    BY NothingRuns DEF Init, TypeOK, Parameters
  <2>2. \A n : Before(n) = {} \/ ~(n \in History)
    BY DEF Init, Before, NoRow, History, Parameters
  <2>3. (\A n \in History : HasLast(n)) /\ \A n \in History : ChainedAt(n)
    BY <2>2 DEF Init, NoRow, HasLast, ChainedAt
  <2>4. \A x \in Runs : RunFits(x)
    BY NothingRuns DEF Init, RunFits
  <2>5. QED
    BY <2>1, <2>3, <2>4 DEF MeterInv
<1>2. QED
  BY <1>1, MeterInvStep, PTL DEF Spec

(* The rows and the recalculations keep their types.                         *)
THEOREM TypeCorrect ==
  ASSUME Parameters
  PROVE  Spec => []TypeOK
BY MeterInvKept, PTL DEF MeterInv

(* After a recalculation that nobody disturbed, and until something is       *)
(* written, every month starts where the last one ended unless its meter was *)
(* reset, and ends after what it consumed.                                   *)
THEOREM SettledReadingsChain ==
  ASSUME Parameters
  PROVE  Spec => []ReadingsChain
<1>1. MeterInv => ReadingsChain
  BY DEF MeterInv, ChainedAt, ReadingsChain
<1>2. QED
  BY <1>1, MeterInvKept, PTL

(* Recalculating a settled chain changes no reading.                         *)
THEOREM RecalculationIsIdempotent ==
  ASSUME Parameters
  PROVE  Spec => SettledReadingsStand
<1> DEFINE Stands ==
      \A x \in Runs :
        Proceed(x) /\ settled = "yes" /\ run[x].disturbed = "no" =>
          \A m \in History : row'[m].start = row[m].start /\ row'[m].end = row[m].end
<1>1. MeterInv /\ [Next]_vars => [Stands]_vars
  <2> SUFFICES ASSUME MeterInv, NEW x \in Runs, Proceed(x),
                      settled = "yes", run[x].disturbed = "no", NEW n \in History
               PROVE  row'[n].start = row[n].start /\ row'[n].end = row[n].end
    OBVIOUS
  <2>1. CASE Read(x)
    BY <2>1 DEF Read
  <2>2. CASE WriteRow(x) \/ WriteLastRow(x)
    <3>1. PICK m : m = run[x].at
      OBVIOUS
    <3>2. run[x].pc = "write" /\ row' = [row EXCEPT ![m] = Written(x)]
      BY <2>2, <3>1 DEF WriteRow, WriteLastRow
    <3>3. /\ m \in History /\ row'[m] = Written(x)
          /\ \A k \in History \ {m} : row'[k] = row[k]
      BY <3>1, <3>2, RowsOfWriter
    <3>4. run[x].carried \in Maybe /\ row[m] \in Row
      BY <3>1, <3>2, <3>3, WrittenRow DEF MeterInv, TypeOK
    <3>5. /\ run[x].seen[m] = row[m] /\ run[x].carried = EndBefore(m) /\ ChainedAt(m)
      BY <3>1, <3>2, <3>3 DEF MeterInv, RunFits, History, Parameters
    <3>6. row'[m] = IF row[m].state = "absent" THEN row[m]
                      ELSE Chained(row[m], run[x].carried)
      BY <3>1, <3>2, <3>3, <3>5, WrittenRow DEF MeterInv
    <3>7. row'[m].start = row[m].start /\ row'[m].end = row[m].end
      <4>1. CASE row[m].state = "absent"
        BY <3>6, <4>1
      <4>2. CASE row[m].state # "absent"
        <5>1. row[m].state = "present"
          BY <3>4, <4>2 DEF Row
        <5>2. QED
          BY <3>4, <3>5, <3>6, <5>1, ChainedStands DEF ChainedAt
      <4>3. QED
        BY <4>1, <4>2
    <3>8. QED
      BY <3>3, <3>7
  <2>3. QED
    BY <2>1, <2>2 DEF Proceed
<1>2. QED
  BY <1>1, MeterInvKept, PTL DEF Spec, SettledReadingsStand
=============================================================================
