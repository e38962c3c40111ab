--------------------------- MODULE LifecycleProofs ---------------------------
(***************************************************************************)
(* Proofs about ManagerLifecycle: for any databases, any connections of    *)
(* any processes, any ids and any number of crashes, the migration leaves  *)
(* a versioned database complete, it is applied once unless it was         *)
(* interrupted, and a directory that was closed properly is found again.   *)
(***************************************************************************)
EXTENDS ManagerLifecycle, TLAPS

-----------------------------------------------------------------------------
(* The inductive invariant *)

SchemaTypeOK ==
    /\ schema \in [Databases -> [Statements -> Nat]]
    /\ conn \in [Connections -> [pc : {"closed", "migrate", "script", "open"},
                                 next : 1..Len(Script)]]
    /\ interrupted \subseteq Databases

\* Only a running script has a position in it.
AtStart == \A c \in Connections : conn[c].pc # "script" => conn[c].next = 1

\* What a script has run is there.
ScriptBehind ==
    \A c \in Connections : conn[c].pc = "script" =>
        \A i \in 1..(conn[c].next - 1) : schema[DbOf[c]][Script[i]] > 0

\* A connection half-way through the script of db, alone, has applied what is
\* behind it and nothing else.
AloneHalfway(db, c) ==
    /\ DbOf[c] = db /\ Halfway(c)
    /\ \A d \in Connections : DbOf[d] = db /\ Halfway(d) => d = c
    /\ \A i \in 1..Len(Script) :
          schema[db][Script[i]] = IF i < conn[c].next THEN 1 ELSE 0

\* Nobody is half-way: the script has not been run, or it has been run once.
Settled(db) ==
    /\ \A c \in Connections : DbOf[c] = db => ~Halfway(c)
    /\ \/ \A s \in Statements : schema[db][s] = 0
       \/ \A s \in Statements : schema[db][s] = 1

Sequential ==
    \A db \in Databases \ interrupted :
        Settled(db) \/ \E c \in Connections : AloneHalfway(db, c)

SchemaInv ==
    SchemaTypeOK /\ AtStart /\ ScriptBehind /\ VersionedIsComplete /\ Sequential

TierTypeOK ==
    /\ pc \in {"down", "opening", "up", "closing"}
    /\ at \in TierNos
    /\ rows \in [TierNos -> SUBSET Ids]
    /\ index \in [TierNos -> SUBSET Ids]
    /\ image \in [TierNos -> [torn : BOOLEAN, ids : SUBSET Ids]]
    /\ intact \in BOOLEAN

\* On the way to an index that agrees with the rows: all of the directory is
\* good while nobody uses it, and so is the part opened or saved already.
OnDisk(i) == image[i] = File(rows[i])

NothingMissing ==
    intact =>
        /\ pc \in {"down", "opening"} => \A i \in TierNos : OnDisk(i)
        /\ pc = "opening" => \A i \in TierNos : i < at => index[i] = rows[i]
        /\ pc \in {"up", "closing"} => \A i \in TierNos : index[i] = rows[i]
        /\ pc = "closing" => \A i \in TierNos : i < at => OnDisk(i)

TierInv == TierTypeOK /\ NothingMissing

-----------------------------------------------------------------------------
(* The script *)

\* Each statement of the script is there once, and the version is the last.
LEMMA ScriptFacts ==
    /\ Len(Script) = 5
    /\ \A i \in 1..5 : Script[i] \in Statements
    /\ \A s \in Statements : \E i \in 1..5 : s = Script[i]
    /\ \A i, j \in 1..5 : Script[i] = Script[j] => i = j
    /\ \A i \in 1..5 : Script[i] = "version" <=> i = 5
    /\ "version" \in Statements
<1>1. /\ Len(Script) = 5 /\ DOMAIN Script = 1..5
      /\ Script[1] = "memories" /\ Script[2] = "idx_tier"
      /\ Script[3] = "idx_last_touch" /\ Script[4] = "idx_label"
      /\ Script[5] = "version"
  BY DEF Script
<1>2. \A i \in 1..5 : i = 1 \/ i = 2 \/ i = 3 \/ i = 4 \/ i = 5
  OBVIOUS
<1>3. Statements = {Script[i] : i \in 1..5}
  BY <1>1 DEF Statements
<1>4. \A i, j \in 1..5 : Script[i] = Script[j] => i = j
  BY <1>1, <1>2
<1>5. \A i \in 1..5 : Script[i] = "version" <=> i = 5
  BY <1>1, <1>2
<1> QED
  BY <1>1, <1>3, <1>4, <1>5

\* The databases start empty.
LEMMA SchemaInitInv == SchemaInit => SchemaInv
<1> SUFFICES ASSUME SchemaInit PROVE SchemaInv
  OBVIOUS
<1>1. /\ schema = [db \in Databases |-> [s \in Statements |-> 0]]
      /\ conn = [c \in Connections |-> [pc |-> "closed", next |-> 1]]
      /\ interrupted = {}
  BY DEF SchemaInit, Closed
<1>2. SchemaTypeOK
  BY <1>1, ScriptFacts DEF SchemaTypeOK
<1>3. AtStart /\ ScriptBehind
  BY <1>1 DEF AtStart, ScriptBehind
<1>4. VersionedIsComplete
  BY <1>1, ScriptFacts DEF VersionedIsComplete
<1>5. Sequential
  BY <1>1 DEF Sequential, Settled, Halfway
<1> QED
  BY <1>2, <1>3, <1>4, <1>5 DEF SchemaInv

-----------------------------------------------------------------------------
(* Steps of one connection *)

\* A connection that is nowhere in a script may move: nothing depends on it.
LEMMA OutsideScript ==
    ASSUME SchemaInv, NEW c \in Connections, NEW r,
           r \in [pc : {"closed", "migrate", "script", "open"},
                  next : 1..Len(Script)],
           r.next = 1, ~Halfway(c),
           conn' = [conn EXCEPT ![c] = r], UNCHANGED <<schema, interrupted>>
    PROVE  SchemaInv'
<1> USE DEF SchemaInv
<1>1. /\ conn'[c] = r
      /\ \A d \in Connections : d # c => conn'[d] = conn[d]
  BY DEF SchemaTypeOK
<1>2. SchemaTypeOK'
  BY DEF SchemaTypeOK
<1>3. AtStart'
  BY <1>1 DEF AtStart
<1>4. ScriptBehind'
  <2> SUFFICES ASSUME NEW d \in Connections, conn'[d].pc = "script",
                      NEW i \in 1..(conn'[d].next - 1)
               PROVE  schema[DbOf[d]][Script[i]] > 0
    BY DEF ScriptBehind
  <2> QED
    BY <1>1 DEF ScriptBehind
<1>5. VersionedIsComplete'
  BY DEF VersionedIsComplete
<1>6. \A d \in Connections : Halfway(d)' <=> Halfway(d)
  BY <1>1 DEF Halfway
<1>7. \A d \in Connections : Halfway(d) => conn'[d] = conn[d]
  BY <1>1
<1>8. Sequential'
  <2> SUFFICES ASSUME NEW db \in Databases \ interrupted
               PROVE  Settled(db)' \/ \E d \in Connections : AloneHalfway(db, d)'
    BY DEF Sequential
  <2>1. CASE Settled(db)
    BY <1>6, <2>1 DEF Settled
  <2>2. ASSUME NEW d \in Connections, AloneHalfway(db, d)
        PROVE  AloneHalfway(db, d)'
    BY <1>6, <1>7, <2>2 DEF AloneHalfway
  <2> QED
    BY <2>1, <2>2 DEF Sequential
<1> QED
  BY <1>2, <1>3, <1>4, <1>5, <1>8

LEMMA ConnectInv ==
    ASSUME SchemaInv, NEW c \in Connections, Connect(c) PROVE SchemaInv'
<1> DEFINE r == [pc |-> "migrate", next |-> 1]
<1>1. conn[c] = [pc |-> "closed", next |-> 1]
  BY DEF Connect, SchemaInv, SchemaTypeOK, AtStart
<1>2. conn' = [conn EXCEPT ![c] = r]
  <2>1. [conn[c] EXCEPT !.pc = "migrate"] = r
    BY <1>1
  <2>2. conn' = [conn EXCEPT ![c] = [conn[c] EXCEPT !.pc = "migrate"]]
    BY DEF Connect
  <2> QED
    BY ONLY <2>1, <2>2
<1>3. ~Halfway(c) /\ UNCHANGED <<schema, interrupted>>
  BY <1>1 DEF Halfway, Connect
<1>4. /\ r \in [pc : {"closed", "migrate", "script", "open"}, next : 1..Len(Script)]
      /\ r.next = 1
  BY ScriptFacts
<1> QED
  BY <1>2, <1>3, <1>4, OutsideScript

LEMMA SelectVersionInv ==
    ASSUME SchemaInv, NEW c \in Connections, SelectVersion(c) PROVE SchemaInv'
<1> DEFINE to == IF schema[DbOf[c]]["version"] > 0 THEN "open" ELSE "script"
           r  == [pc |-> to, next |-> 1]
<1>1. conn[c] = [pc |-> "migrate", next |-> 1]
  BY DEF SelectVersion, SchemaInv, SchemaTypeOK, AtStart
<1>2. conn' = [conn EXCEPT ![c].pc = to]
  BY DEF SelectVersion
<1>3. to \in {"open", "script"}
  OBVIOUS
<1>4. ~Halfway(c) /\ UNCHANGED <<schema, interrupted>>
  BY <1>1 DEF Halfway, SelectVersion
<1> HIDE DEF to
<1>5. conn' = [conn EXCEPT ![c] = r]
  <2>1. [conn[c] EXCEPT !.pc = to] = r
    BY <1>1
  <2>2. conn' = [conn EXCEPT ![c] = [conn[c] EXCEPT !.pc = to]]
    BY <1>2
  <2> QED
    BY ONLY <2>1, <2>2
<1>6. /\ r \in [pc : {"closed", "migrate", "script", "open"}, next : 1..Len(Script)]
      /\ r.next = 1
  BY <1>3, ScriptFacts
<1> QED
  BY <1>4, <1>5, <1>6, OutsideScript

\* Connections that go leave their database interrupted, or were not half-way.
LEMMA DropInv ==
    ASSUME SchemaInv, NEW cs \in SUBSET Connections, Drop(cs), UNCHANGED schema
    PROVE  SchemaInv'
<1> USE DEF SchemaInv
<1>1. \A d \in Connections : conn'[d] = IF d \in cs THEN Closed ELSE conn[d]
  BY DEF Drop
<1>2. /\ interrupted \subseteq interrupted'
      /\ \A d \in cs : Halfway(d) => DbOf[d] \in interrupted'
  BY DEF Drop
<1>3. SchemaTypeOK'
  <2>1. Closed \in [pc : {"closed", "migrate", "script", "open"},
                    next : 1..Len(Script)]
    BY ScriptFacts DEF Closed
  <2>2. conn' \in [Connections -> [pc : {"closed", "migrate", "script", "open"},
                                   next : 1..Len(Script)]]
    BY <2>1 DEF Drop, SchemaTypeOK
  <2>3. interrupted' \subseteq Databases
    BY SchemaAssumption DEF Drop, SchemaTypeOK
  <2> QED
    BY <2>2, <2>3 DEF SchemaTypeOK
<1>4. AtStart'
  BY <1>1 DEF AtStart, Closed
<1>5. ScriptBehind'
  <2> SUFFICES ASSUME NEW d \in Connections, conn'[d].pc = "script",
                      NEW i \in 1..(conn'[d].next - 1)
               PROVE  schema[DbOf[d]][Script[i]] > 0
    BY DEF ScriptBehind
  <2>1. conn'[d] = conn[d]
    BY <1>1 DEF Closed
  <2> QED
    BY <2>1 DEF ScriptBehind
<1>6. VersionedIsComplete'
  BY DEF VersionedIsComplete
<1>7. \A d \in Connections : Halfway(d)' <=> Halfway(d) /\ d \notin cs
  BY <1>1 DEF Halfway, Closed
<1>8. Sequential'
  <2> SUFFICES ASSUME NEW db \in Databases \ interrupted'
               PROVE  Settled(db)' \/ \E d \in Connections : AloneHalfway(db, d)'
    BY DEF Sequential
  <2>1. CASE Settled(db)
    BY <1>7, <2>1 DEF Settled
  <2>2. ASSUME NEW d \in Connections, AloneHalfway(db, d)
        PROVE  AloneHalfway(db, d)'
    <3>1. d \notin cs /\ conn'[d] = conn[d]
      BY <1>1, <1>2, <2>2 DEF AloneHalfway
    <3> QED
      BY <1>7, <2>2, <3>1 DEF AloneHalfway
  <2> QED
    BY <1>2, <2>1, <2>2 DEF Sequential
<1> QED
  BY <1>3, <1>4, <1>5, <1>6, <1>8

\* What one statement of the script does to the database and the connection.
LEMMA RunStatementEffect ==
    ASSUME SchemaInv, NEW c \in Connections, RunStatement(c)
    PROVE  \E n \in 1..5 : \E v \in Nat :
             /\ conn[c].pc = "script" /\ conn[c].next = n
             /\ v > 0 /\ v = IF n = 5 THEN schema[DbOf[c]][Script[n]] + 1 ELSE 1
             /\ n < 5 => schema[DbOf[c]][Script[n]] = 0
             /\ schema' \in [Databases -> [Statements -> Nat]]
             /\ schema'[DbOf[c]][Script[n]] = v
             /\ \A s \in Statements :
                   s # Script[n] => schema'[DbOf[c]][s] = schema[DbOf[c]][s]
             /\ \A db \in Databases : db # DbOf[c] => schema'[db] = schema[db]
             /\ conn'[c] = IF n = 5 THEN [pc |-> "open", next |-> 1]
                                    ELSE [pc |-> "script", next |-> n + 1]
             /\ \A d \in Connections : d # c => conn'[d] = conn[d]
             /\ conn' \in [Connections ->
                              [pc : {"closed", "migrate", "script", "open"},
                               next : 1..Len(Script)]]
<1> DEFINE n  == conn[c].next
           db == DbOf[c]
           s  == Script[n]
           v  == IF s = "version" THEN schema[db][s] + 1 ELSE 1
           r  == IF n = 5 THEN [pc |-> "open", next |-> 1]
                          ELSE [pc |-> "script", next |-> n + 1]
<1>1. /\ conn[c].pc = "script" /\ n \in 1..5 /\ db \in Databases
      /\ conn[c] = [pc |-> "script", next |-> n]
  BY ScriptFacts, SchemaAssumption DEF RunStatement, SchemaInv, SchemaTypeOK
<1>2. s \in Statements /\ (s = "version" <=> n = 5)
  BY <1>1, ScriptFacts
<1>3. schema[db][s] \in Nat
  BY <1>1, <1>2 DEF SchemaInv, SchemaTypeOK
<1>4. n < 5 => schema[db][s] = 0
  BY <1>1, <1>2, <1>3 DEF RunStatement, Refused
<1>5. v \in Nat /\ v > 0
  BY <1>3
<1>6. schema' = [schema EXCEPT ![db] = [schema[db] EXCEPT ![s] = v]]
  BY DEF RunStatement
<1>7. /\ schema' \in [Databases -> [Statements -> Nat]]
      /\ schema'[db][s] = v
      /\ \A x \in Statements : x # s => schema'[db][x] = schema[db][x]
      /\ \A e \in Databases : e # db => schema'[e] = schema[e]
  <2> HIDE DEF v, s, db
  <2>1. schema \in [Databases -> [Statements -> Nat]]
    BY DEF SchemaInv, SchemaTypeOK
  <2> QED
    BY <1>1, <1>2, <1>5, <1>6, <2>1
<1>8. conn' = [conn EXCEPT ![c] = r]
  <2>1. CASE n = 5
    <3>1. [Closed EXCEPT !.pc = "open"] = r
      BY <2>1 DEF Closed
    <3>2. conn' = [conn EXCEPT ![c] = [Closed EXCEPT !.pc = "open"]]
      BY <2>1, ScriptFacts DEF RunStatement
    <3> QED
      BY ONLY <3>1, <3>2
  <2>2. CASE n # 5
    <3>1. [conn[c] EXCEPT !.next = n + 1] = r
      BY <1>1, <2>2
    <3>2. conn' = [conn EXCEPT ![c] = [conn[c] EXCEPT !.next = n + 1]]
      BY <2>2, ScriptFacts DEF RunStatement
    <3> QED
      BY ONLY <3>1, <3>2
  <2> QED
    BY <2>1, <2>2
<1>9. r = IF n = 5 THEN [pc |-> "open", next |-> 1]
                   ELSE [pc |-> "script", next |-> n + 1]
  OBVIOUS
<1>10. r \in [pc : {"closed", "migrate", "script", "open"}, next : 1..Len(Script)]
  <2> HIDE DEF n, r
  <2>1. n = 5 \/ n + 1 \in 1..5
    BY <1>1
  <2>2. \A m \in 1..5 :
           /\ [pc |-> "open", next |-> 1]
                 \in [pc : {"closed", "migrate", "script", "open"}, next : 1..5]
           /\ [pc |-> "script", next |-> m]
                 \in [pc : {"closed", "migrate", "script", "open"}, next : 1..5]
    OBVIOUS
  <2> QED
    BY <1>9, <2>1, <2>2, ScriptFacts
<1>11. /\ conn'[c] = r
       /\ \A d \in Connections : d # c => conn'[d] = conn[d]
       /\ conn' \in [Connections ->
                        [pc : {"closed", "migrate", "script", "open"},
                         next : 1..Len(Script)]]
  <2> HIDE DEF r
  <2> QED
    BY <1>8, <1>10 DEF SchemaInv, SchemaTypeOK
<1>12. v = IF n = 5 THEN schema[db][Script[n]] + 1 ELSE 1
  BY <1>2
<1> HIDE DEF v, n, r, db
<1>13. /\ conn[c].pc = "script" /\ conn[c].next = n
       /\ schema'[DbOf[c]][Script[n]] = v
       /\ v = IF n = 5 THEN schema[DbOf[c]][Script[n]] + 1 ELSE 1
       /\ n < 5 => schema[DbOf[c]][Script[n]] = 0
  BY <1>1, <1>4, <1>7, <1>12 DEF db, n
<1>14. conn'[c] = IF n = 5 THEN [pc |-> "open", next |-> 1]
                           ELSE [pc |-> "script", next |-> n + 1]
  BY <1>9, <1>11
<1>15. \A x \in Statements :
          x # Script[n] => schema'[DbOf[c]][x] = schema[DbOf[c]][x]
  BY <1>7 DEF db
<1>16. \A e \in Databases : e # DbOf[c] => schema'[e] = schema[e]
  BY <1>7 DEF db
<1> QED
  BY <1>1, <1>5, <1>7, <1>11, <1>13, <1>14, <1>15, <1>16

LEMMA RunStatementInv ==
    ASSUME SchemaInv, NEW c \in Connections, RunStatement(c) PROVE SchemaInv'
<1>1. interrupted' = interrupted
  BY DEF RunStatement
<1> DEFINE db == DbOf[c]
<1>2. PICK n \in 1..5, v \in Nat :
             /\ conn[c].pc = "script" /\ conn[c].next = n
             /\ v > 0 /\ v = IF n = 5 THEN schema[db][Script[n]] + 1 ELSE 1
             /\ n < 5 => schema[db][Script[n]] = 0
             /\ schema' \in [Databases -> [Statements -> Nat]]
             /\ schema'[db][Script[n]] = v
             /\ \A s \in Statements :
                   s # Script[n] => schema'[db][s] = schema[db][s]
             /\ \A e \in Databases : e # db => schema'[e] = schema[e]
             /\ conn'[c] = IF n = 5 THEN [pc |-> "open", next |-> 1]
                                    ELSE [pc |-> "script", next |-> n + 1]
             /\ \A d \in Connections : d # c => conn'[d] = conn[d]
             /\ conn' \in [Connections ->
                              [pc : {"closed", "migrate", "script", "open"},
                               next : 1..Len(Script)]]
  BY RunStatementEffect
<1>3. db \in Databases /\ \A d \in Connections : DbOf[d] \in Databases
  BY SchemaAssumption
<1> HIDE DEF db
<1>4. \A e \in Databases, s \in Statements :
         schema[e][s] > 0 => schema'[e][s] > 0
  BY <1>2, <1>3, ScriptFacts DEF SchemaInv, SchemaTypeOK
<1>5. SchemaTypeOK'
  BY <1>1, <1>2 DEF SchemaInv, SchemaTypeOK
<1>6. AtStart'
  <2>1. conn'[c].pc # "script" => conn'[c].next = 1
    BY <1>2
  <2>2. \A d \in Connections : conn[d].pc # "script" => conn[d].next = 1
    BY DEF SchemaInv, AtStart
  <2>3. \A d \in Connections : conn'[d].pc # "script" => conn'[d].next = 1
    BY <1>2, <2>1, <2>2
  <2> QED
    BY <2>3 DEF AtStart
<1>7. \A i \in 1..5 : i < n => schema[db][Script[i]] > 0
  <2>1. \A i \in 1..(n - 1) : schema[db][Script[i]] > 0
    BY <1>2 DEF SchemaInv, ScriptBehind, db
  <2>2. \A i \in 1..5 : i < n => i \in 1..(n - 1)
    BY <1>2
  <2> QED
    BY <2>1, <2>2
<1>8. ScriptBehind'
  <2> SUFFICES ASSUME NEW d \in Connections, conn'[d].pc = "script",
                      NEW i \in 1..(conn'[d].next - 1)
               PROVE  schema'[DbOf[d]][Script[i]] > 0
    BY DEF ScriptBehind
  <2>1. CASE d = c
    <3>1. n < 5 /\ i \in 1..n /\ i \in 1..5
      BY <1>2, <2>1
    <3>2. i = n => schema'[db][Script[i]] > 0
      BY <1>2
    <3>3. i < n => schema'[db][Script[i]] > 0
      BY <1>3, <1>4, <1>7, <3>1, ScriptFacts
    <3> QED
      BY <2>1, <3>1, <3>2, <3>3 DEF db
  <2>2. CASE d # c
    <3>1. conn'[d] = conn[d] /\ conn[d].next \in 1..5
      BY <1>2, <2>2, ScriptFacts DEF SchemaInv, SchemaTypeOK
    <3>2. schema[DbOf[d]][Script[i]] > 0 /\ i \in 1..5
      BY <3>1 DEF SchemaInv, ScriptBehind
    <3> QED
      BY <1>3, <1>4, <3>2, ScriptFacts
  <2> QED
    BY <2>1, <2>2
<1>9. VersionedIsComplete'
  <2> SUFFICES ASSUME NEW e \in Databases, schema'[e]["version"] > 0,
                      NEW s \in Statements
               PROVE  schema'[e][s] > 0
    BY DEF VersionedIsComplete
  <2>1. CASE e = db /\ n = 5
    <3>1. PICK i \in 1..5 : s = Script[i]
      BY ScriptFacts
    <3> QED
      BY <1>2, <1>3, <1>4, <1>7, <2>1, <3>1
  <2>2. CASE e # db \/ n # 5
    <3>1. schema'[e]["version"] = schema[e]["version"]
      BY <1>2, <2>2, ScriptFacts
    <3> QED
      BY <1>4, <3>1 DEF SchemaInv, VersionedIsComplete
  <2> QED
    BY <2>1, <2>2
<1>10. \A d \in Connections : d # c => (Halfway(d)' <=> Halfway(d))
  BY <1>2 DEF Halfway
<1>11. Sequential'
  <2> SUFFICES ASSUME NEW e \in Databases \ interrupted
               PROVE  Settled(e)' \/ \E d \in Connections : AloneHalfway(e, d)'
    BY <1>1 DEF Sequential
  <2>1. Settled(e) \/ \E d \in Connections : AloneHalfway(e, d)
    BY DEF SchemaInv, Sequential
  <2>2. CASE e # db
    <3>1. \A d \in Connections : DbOf[d] = e => d # c
      BY <2>2 DEF db
    <3>2. schema'[e] = schema[e]
      BY <1>2, <2>2
    <3>3. Settled(e) => Settled(e)'
      BY <1>10, <3>1, <3>2 DEF Settled
    <3>4. ASSUME NEW d \in Connections, AloneHalfway(e, d)
          PROVE  AloneHalfway(e, d)'
      <4>1. conn'[d] = conn[d]
        BY <1>2, <3>1, <3>4 DEF AloneHalfway
      <4> QED
        BY <1>10, <3>1, <3>2, <3>4, <4>1 DEF AloneHalfway
    <3> QED
      BY <2>1, <3>3, <3>4
  <2>3. CASE e = db /\ Settled(e)
    <3>1. n = 1
      BY <1>2, <2>3 DEF Settled, Halfway, db
    <3>2. \A s \in Statements : schema[db][s] = 0
      BY <1>2, <2>3, <3>1, ScriptFacts DEF Settled
    <3>3. \A i \in 1..5 : schema'[db][Script[i]] = IF i < 2 THEN 1 ELSE 0
      BY <1>2, <3>1, <3>2, ScriptFacts
    <3>4. conn'[c] = [pc |-> "script", next |-> 2]
      BY <1>2, <3>1
    <3>5. Halfway(c)' /\ \A d \in Connections : DbOf[d] = db /\ Halfway(d)' => d = c
      BY <1>10, <2>3, <3>4 DEF Halfway, Settled
    <3> QED
      BY <2>3, <3>3, <3>4, <3>5, ScriptFacts DEF AloneHalfway, db
  <2>4. ASSUME e = db, NEW d \in Connections, AloneHalfway(e, d)
        PROVE  Settled(e)' \/ AloneHalfway(e, d)'
    <3>1. \A i \in 1..5 :
             schema[db][Script[i]] = IF i < conn[d].next THEN 1 ELSE 0
      BY <2>4, ScriptFacts DEF AloneHalfway
    <3>2. conn[d].next > 1 /\ conn[d].pc = "script"
      BY <2>4 DEF AloneHalfway, Halfway
    <3>3. d = c
      <4>1. SUFFICES ASSUME d # c PROVE FALSE
        OBVIOUS
      <4>2. n = 1
        BY <1>2, <2>4, <4>1 DEF AloneHalfway, Halfway, db
      <4>3. schema[db][Script[1]] = 1
        BY <3>1, <3>2
      <4> QED
        BY <1>2, <4>2, <4>3
    <3>4. \A x \in Connections : x # c /\ DbOf[x] = db => ~Halfway(x)'
      BY <1>10, <2>4, <3>3 DEF AloneHalfway
    <3>5. CASE n = 5
      <4>1. \A i \in 1..5 : schema'[db][Script[i]] = 1
        BY <1>2, <3>1, <3>3, <3>5, ScriptFacts
      <4>2. \A s \in Statements : schema'[db][s] = 1
        BY <4>1, ScriptFacts
      <4>3. ~Halfway(c)'
        BY <1>2, <3>5 DEF Halfway
      <4> QED
        BY <2>4, <3>4, <4>2, <4>3 DEF Settled
    <3>6. CASE n < 5
      <4>1. \A i \in 1..5 : schema'[db][Script[i]] = IF i < n + 1 THEN 1 ELSE 0
        BY <1>2, <3>1, <3>3, <3>6, ScriptFacts
      <4>2. conn'[c] = [pc |-> "script", next |-> n + 1] /\ Halfway(c)'
        BY <1>2, <3>6 DEF Halfway
      <4> QED
        BY <2>4, <3>3, <3>4, <4>1, <4>2, ScriptFacts DEF AloneHalfway, db
    <3> QED
      BY <1>2, <3>5, <3>6
  <2> QED
    BY <2>1, <2>2, <2>3, <2>4
<1> QED
  BY <1>5, <1>6, <1>8, <1>9, <1>11 DEF SchemaInv

LEMMA SchemaStutterInv ==
    ASSUME SchemaInv, UNCHANGED schemaVars PROVE SchemaInv'
BY DEF schemaVars, SchemaInv, SchemaTypeOK, AtStart, ScriptBehind,
       VersionedIsComplete, Sequential, Settled, AloneHalfway, Halfway

-----------------------------------------------------------------------------
(* The manager's steps *)

LEMMA ConnsFacts ==
    /\ \A i \in TierNos : TierConns[i] \in Connections
    /\ ManagerConns \subseteq Connections /\ Observers \subseteq Connections
BY LifecycleAssumption DEF TierNos, ManagerConns

\* Whatever the manager and the observers do, the databases stay good.
LEMMA SchemaNextInv ==
    ASSUME SchemaInv, TierTypeOK, [Next]_vars PROVE SchemaInv'
<1>1. CASE UNCHANGED schemaVars
  BY <1>1, SchemaStutterInv
<1>2. CASE OpenMetadata
  <2>1. TierConns[at] \in Connections
    BY ConnsFacts DEF TierTypeOK
  <2>2. \/ Connect(TierConns[at])
        \/ SelectVersion(TierConns[at])
        \/ RunStatement(TierConns[at])
    BY <1>2 DEF OpenMetadata
  <2> QED
    BY <2>1, <2>2, ConnectInv, SelectVersionInv, RunStatementInv
<1>3. ASSUME NEW c \in Observers, Observe(c) PROVE SchemaInv'
  <2>1. c \in Connections
    BY ConnsFacts
  <2>2. CASE Connect(c) \/ SelectVersion(c) \/ RunStatement(c)
    BY <2>1, <2>2, ConnectInv, SelectVersionInv, RunStatementInv
  <2>3. CASE OpenRaises(c) \/ CloseConnection(c)
    <3>1. Drop({c}) /\ UNCHANGED schema /\ {c} \in SUBSET Connections
      BY <2>1, <2>3 DEF OpenRaises, CloseConnection
    <3> QED
      BY <3>1, DropInv
  <2> QED
    BY <1>3, <2>2, <2>3 DEF Observe
<1>4. CASE OpenFails \/ Crash
  <2>1. Drop(ManagerConns) /\ UNCHANGED schema /\ ManagerConns \in SUBSET Connections
    BY <1>4, ConnsFacts DEF OpenFails, Crash
  <2> QED
    BY <2>1, DropInv
<1>5. CASE SaveFinish
  <2>1. at \in {1, 2} /\ CloseOrder[at] = at
    BY DEF TierTypeOK, TierNos, CloseOrder
  <2>2. {TierConns[CloseOrder[at]]} \in SUBSET Connections
    BY <2>1, ConnsFacts DEF TierNos
  <2>3. \E cs \in SUBSET Connections : Drop(cs)
    BY <1>5, <2>2, ConnsFacts DEF SaveFinish
  <2>4. UNCHANGED schema
    BY <1>5 DEF SaveFinish
  <2> QED
    BY <2>3, <2>4, DropInv
<1> QED
  <2>1. \/ Open \/ OpenMetadata \/ LoadIndex \/ OpenFails
        \/ \E i \in TierNos, id \in Ids : Put(i, id) \/ Remove(i, id)
        \/ Close \/ SaveStart \/ SaveFinish \/ CloseRaises \/ Crash
        \/ \E c \in Observers : Observe(c)
        \/ UNCHANGED vars
    BY DEF Next
  <2>2. Open \/ LoadIndex \/ Close \/ SaveStart \/ CloseRaises => UNCHANGED schemaVars
    BY DEF Open, LoadIndex, Close, SaveStart, CloseRaises
  <2>3. \A i \in TierNos, id \in Ids : Put(i, id) \/ Remove(i, id) => UNCHANGED schemaVars
    BY DEF Put, Remove
  <2>4. UNCHANGED vars => UNCHANGED schemaVars
    BY DEF vars
  <2> QED
    BY <1>1, <1>2, <1>3, <1>4, <1>5, <2>1, <2>2, <2>3, <2>4

\* Whatever happens between two complete closes, nothing goes missing.
LEMMA TierNextInv ==
    ASSUME TierInv, [Next]_vars PROVE TierInv'
<1> USE DEF TierInv, TierNos
<1>1. CASE Open
  BY <1>1 DEF Open, TierTypeOK, NothingMissing, OnDisk
<1>2. CASE UNCHANGED tierVars
  BY <1>2 DEF tierVars, TierTypeOK, NothingMissing, OnDisk
<1>3. CASE LoadIndex
  <2>1. TierTypeOK'
    BY <1>3 DEF LoadIndex, TierTypeOK
  <2>2. intact => \A i \in TierNos : image[i].ids = rows[i]
    BY <1>3 DEF LoadIndex, NothingMissing, OnDisk, File
  <2>3. index'[at] = image[at].ids /\ \A i \in TierNos : i # at => index'[i] = index[i]
    BY <1>3 DEF LoadIndex, TierTypeOK
  <2>4. intact => \A i \in TierNos : i < at + 1 => index'[i] = rows[i]
    BY <1>3, <2>2, <2>3 DEF NothingMissing, LoadIndex, TierTypeOK
  <2>5. intact => \A i \in TierNos : OnDisk(i)
    BY <1>3 DEF LoadIndex, NothingMissing
  <2>6. rows' = rows /\ image' = image /\ intact' = intact
    BY <1>3 DEF LoadIndex
  <2>7. CASE at = 1
    <3>1. pc' = "opening" /\ at' = 2
      BY <1>3, <2>7 DEF LoadIndex
    <3>2. NothingMissing'
      BY <2>4, <2>5, <2>6, <2>7, <3>1 DEF NothingMissing, OnDisk
    <3> QED
      BY <2>1, <3>2
  <2>8. CASE at = 2
    <3>1. pc' = "up" /\ at' = 1
      BY <1>3, <2>8 DEF LoadIndex
    <3>2. intact => \A i \in TierNos : index'[i] = rows[i]
      BY <2>4, <2>8
    <3>3. NothingMissing'
      BY <2>6, <3>1, <3>2 DEF NothingMissing
    <3> QED
      BY <2>1, <3>3
  <2> QED
    BY <2>1, <2>7, <2>8 DEF TierTypeOK
<1>4. CASE OpenFails
  BY <1>4 DEF OpenFails, TierTypeOK, NothingMissing, OnDisk
<1>5. ASSUME NEW i \in TierNos, NEW id \in Ids, Put(i, id) PROVE TierInv'
  BY <1>5 DEF Put, TierTypeOK, NothingMissing, OnDisk
<1>6. ASSUME NEW i \in TierNos, NEW id \in Ids, Remove(i, id) PROVE TierInv'
  BY <1>6 DEF Remove, TierTypeOK, NothingMissing, OnDisk
<1>7. CASE Close
  BY <1>7 DEF Close, TierTypeOK, NothingMissing, OnDisk
<1>8. at \in {1, 2} /\ CloseOrder[at] = at /\ Len(CloseOrder) = 2
  BY DEF TierTypeOK, CloseOrder
<1>9. CASE SaveStart
  <2>1. image' = [image EXCEPT ![at] = Torn]
    BY <1>8, <1>9 DEF SaveStart
  <2>2. TierTypeOK'
    <3>1. Torn \in [torn : BOOLEAN, ids : SUBSET Ids]
      BY DEF Torn
    <3>2. image' \in [TierNos -> [torn : BOOLEAN, ids : SUBSET Ids]]
      BY <2>1, <3>1 DEF TierTypeOK
    <3> QED
      BY <1>9, <3>2 DEF SaveStart, TierTypeOK
  <2>3. \A i \in TierNos : i < at => image'[i] = image[i]
    BY <2>1 DEF TierTypeOK
  <2>4. NothingMissing'
    BY <1>9, <2>3 DEF SaveStart, NothingMissing, OnDisk
  <2> QED
    BY <2>2, <2>4
<1>10. CASE SaveFinish
  <2>1. image' = [image EXCEPT ![at] = File(index[at])]
    BY <1>8, <1>10 DEF SaveFinish
  <2>2. /\ image'[at] = File(index[at])
        /\ \A i \in TierNos : i # at => image'[i] = image[i]
    BY <1>8, <2>1 DEF TierTypeOK
  <2>3. image' \in [TierNos -> [torn : BOOLEAN, ids : SUBSET Ids]]
    <3>1. File(index[at]) \in [torn : BOOLEAN, ids : SUBSET Ids]
      BY <1>8 DEF File, TierTypeOK
    <3> QED
      BY <2>1, <3>1 DEF TierTypeOK
  <2>4. rows' = rows /\ index' = index /\ intact' = intact
    BY <1>10 DEF SaveFinish
  <2>5. \/ at = 1 /\ at' = 2 /\ pc' = "closing"
        \/ at = 2 /\ at' = 1 /\ pc' = "down"
    BY <1>8, <1>10 DEF SaveFinish
  <2>6. TierTypeOK'
    BY <2>3, <2>4, <2>5 DEF TierTypeOK
  <2>7. intact => \A i \in TierNos : index[i] = rows[i]
    BY <1>10 DEF SaveFinish, NothingMissing
  <2>8. intact => \A i \in TierNos : i < at => image[i] = File(rows[i])
    BY <1>10 DEF SaveFinish, NothingMissing, OnDisk
  <2>9. intact => \A i \in TierNos : i <= at => image'[i] = File(rows[i])
    BY <1>8, <2>2, <2>7, <2>8
  <2> QED
    BY <2>4, <2>5, <2>6, <2>7, <2>9 DEF NothingMissing, OnDisk
<1>11. CASE CloseRaises
  BY <1>11 DEF CloseRaises, TierTypeOK, NothingMissing, OnDisk
<1>12. CASE Crash
  BY <1>12 DEF Crash, TierTypeOK, NothingMissing, OnDisk
<1> QED
  <2>1. OpenMetadata \/ (\E c \in Observers : Observe(c)) \/ UNCHANGED vars
           => UNCHANGED tierVars
    BY DEF OpenMetadata, Observe, vars
  <2> QED
    BY <1>1, <1>2, <1>3, <1>4, <1>5, <1>6, <1>7, <1>9, <1>10, <1>11, <1>12,
       <2>1 DEF Next

LEMMA TierInitInv == Init => TierInv
BY DEF Init, TierInv, TierTypeOK, NothingMissing, OnDisk, TierNos, File

\* The two invariants together are inductive.
THEOREM LifecycleInvariant == Spec => [](SchemaInv /\ TierInv)
<1>1. Init => SchemaInv /\ TierInv
  BY SchemaInitInv, TierInitInv DEF Init
<1>2. SchemaInv /\ TierInv /\ [Next]_vars => (SchemaInv /\ TierInv)'
  BY SchemaNextInv, TierNextInv DEF TierInv
<1> QED
  BY <1>1, <1>2, PTL DEF Spec

-----------------------------------------------------------------------------
(* The theorems *)

\* A database that has a version has everything the script creates, whoever
\* else was opening it and wherever a migration was interrupted: the early
\* return of _migrate() is safe.
THEOREM VersionedDatabasesAreComplete == Spec => []VersionedIsComplete
BY LifecycleInvariant, PTL DEF SchemaInv

\* A migration that is not interrupted is applied exactly once, by however many
\* connections the database is opened.
THEOREM MigrationHappensOnce == Spec => []MigratedOnce
<1>1. SchemaInv => MigratedOnce
  BY DEF SchemaInv, Sequential, Settled, AloneHalfway, MigratedOnce
<1> QED
  BY <1>1, LifecycleInvariant, PTL

\* A manager opened after completed closes finds a vector for every row and a
\* row for every vector in both tiers, also when a close() had raised half-way
\* and was called again.
THEOREM ReopeningFindsAll == Spec => []ReopenFindsAll
<1>1. TierInv => ReopenFindsAll
  <2> SUFFICES ASSUME TierInv, pc = "up", intact PROVE index = rows
    BY DEF ReopenFindsAll
  <2>1. \A i \in TierNos : index[i] = rows[i]
    BY DEF TierInv, NothingMissing
  <2> QED
    BY <2>1 DEF TierInv, TierTypeOK
<1> QED
  BY <1>1, LifecycleInvariant, PTL
=============================================================================
