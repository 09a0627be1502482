---------------------------- MODULE ConfigProofs ---------------------------
(* Theorems about Config, for all values of the settings and any number of edits. *)
EXTENDS Config, TLAPS

\* Until Main reads config.txt again it has forked all parsers, each with the same number of
\* them and as many as that number says; the database process has this number too.
ShardInv ==
    /\ TypeOK
    /\ mpc \in {"load", "forkDb"} => parsers = <<>>
    /\ mpc = "forkParsers" =>
         /\ db["parserProcessCount"] = main["parserProcessCount"]
         /\ Len(parsers) <= main["parserProcessCount"]
         /\ \A i \in DOMAIN parsers : parsers[i]["parserProcessCount"] = main["parserProcessCount"]
    /\ Looping =>
         /\ db["parserProcessCount"] = Len(parsers)
         /\ \A i \in DOMAIN parsers : parsers[i]["parserProcessCount"] = Len(parsers)

LEMMA ShardInit == Init => ShardInv
<1> SUFFICES ASSUME Init PROVE ShardInv
  OBVIOUS
<1>1. text \in [Key -> Value \cup {0, Missing}] /\ saved \in [Key -> Value \cup {Missing}]
  BY ConfigAssumption DEF Init
<1>2. main \in Settings /\ db \in Settings /\ parsers \in Seq(Settings)
  BY DEF Init, Settings
<1>3. edits \in 0 .. MaxEdits /\ failures \in 0 .. MaxFailures
  BY ConfigAssumption DEF Init
<1> QED
  BY <1>1, <1>2, <1>3 DEF Init, ShardInv, TypeOK, Looping

\* What load leaves in the copy of a process is again a copy of the settings.
LEMMA LoadType == ASSUME TypeOK PROVE load(main) \in Settings
<1>1. ASSUME NEW k \in Key
      PROVE  (IF text[k] = Missing THEN main[k] ELSE text[k]) \in Value \cup {0}
  <2>1. text[k] \in Value \cup {0, Missing} /\ main[k] \in Value \cup {0}
    BY <1>1 DEF TypeOK, Settings
  <2> QED
    BY <2>1
<1> QED
  BY <1>1 DEF load, Settings

LEMMA ShardStep == ShardInv /\ [Next]_vars => ShardInv'
<1> SUFFICES ASSUME ShardInv, [Next]_vars PROVE ShardInv'
  OBVIOUS
<1>a. Value \cup {0} \subseteq Nat /\ MaxEdits \in Nat /\ MaxFailures \in Nat
  BY ConfigAssumption
<1>0. /\ main \in Settings /\ db \in Settings /\ parsers \in Seq(Settings)
      /\ edits \in Nat /\ failures \in Nat /\ archives \in Nat
      /\ main["parserProcessCount"] \in Nat
  <2>1. main \in Settings /\ "parserProcessCount" \in Key
    BY DEF ShardInv, TypeOK, Key, Order
  <2>2. main["parserProcessCount"] \in Value \cup {0}
    BY <2>1 DEF Settings
  <2>3. main["parserProcessCount"] \in Nat
    BY <1>a, <2>2, Zenon
  <2>4. edits \in Nat /\ failures \in Nat /\ archives \in Nat
    BY <1>a DEF ShardInv, TypeOK
  <2> QED
    BY <2>3, <2>4 DEF ShardInv, TypeOK
<1>1. load(main) \in Settings
  BY LoadType DEF ShardInv
<1>2. ASSUME NEW k \in Key, Save(k) PROVE ShardInv'
  <2>1. saved' \in [Key -> Value \cup {Missing}]
    BY <1>2 DEF Save, ShardInv, TypeOK
  <2>2. text' \in [Key -> Value \cup {0, Missing}]
    <3>1. PICK n \in DOMAIN Order, torn \in {0, Missing} :
            text' = [key \in Key |->
                       CASE \E i \in 1 .. n - 1 : key = Order[i] -> saved'[key]
                         [] key = Order[n] -> torn
                         [] OTHER -> Missing]
      BY <1>2 DEF Save
    <3>2. \A key \in Key : saved'[key] \in Value \cup {0, Missing}
      BY <2>1
    <3> QED
      BY <3>1, <3>2
  <2>3. edits' \in 0 .. MaxEdits
    BY <1>0, <1>a, <1>2 DEF Save
  <2>4. UNCHANGED <<main, db, parsers, mpc, archives, failures>>
    BY <1>2 DEF Save, copies
  <2> QED
    BY <2>1, <2>2, <2>3, <2>4 DEF ShardInv, TypeOK, Looping
<1>3. CASE SaveEnds
  <2>1. text' \in [Key -> Value \cup {0, Missing}]
    BY <1>3 DEF SaveEnds, ShardInv, TypeOK
  <2> QED
    BY <1>3, <2>1 DEF SaveEnds, copies, ShardInv, TypeOK, Looping
<1>4. CASE FirstLoad
  BY <1>1, <1>4 DEF FirstLoad, file, ShardInv, TypeOK, Looping
<1>5. CASE ForkDb
  BY <1>0, <1>5 DEF ForkDb, file, ShardInv, TypeOK, Looping
<1>6. CASE ForkParser
  <2>1. parsers' = Append(parsers, main) /\ Len(parsers) < main["parserProcessCount"]
    BY <1>6 DEF ForkParser, Forked
  <2>2. parsers' \in Seq(Settings) /\ Len(parsers') <= main["parserProcessCount"]
    BY <1>0, <2>1
  <2>3. \A i \in DOMAIN parsers' : \/ i \in DOMAIN parsers /\ parsers'[i] = parsers[i]
                                   \/ parsers'[i] = main
    BY <1>0, <2>1
  <2> QED
    BY <1>6, <2>2, <2>3 DEF ForkParser, file, ShardInv, TypeOK, Looping
<1>7. CASE EnterLoop
  <2>1. Len(parsers) = main["parserProcessCount"]
    BY <1>0, <1>7 DEF EnterLoop, ShardInv
  <2> QED
    BY <1>7, <2>1 DEF EnterLoop, file, copies, ShardInv, TypeOK, Looping
<1>8. CASE ReloadInLoop
  BY <1>1, <1>8 DEF ReloadInLoop, Reload, file, ShardInv, TypeOK, Looping
<1>9. CASE Download
  <2>1. failures' \in 0 .. MaxFailures /\ archives' \in Nat
    BY <1>0, <1>a, <1>9 DEF Download, ShardInv, TypeOK
  <2> QED
    BY <1>9, <2>1 DEF Download, file, copies, ShardInv, TypeOK, Looping
<1>10. CASE Unpack
  <2>1. archives' \in Nat
    BY <1>0, <1>10 DEF Unpack
  <2> QED
    BY <1>10, <2>1 DEF Unpack, file, copies, ShardInv, TypeOK, Looping
<1>11. CASE UNCHANGED vars
  BY <1>11 DEF vars, file, copies, ShardInv, TypeOK, Looping
<1> QED
  BY <1>2, <1>3, <1>4, <1>5, <1>6, <1>7, <1>8, <1>9, <1>10, <1>11 DEF Next, MainStep

\* However config.txt is saved, and at whatever moment Main reads it, every csv file belongs to
\* exactly one of the parser processes, or, if Main read a parserProcessCount of 0 at first, to
\* none.
THEOREM ConfigShards == Spec => []Shards
<1>1. ShardInv => Shards
  <2> SUFFICES ASSUME ShardInv, Looping, NEW second \in 0 .. 59
               PROVE  (\E i \in DOMAIN parsers :
                           \A j \in DOMAIN parsers : Takes(j, second) <=> j = i)
                          <=> db["parserProcessCount"] > 0
    BY DEF Shards
  <2> DEFINE n == Len(parsers)
             i == (second % n) + 1
  <2>1. n \in Nat /\ DOMAIN parsers = 1 .. n /\ db["parserProcessCount"] = n
    BY DEF ShardInv, TypeOK
  <2>2. \A j \in 1 .. n : parsers[j]["parserProcessCount"] = n
    BY <2>1 DEF ShardInv
  <2> HIDE DEF n
  <2>3. CASE n = 0
    BY <2>1, <2>3
  <2>4. CASE n > 0
    <3>1. i \in 1 .. n
      BY <2>1, <2>4
    <3>2. \A j \in 1 .. n : second % n = j - 1 <=> j = i
      BY <2>1, <2>4
    <3>3. \A j \in DOMAIN parsers : Takes(j, second) <=> j = i
      BY <2>1, <2>2, <2>4, <3>2 DEF Takes
    <3>4. i \in DOMAIN parsers
      BY <2>1, <3>1
    <3> HIDE DEF i
    <3>5. \E k \in DOMAIN parsers : \A j \in DOMAIN parsers : Takes(j, second) <=> j = k
      BY <3>3, <3>4, Zenon
    <3>6. db["parserProcessCount"] > 0
      BY <2>1, <2>4
    <3> QED
      BY <3>5, <3>6, Zenon
  <2> QED
    BY <2>1, <2>3, <2>4
<1> QED
  BY <1>1, ShardInit, ShardStep, PTL DEF Spec
=============================================================================
