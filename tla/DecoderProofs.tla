--------------------------- MODULE DecoderProofs ---------------------------
(* Proofs about Decoder for every batch and every content of the files. *)
EXTENDS Decoder, TLAPS

Candidates == Seq(DecoderCandidate)

\* What is stored in a short is one.
LEMMA ShortType == \A n \in Int : Short(n) \in ShortInt
BY DEF Short, ShortInt

\* A tag that fits the index is not cut.
LEMMA ShortKeeps == \A n \in 0 .. MAX_TAGS_PRO_IMAGE - 1 : Short(n) = n
BY DEF Short, MAX_TAGS_PRO_IMAGE

\* A line that is kept has numbers.
LEMMA KeptFields ==
    ASSUME NEW l \in Line, Kept(l)
    PROVE  /\ l.tag \in Int /\ l.cand \in Int /\ l.grid \in Int
           /\ l.x \in Int /\ l.y \in Int
<1>1. l.kind = "candidate"
  BY DEF Kept
<1>2. l \notin [kind : {"short", "throws"}]
  BY <1>1
<1>3. l \in [kind : {"candidate"}, tag : Int, cand : Int, grid : Int, x : Int, y : Int]
  BY <1>2 DEF Line
<1> QED
  BY <1>3

\* The entry of a tag is a detection that may lack its candidate.
LEMMA EntryRecord ==
    ASSUME TypeOK, NEW l \in Line, Kept(l), file_num \in Files
    PROVE  Entry(l) \in [id : SUBSET (0 .. 63), timestamp : Date, x : ShortInt, y : ShortInt,
                         candidate : Candidates]
<1> DEFINE name == fileNames[file_num]
<1>1. name \in Name
  BY DecoderAssumption DEF TypeOK, Files
<1>2. name.timestamp \in Date /\ Short(l.x) \in ShortInt /\ Short(l.y) \in ShortInt
  <2>1. l.x \in Int /\ l.y \in Int
    BY KeptFields
  <2> QED
    BY <1>1, <2>1, ShortType DEF Name
<1>3. CASE Index(file_num, Short(l.tag)) \in DOMAIN data
  BY <1>3 DEF TypeOK, Entry, Candidates, Detection
<1>4. CASE Index(file_num, Short(l.tag)) \notin DOMAIN data
  <2>1. Id(name, l, isdst) \in SUBSET (0 .. 63)
    BY DEF Id
  <2>2. <<>> \in Candidates
    BY DEF Candidates
  <2> QED
    BY <1>4, <2>1, <2>2, <1>2 DEF Entry
<1> QED
  BY <1>3, <1>4

LEMMA CandidateType ==
    ASSUME NEW l \in Line, Kept(l)
    PROVE  Candidate(l) \in DecoderCandidate
<1>1. l.x \in Int /\ l.y \in Int
  BY KeptFields
<1>2. Short(l.x) \in ShortInt /\ Short(l.y) \in ShortInt
  BY <1>1, ShortType
<1> QED
  BY <1>2 DEF Candidate, CandidateId, DecoderCandidate

LEMMA AppendAny ==
    ASSUME NEW S, NEW q \in Seq(S), NEW d \in S
    PROVE  /\ Append(q, d) \in Seq(S) \ {<<>>}
           /\ \A k \in DOMAIN Append(q, d) :
                  (k \in DOMAIN q /\ Append(q, d)[k] = q[k]) \/ Append(q, d)[k] = d
  OBVIOUS

LEMMA ReplaceFields ==
    ASSUME NEW S, NEW d \in [id : SUBSET (0 .. 63), timestamp : Date, x : ShortInt, y : ShortInt, candidate : S],
           NEW s \in Date, NEW T, NEW c \in T
    PROVE  LET n == [d EXCEPT !.timestamp = s, !.candidate = c] IN
           /\ n \in [id : SUBSET (0 .. 63), timestamp : Date, x : ShortInt, y : ShortInt, candidate : T]
           /\ n.timestamp = s /\ n.candidate = c /\ n.id = d.id /\ n.x = d.x /\ n.y = d.y
  OBVIOUS

\* The detection that KeepLine stores.
LEMMA Stored ==
    ASSUME TypeOK, NEW l \in Line, KeepLine(l), Kept(l), file_num \in Files
    PROVE  LET j == Index(file_num, Short(l.tag))
               c == Append(Entry(l).candidate, Candidate(l)) IN
           /\ \A k \in DOMAIN c : \/ k \in DOMAIN Entry(l).candidate /\ c[k] = Entry(l).candidate[k]
                                \/ c[k] = Candidate(l)
           /\ DOMAIN data' = DOMAIN data \cup {j}
           /\ data'[j] \in Detection
           /\ data'[j].timestamp = fileNames[file_num].timestamp
           /\ data'[j].candidate = c
           /\ data'[j].id = Entry(l).id /\ data'[j].x = Entry(l).x /\ data'[j].y = Entry(l).y
           /\ \A i \in DOMAIN data \ {j} : data'[i] = data[i]
<1> DEFINE j == Index(file_num, Short(l.tag))
           old == Entry(l).candidate
           c == Append(old, Candidate(l))
           s == fileNames[file_num].timestamp
           n == [Entry(l) EXCEPT !.timestamp = s, !.candidate = c]
           Cand == DecoderCandidate
<1>1. /\ Entry(l) \in [id : SUBSET (0 .. 63), timestamp : Date, x : ShortInt, y : ShortInt, candidate : Seq(Cand)]
      /\ old \in Seq(Cand)
  BY EntryRecord DEF Candidates
<1>2. Candidate(l) \in Cand
  BY CandidateType
<1> HIDE DEF Cand
<1>3. /\ c \in Seq(Cand) \ {<<>>}
      /\ \A k \in DOMAIN c : \/ k \in DOMAIN old /\ c[k] = old[k]
                           \/ c[k] = Candidate(l)
  <2> HIDE DEF old
  <2> QED
    BY <1>1, <1>2, AppendAny
<1>4. s \in Date
  <2>1. fileNames[file_num] \in Name
    BY DecoderAssumption DEF TypeOK, Files
  <2> QED
    BY <2>1 DEF Name
<1>5. /\ n \in Detection /\ n.timestamp = s /\ n.candidate = c
      /\ n.id = Entry(l).id /\ n.x = Entry(l).x /\ n.y = Entry(l).y
  <2> HIDE DEF c, s
  <2>1. LET m == [Entry(l) EXCEPT !.timestamp = s, !.candidate = c] IN
        /\ m \in [id : SUBSET (0 .. 63), timestamp : Date, x : ShortInt, y : ShortInt, candidate : Seq(Cand) \ {<<>>}]
        /\ m.timestamp = s /\ m.candidate = c /\ m.id = Entry(l).id
        /\ m.x = Entry(l).x /\ m.y = Entry(l).y
    BY <1>1, <1>3, <1>4, ReplaceFields
  <2> QED
    BY <2>1 DEF Detection, Cand
<1>6. data' = [i \in DOMAIN data \cup {j} |-> IF i = j THEN n ELSE data[i]]
  BY DEF KeepLine, Set
<1> HIDE DEF n, c
<1>7. /\ DOMAIN data' = DOMAIN data \cup {j} /\ data'[j] = n
      /\ \A i \in DOMAIN data \ {j} : data'[i] = data[i]
  BY <1>6
<1> QED
  BY <1>3, <1>5, <1>7 DEF c

\* Every detection always has a key of 64 bits, a picture's time, a place in the picture and at
\* least one candidate.
THEOREM DecoderTypeOK == Spec => []TypeOK
<1>1. Init => TypeOK
  <2> SUFFICES ASSUME Init PROVE TypeOK
    OBVIOUS
  <2>1. fileNames \in Seq(Name) /\ file_num \in 1 .. Len(fileNames) + 1
    BY DecoderAssumption DEF Init
  <2>2. lines \in [Files -> Seq(Line)]
    BY DEF Init
  <2>3. DOMAIN data = {}
    BY DEF Init
  <2> QED
    BY <2>1, <2>2, <2>3 DEF Init, TypeOK
<1>2. TypeOK /\ [Next]_vars => TypeOK'
  <2> SUFFICES ASSUME TypeOK, [Next]_vars PROVE TypeOK'
    OBVIOUS
  <2>0. fileNames \in Seq(Name) /\ Files = 1 .. Len(fileNames) /\ Len(fileNames) \in Nat
    BY DecoderAssumption DEF TypeOK, Files
  <2>1. ASSUME NEW l \in Lines, Read(l)
        PROVE  /\ fileNames' \in Batches /\ file_num' \in 1 .. Len(fileNames') + 1
               /\ lines' \in [Files' -> Seq(Line)]
    BY <2>1, DecoderAssumption DEF Read, TypeOK, Files
  <2>2. ASSUME NEW l \in Lines, SkipLine(l) \/ Throw(l) PROVE TypeOK'
    <3>1. /\ Read(l) /\ UNCHANGED data /\ isdst' = isdst
          /\ changed' = changed /\ (dead' = dead \/ dead' = TRUE)
      BY <2>2 DEF SkipLine, Throw, Read
    <3>2. dead' \in BOOLEAN /\ changed' \in BOOLEAN
      BY <3>1, Zenon DEF TypeOK
    <3> QED
      BY <2>1, <3>1, <3>2 DEF TypeOK
  <2>3. ASSUME NEW l \in Lines, KeepLine(l) PROVE TypeOK'
    <3>1. l \in Line /\ Kept(l) /\ file_num \in Files
      BY <2>3, DecoderAssumption DEF KeepLine, Read
    <3>2. \A i \in DOMAIN data' : data'[i] \in Detection
      BY <2>3, <3>1, Stored DEF TypeOK
    <3>3. dead' \in BOOLEAN /\ changed' \in BOOLEAN /\ isdst' = isdst
      BY <2>3, Zenon DEF KeepLine, Read, TypeOK
    <3> QED
      BY <2>1, <2>3, <3>2, <3>3 DEF KeepLine, TypeOK
  <2>4. ASSUME NextFile PROVE TypeOK'
    BY <2>0, <2>4 DEF NextFile, TypeOK, Files
  <2>5. ASSUME ClockChanges PROVE TypeOK'
    BY <2>5 DEF ClockChanges, TypeOK, Files
  <2>6. ASSUME UNCHANGED vars PROVE TypeOK'
    BY <2>6 DEF vars, TypeOK, Files
  <2> QED
    BY <2>2, <2>3, <2>4, <2>5, <2>6 DEF Next
<1> QED
  BY <1>1, <1>2, PTL DEF Spec

-----------------------------------------------------------------------------

\* The index of a tag tells the file and the tag apart, if the tag is less than the factor.
LEMMA IndexSplits ==
    ASSUME NEW f \in Nat, NEW tag \in Nat, tag < MAX_TAGS_PRO_IMAGE
    PROVE  /\ Index(f, tag) \div MAX_TAGS_PRO_IMAGE = f
           /\ Index(f, tag) % MAX_TAGS_PRO_IMAGE = tag
  BY DEF Index, MAX_TAGS_PRO_IMAGE

\* The lines of a file are only added to.
LEMMA LinesGrow ==
    ASSUME TypeOK, NEW l \in Lines, Read(l)
    PROVE  /\ Files' = Files
           /\ \A f \in Files : \A n \in DOMAIN lines[f] :
                  n \in DOMAIN lines'[f] /\ lines'[f][n] = lines[f][n]
           /\ file_num \in Files
           /\ \E n \in DOMAIN lines'[file_num] : lines'[file_num][n] = l
<1>1. Files' = Files /\ file_num \in Files /\ l \in Line
  BY DecoderAssumption DEF Read, Files
<1>2. lines[file_num] \in Seq(Line)
  BY <1>1 DEF TypeOK
<1>3. lines'[file_num] = Append(lines[file_num], l)
  BY <1>1 DEF Read, TypeOK
<1>4. \A f \in Files \ {file_num} : lines'[f] = lines[f]
  BY DEF Read, TypeOK
<1>5. /\ Len(lines[file_num]) + 1 \in DOMAIN lines'[file_num]
      /\ lines'[file_num][Len(lines[file_num]) + 1] = l
  BY <1>1, <1>2, <1>3
<1>6. \A n \in DOMAIN lines[file_num] :
          n \in DOMAIN lines'[file_num] /\ lines'[file_num][n] = lines[file_num][n]
  BY <1>1, <1>2, <1>3
<1> QED
  BY <1>1, <1>4, <1>5, <1>6

LEMMA FewTagsBefore ==
    ASSUME TypeOK, NEW l \in Lines, Read(l), FewTags'
    PROVE  /\ FewTags
           /\ Kept(l) => /\ l.tag \in Nat /\ l.tag < MAX_TAGS_PRO_IMAGE
                         /\ Short(l.tag) = l.tag
<1>1. FewTags
  BY LinesGrow DEF FewTags
<1>2. Kept(l) => l.tag \in 0 .. MAX_TAGS_PRO_IMAGE - 1
  BY LinesGrow DEF FewTags
<1>3. \A n \in 0 .. MAX_TAGS_PRO_IMAGE - 1 : n \in Nat /\ n < MAX_TAGS_PRO_IMAGE
  BY DEF MAX_TAGS_PRO_IMAGE
<1> QED
  BY <1>1, <1>2, <1>3, ShortKeeps

-----------------------------------------------------------------------------

\* The number that the next line of the file gets.
Last == Len(lines[file_num]) + 1

\* What a line adds to the numbers of the lines that are kept.
LEMMA LineAdded ==
    ASSUME TypeOK, NEW l \in Lines, Read(l)
    PROVE  /\ Files' = Files /\ fileNames' = fileNames /\ file_num \in Files
           /\ \A f \in Files : DOMAIN lines[f] \subseteq Nat
           /\ Last \in Nat /\ \A n \in DOMAIN lines[file_num] : n < Last
           /\ lines'[file_num][Last] = l
           /\ \A f \in Files : \A n \in DOMAIN lines[f] : lines'[f][n] = lines[f][n]
           /\ \A f \in Files : KeptAt(f)' = KeptAt(f) \cup {n \in {Last} : f = file_num /\ Kept(l)}
           /\ \A f \in Files : TagsOf(f)' = TagsOf(f) \cup {t \in {l.tag} : f = file_num /\ Kept(l)}
           /\ \A f \in Files : \A tag :
                  LinesOf(f, tag)' = LinesOf(f, tag)
                      \cup {n \in {Last} : f = file_num /\ Kept(l) /\ l.tag = tag}
<1>1. Files' = Files /\ fileNames' = fileNames /\ file_num \in Files /\ l \in Line
  BY DecoderAssumption DEF Read, Files
<1>2. \A f \in Files : lines[f] \in Seq(Line) /\ DOMAIN lines[f] \subseteq Nat
  <2> SUFFICES ASSUME NEW f \in Files PROVE lines[f] \in Seq(Line) /\ DOMAIN lines[f] \subseteq Nat
    OBVIOUS
  <2>1. lines[f] \in Seq(Line)
    BY DEF TypeOK
  <2> QED
    BY <2>1
<1>3. lines'[file_num] = Append(lines[file_num], l)
  BY <1>1 DEF Read, TypeOK
<1>4. \A f \in Files \ {file_num} : lines'[f] = lines[f]
  BY DEF Read, TypeOK
<1>5. /\ DOMAIN lines'[file_num] = DOMAIN lines[file_num] \cup {Last}
      /\ lines'[file_num][Last] = l /\ Last \in Nat
      /\ \A n \in DOMAIN lines[file_num] : n < Last /\ lines'[file_num][n] = lines[file_num][n]
  BY <1>1, <1>2, <1>3 DEF Last
<1>6. \A f \in Files : \A n \in DOMAIN lines[f] : lines'[f][n] = lines[f][n]
  BY <1>4, <1>5
<1>7. \A f \in Files : DOMAIN lines'[f] = DOMAIN lines[f] \cup {n \in {Last} : f = file_num}
  BY <1>4, <1>5
<1>8. \A f \in Files : KeptAt(f)' = KeptAt(f) \cup {n \in {Last} : f = file_num /\ Kept(l)}
  BY <1>5, <1>6, <1>7 DEF KeptAt
<1>9. \A f \in Files : \A tag :
          LinesOf(f, tag)' = LinesOf(f, tag)
              \cup {n \in {Last} : f = file_num /\ Kept(l) /\ l.tag = tag}
  BY <1>5, <1>6, <1>8 DEF LinesOf, KeptAt
<1>10. \A f \in Files : TagsOf(f)' = TagsOf(f) \cup {t \in {l.tag} : f = file_num /\ Kept(l)}
  <2> SUFFICES ASSUME NEW f \in Files
               PROVE  TagsOf(f)' = TagsOf(f) \cup {t \in {l.tag} : f = file_num /\ Kept(l)}
    OBVIOUS
  <2>1. \A n \in KeptAt(f) : lines'[f][n] = lines[f][n]
    BY <1>6 DEF KeptAt
  <2> QED
    BY <1>5, <1>8, <2>1 DEF TagsOf
<1> QED
  BY <1>1, <1>2, <1>5, <1>6, <1>8, <1>9, <1>10

\* A detection stands for the same lines wherever they are.
LEMMA StandsStill ==
    ASSUME NEW d \in Detection, NEW ls, NEW ks, NEW own,
           StandsFor(d, ls, own), \A n \in own : ks[n] = ls[n]
    PROVE  StandsFor(d, ks, own)
<1>1. 1 \in DOMAIN d.candidate
  BY DEF Detection
<1> QED
  BY <1>1 DEF StandsFor

LEMMA AppendAdds ==
    ASSUME NEW S, NEW q \in Seq(S) \ {<<>>}, NEW d \in S
    PROVE  LET c == Append(q, d)
               end == Len(q) + 1 IN
           /\ DOMAIN c = DOMAIN q \cup {end} /\ end \notin DOMAIN q
           /\ \A k \in DOMAIN q : k < end /\ c[k] = q[k]
           /\ c[end] = d /\ 1 \in DOMAIN q
           /\ DOMAIN c \subseteq Nat /\ end \in Nat
  OBVIOUS

\* A further candidate for a line behind the others.
LEMMA StandsLonger ==
    ASSUME NEW S, NEW candidates \in Seq(S) \ {<<>>}, NEW d, NEW ls, NEW own \in SUBSET Nat,
           d.candidate = candidates, StandsFor(d, ls, own),
           NEW ks, \A n \in own : ks[n] = ls[n],
           NEW last \in Nat, \A n \in own : n < last, Candidate(ks[last]) \in S,
           NEW e, e.candidate = Append(candidates, Candidate(ks[last])), e.x = d.x, e.y = d.y
    PROVE  StandsFor(e, ks, own \cup {last})
<1>1. PICK nth \in [DOMAIN candidates -> own] :
          /\ \A k, m \in DOMAIN nth : k < m => nth[k] < nth[m]
          /\ \A n \in own : \E k \in DOMAIN nth : nth[k] = n
          /\ \A k \in DOMAIN nth : candidates[k] = Candidate(ls[nth[k]])
          /\ d.x = Short(ls[nth[1]].x) /\ d.y = Short(ls[nth[1]].y)
  BY DEF StandsFor
<1> DEFINE c == Append(candidates, Candidate(ks[last]))
           end == Len(candidates) + 1
           nth2 == [k \in DOMAIN c |-> IF k = end THEN last ELSE nth[k]]
<1>2. /\ DOMAIN c = DOMAIN candidates \cup {end} /\ end \notin DOMAIN candidates
      /\ \A k \in DOMAIN candidates : k < end /\ c[k] = candidates[k]
      /\ c[end] = Candidate(ks[last]) /\ 1 \in DOMAIN candidates
      /\ DOMAIN c \subseteq Nat /\ end \in Nat
  BY AppendAdds
<1> HIDE DEF c, end
<1>3. /\ nth2 \in [DOMAIN c -> own \cup {last}] /\ DOMAIN nth2 = DOMAIN c /\ nth2[end] = last
      /\ \A k \in DOMAIN candidates : nth2[k] = nth[k]
  BY <1>1, <1>2
<1> HIDE DEF nth2
<1>4. \A k, m \in DOMAIN nth2 : k < m => nth2[k] < nth2[m]
  <2> SUFFICES ASSUME NEW k \in DOMAIN c, NEW m \in DOMAIN c, k < m PROVE nth2[k] < nth2[m]
    BY <1>3
  <2>1. k \in DOMAIN candidates
    BY <1>2
  <2>2. nth2[k] = nth[k] /\ nth[k] \in own /\ nth2[k] \in Nat
    BY <1>1, <1>3, <2>1
  <2>3. CASE m = end
    BY <1>3, <2>2, <2>3
  <2>4. CASE m \in DOMAIN candidates
    <3>1. nth2[m] = nth[m] /\ m \in DOMAIN nth /\ k \in DOMAIN nth
      BY <1>1, <1>3, <2>1, <2>4
    <3> QED
      BY <1>1, <2>2, <3>1
  <2> QED
    BY <1>2, <1>3, <2>3, <2>4
<1>5. \A n \in own \cup {last} : \E k \in DOMAIN nth2 : nth2[k] = n
  <2>1. \A n \in own : \E k \in DOMAIN candidates : nth2[k] = n
    BY <1>1, <1>3
  <2> QED
    BY <1>2, <1>3, <2>1
<1>6. \A k \in DOMAIN candidates : nth2[k] = nth[k] /\ nth[k] \in own /\ ks[nth2[k]] = ls[nth[k]]
  BY <1>1, <1>3
<1>7. \A k \in DOMAIN nth2 : c[k] = Candidate(ks[nth2[k]])
  <2> SUFFICES ASSUME NEW k \in DOMAIN c PROVE c[k] = Candidate(ks[nth2[k]])
    BY <1>3
  <2>1. CASE k = end
    BY <1>2, <1>3, <2>1
  <2>2. CASE k \in DOMAIN candidates
    BY <1>1, <1>2, <1>6, <2>2
  <2> QED
    BY <1>2, <2>1, <2>2
<1>8. e.x = Short(ks[nth2[1]].x) /\ e.y = Short(ks[nth2[1]].y)
  BY <1>1, <1>2, <1>6
<1>9. DOMAIN e.candidate = DOMAIN c /\ \A k \in DOMAIN c : e.candidate[k] = c[k]
  BY DEF c
<1>10. nth2 \in [DOMAIN e.candidate -> own \cup {last}]
  BY <1>3, <1>9
<1>11. \A k \in DOMAIN nth2 : e.candidate[k] = Candidate(ks[nth2[k]])
  BY <1>3, <1>7, <1>9
<1> QED
  BY <1>4, <1>5, <1>8, <1>10, <1>11 DEF StandsFor

\* A first candidate.
LEMMA StandsFirst ==
    ASSUME NEW ks, NEW last, NEW e, e.candidate = <<Candidate(ks[last])>>,
           e.x = Short(ks[last].x), e.y = Short(ks[last].y)
    PROVE  StandsFor(e, ks, {last})
<1> DEFINE nth == [k \in {1} |-> last]
<1>1. nth \in [{1} -> {last}] /\ DOMAIN e.candidate = {1} /\ e.candidate[1] = Candidate(ks[last])
  OBVIOUS
<1>2. /\ \A k, m \in DOMAIN nth : k < m => nth[k] < nth[m]
      /\ \A n \in {last} : \E k \in DOMAIN nth : nth[k] = n
  OBVIOUS
<1>3. \A k \in DOMAIN nth : e.candidate[k] = Candidate(ks[nth[k]])
  BY <1>1
<1> HIDE DEF nth
<1>4. nth[1] = last
  BY DEF nth
<1> QED
  BY <1>1, <1>2, <1>3, <1>4 DEF StandsFor

\* A tag of a picture fits the index and has a line.
LEMMA TagFits ==
    ASSUME TypeOK, FewTags, NEW f \in Files, NEW tag \in TagsOf(f)
    PROVE  f \in Nat /\ tag \in Nat /\ tag < MAX_TAGS_PRO_IMAGE /\ LinesOf(f, tag) # {}
<1>1. PICK n \in KeptAt(f) : tag = lines[f][n].tag
  BY DEF TagsOf
<1>2. lines[f] \in Seq(Line) /\ n \in DOMAIN lines[f] /\ Kept(lines[f][n])
  BY DEF TypeOK, KeptAt
<1>3. f \in Nat
  BY DecoderAssumption DEF TypeOK, Files
<1>4. tag \in 0 .. MAX_TAGS_PRO_IMAGE - 1
  BY <1>1, <1>2 DEF FewTags
<1>5. \A k \in 0 .. MAX_TAGS_PRO_IMAGE - 1 : k \in Nat /\ k < MAX_TAGS_PRO_IMAGE
  BY DEF MAX_TAGS_PRO_IMAGE
<1> QED
  BY <1>1, <1>3, <1>4, <1>5 DEF LinesOf

\* The index of a tag is taken if and only if the picture has the tag.
LEMMA TakenIndex ==
    ASSUME TypeOK, FewTags, Grouped, NEW f \in Files, NEW tag \in Nat, tag < MAX_TAGS_PRO_IMAGE
    PROVE  Index(f, tag) \in DOMAIN data <=> tag \in TagsOf(f)
<1>1. f \in Nat
  BY DecoderAssumption DEF TypeOK, Files
<1>2. ASSUME Index(f, tag) \in DOMAIN data PROVE tag \in TagsOf(f)
  <2>1. PICK g \in Files : \E t \in TagsOf(g) : Index(g, t) = Index(f, tag)
    BY <1>2 DEF Grouped
  <2>2. PICK t \in TagsOf(g) : Index(g, t) = Index(f, tag)
    BY <2>1
  <2>3. g = f /\ t = tag
    BY <1>1, <2>2, TagFits, IndexSplits
  <2> QED
    BY <2>2, <2>3
<1>3. ASSUME tag \in TagsOf(f) PROVE Index(f, tag) \in DOMAIN data
  BY <1>3 DEF Grouped
<1> QED
  BY <1>2, <1>3

\* The group of a tag that the line is not of stays as it is.
LEMMA GroupStays ==
    ASSUME TypeOK, FewTags, Grouped, NEW l \in Lines, Read(l), NEW f \in Files, NEW tag \in TagsOf(f),
           ~(f = file_num /\ Kept(l) /\ l.tag = tag)
    PROVE  LET d == data[Index(f, tag)] IN
           /\ d.timestamp = fileNames'[f].timestamp
           /\ StandsFor(d, lines'[f], LinesOf(f, tag)')
<1> DEFINE d == data[Index(f, tag)]
<1>1. d.timestamp = fileNames[f].timestamp /\ StandsFor(d, lines[f], LinesOf(f, tag))
  BY DEF Grouped
<1>2. d \in Detection
  BY TagFits, TakenIndex DEF TypeOK
<1>3. /\ LinesOf(f, tag)' = LinesOf(f, tag) /\ fileNames' = fileNames
      /\ \A n \in LinesOf(f, tag) : lines'[f][n] = lines[f][n]
  BY LineAdded DEF LinesOf, KeptAt
<1> QED
  BY <1>1, <1>2, <1>3, StandsStill

\* A line that is not kept changes no group.
LEMMA SkipKeepsGroups ==
    ASSUME TypeOK, Grouped, NEW l \in Lines, Read(l), ~Kept(l), UNCHANGED data
    PROVE  Grouped'
<1> SUFFICES ASSUME FewTags'
             PROVE  /\ DOMAIN data = UNION {{Index(f, tag) : tag \in TagsOf(f)'} : f \in Files'}
                    /\ \A f \in Files' : \A tag \in TagsOf(f)' :
                           LET d == data[Index(f, tag)] IN
                           /\ d.timestamp = fileNames'[f].timestamp
                           /\ StandsFor(d, lines'[f], LinesOf(f, tag)')
  BY DEF Grouped
<1>1. FewTags
  BY FewTagsBefore
<1>2. Files' = Files /\ \A f \in Files : TagsOf(f)' = TagsOf(f)
  BY LineAdded
<1>3. DOMAIN data = UNION {{Index(f, tag) : tag \in TagsOf(f)'} : f \in Files'}
  BY <1>1, <1>2 DEF Grouped
<1> QED
  BY <1>1, <1>2, <1>3, GroupStays

\* A line that is kept begins a group, or is added to that of its picture and tag.
LEMMA KeepKeepsGroups ==
    ASSUME TypeOK, Grouped, NEW l \in Lines, KeepLine(l)
    PROVE  Grouped'
<1>1. Read(l) /\ Kept(l) /\ l \in Line
  BY DecoderAssumption DEF KeepLine
<1>2. PICK f0 \in Files : f0 = file_num
  BY <1>1, LineAdded
<1> DEFINE j == Index(f0, l.tag)
           own == LinesOf(f0, l.tag)
           S == DecoderCandidate
<1> SUFFICES ASSUME FewTags'
             PROVE  /\ DOMAIN data' = UNION {{Index(f, tag) : tag \in TagsOf(f)'} : f \in Files'}
                    /\ \A f \in Files' : \A tag \in TagsOf(f)' :
                           LET d == data'[Index(f, tag)] IN
                           /\ d.timestamp = fileNames'[f].timestamp
                           /\ StandsFor(d, lines'[f], LinesOf(f, tag)')
  BY DEF Grouped
<1>3. /\ FewTags /\ l.tag \in Nat /\ l.tag < MAX_TAGS_PRO_IMAGE /\ f0 \in Nat
      /\ Short(l.tag) = l.tag
  <2>1. f0 \in Nat
    BY DecoderAssumption DEF TypeOK, Files
  <2> QED
    BY <1>1, <2>1, FewTagsBefore
<1>4. /\ Files' = Files /\ fileNames' = fileNames
      /\ \A f \in Files : TagsOf(f)' = TagsOf(f) \cup {t \in {l.tag} : f = f0}
      /\ LinesOf(f0, l.tag)' = own \cup {Last}
      /\ lines'[f0][Last] = l /\ Last \in Nat
      /\ \A f \in Files : DOMAIN lines[f] \subseteq Nat
      /\ \A n \in DOMAIN lines[f0] : n < Last /\ lines'[f0][n] = lines[f0][n]
  BY <1>1, <1>2, LineAdded
<1>5. own \in SUBSET Nat /\ \A n \in own : n < Last /\ lines'[f0][n] = lines[f0][n]
  BY <1>4 DEF LinesOf, KeptAt
<1>6. /\ DOMAIN data' = DOMAIN data \cup {j} /\ data'[j] \in Detection
      /\ data'[j].timestamp = fileNames[f0].timestamp
      /\ data'[j].candidate = Append(Entry(l).candidate, Candidate(l))
      /\ data'[j].x = Entry(l).x /\ data'[j].y = Entry(l).y
      /\ \A i \in DOMAIN data \ {j} : data'[i] = data[i]
  BY <1>1, <1>2, <1>3, Stored
<1>7. DOMAIN data' = UNION {{Index(f, tag) : tag \in TagsOf(f)'} : f \in Files'}
  <2>1. DOMAIN data = UNION {{Index(f, tag) : tag \in TagsOf(f)} : f \in Files}
    BY <1>3 DEF Grouped
  <2> QED
    BY <1>4, <1>6, <2>1
<1>8. StandsFor(data'[j], lines'[f0], own \cup {Last})
  <2>1. CASE j \in DOMAIN data
    <3>1. l.tag \in TagsOf(f0)
      BY <1>3, <2>1, TakenIndex
    <3>2. StandsFor(data[j], lines[f0], own)
      BY <1>3, <3>1 DEF Grouped
    <3>3. Entry(l) = data[j] /\ data[j] \in Detection
      BY <1>2, <1>3, <2>1 DEF Entry, TypeOK
    <3>4. data[j].candidate \in Seq(S) \ {<<>>}
      BY <3>3 DEF Detection
    <3>5. Candidate(l) \in S
      BY <1>1, CandidateType
    <3>6. /\ data'[j].candidate = Append(data[j].candidate, Candidate(lines'[f0][Last]))
          /\ data'[j].x = data[j].x /\ data'[j].y = data[j].y
          /\ Candidate(lines'[f0][Last]) \in S
      BY <1>4, <1>6, <3>3, <3>5
    <3>7. \A n \in own : n < Last
      BY <1>5
    <3>8. \A n \in own : lines'[f0][n] = lines[f0][n]
      BY <1>5
    <3>9. own \in SUBSET Nat /\ Last \in Nat
      BY <1>4, <1>5
    <3> HIDE DEF S, own, j
    <3> QED
      BY <3>2, <3>4, <3>6, <3>7, <3>8, <3>9, StandsLonger, Zenon
  <2>2. CASE j \notin DOMAIN data
    <3>1. l.tag \notin TagsOf(f0)
      BY <1>3, <2>2, TakenIndex
    <3>2. own = {}
      BY <3>1 DEF LinesOf, TagsOf
    <3>3. Entry(l).candidate = <<>> /\ Entry(l).x = Short(l.x) /\ Entry(l).y = Short(l.y)
      BY <1>2, <1>3, <2>2 DEF Entry
    <3>4. Append(<<>>, Candidate(l)) = <<Candidate(l)>>
      OBVIOUS
    <3>5. /\ data'[j].candidate = <<Candidate(lines'[f0][Last])>>
          /\ data'[j].x = Short(lines'[f0][Last].x) /\ data'[j].y = Short(lines'[f0][Last].y)
      BY <1>4, <1>6, <3>3, <3>4
    <3>6. StandsFor(data'[j], lines'[f0], {Last})
      BY <3>5, StandsFirst
    <3> QED
      BY <3>2, <3>6
  <2> QED
    BY <2>1, <2>2
<1>9. ASSUME NEW f \in Files, NEW tag \in TagsOf(f)', ~(f = f0 /\ tag = l.tag)
      PROVE  LET d == data'[Index(f, tag)] IN
             /\ d.timestamp = fileNames'[f].timestamp
             /\ StandsFor(d, lines'[f], LinesOf(f, tag)')
  <2>1. tag \in TagsOf(f) /\ ~(f = file_num /\ Kept(l) /\ l.tag = tag)
    BY <1>2, <1>4, <1>9
  <2>2. Index(f, tag) \in DOMAIN data /\ Index(f, tag) # j
    BY <1>3, <1>9, <2>1, TagFits, TakenIndex, IndexSplits
  <2> QED
    BY <1>1, <1>3, <1>6, <2>1, <2>2, GroupStays
<1>10. ASSUME NEW f \in Files, NEW tag \in TagsOf(f)', f = f0, tag = l.tag
       PROVE  LET d == data'[Index(f, tag)] IN
              /\ d.timestamp = fileNames'[f].timestamp
              /\ StandsFor(d, lines'[f], LinesOf(f, tag)')
  <2>1. LinesOf(f, tag)' = own \cup {Last}
    BY <1>4, <1>10
  <2> QED
    BY <1>4, <1>6, <1>8, <1>10, <2>1
<1> QED
  BY <1>4, <1>7, <1>9, <1>10

\* Every detection stands for the lines of its picture and tag, one candidate for each, in their
\* order, and every line that is kept has a candidate, as long as no picture has more tags than
\* there are indices for.
THEOREM DecoderGrouped == Spec => []Grouped
<1>1. Init => Grouped
  <2> SUFFICES ASSUME Init PROVE Grouped
    OBVIOUS
  <2>1. DOMAIN data = {}
    BY DEF Init
  <2>2. \A f \in Files : TagsOf(f) = {}
    BY DEF Init, TagsOf, KeptAt
  <2> QED
    BY <2>1, <2>2 DEF Grouped
<1>2. TypeOK /\ Grouped /\ [Next]_vars => Grouped'
  <2> SUFFICES ASSUME TypeOK, Grouped, [Next]_vars PROVE Grouped'
    OBVIOUS
  <2>1. ASSUME NEW l \in Lines, SkipLine(l) \/ Throw(l) PROVE Grouped'
    <3>1. Read(l) /\ ~Kept(l) /\ UNCHANGED data
      BY <2>1 DEF SkipLine, Throw, Kept
    <3> QED
      BY <3>1, SkipKeepsGroups
  <2>2. ASSUME NEW l \in Lines, KeepLine(l) PROVE Grouped'
    BY <2>2, KeepKeepsGroups
  <2>3. ASSUME NextFile \/ ClockChanges \/ UNCHANGED vars PROVE Grouped'
    <3>1. UNCHANGED <<fileNames, lines, data>>
      BY <2>3 DEF NextFile, ClockChanges, vars
    <3>2. /\ Files' = Files /\ FewTags' = FewTags
          /\ \A f : TagsOf(f)' = TagsOf(f)
          /\ \A f, tag : LinesOf(f, tag)' = LinesOf(f, tag)
      BY <3>1 DEF Files, FewTags, TagsOf, LinesOf, KeptAt
    <3> QED
      BY <3>1, <3>2 DEF Grouped
  <2> QED
    BY <2>1, <2>2, <2>3 DEF Next
<1> QED
  BY <1>1, <1>2, DecoderTypeOK, PTL DEF Spec
=============================================================================
