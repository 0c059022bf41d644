---------------------------- MODULE UnlockProofs ----------------------------
(***************************************************************************)
(* Theorems about the retry log and the delays of the unlock secret, for   *)
(* any size of the log, any table of delays and any number of faults,      *)
(* restarts and firmware updates.                                          *)
(***************************************************************************)
EXTENDS Unlock, FiniteSetTheorems, TLAPS
USE LogAssumption
USE DEF flashVars, taskVars, wipeVars, guessVars, bounds, Return, PerformLimitResponse

Logs == [1 .. LogSize -> Word]

-----------------------------------------------------------------------------
(* The log (lib/indexfs) *)
\* Entries is the length of the prefix of entries, defined as a cardinality.
LEMMA EntriesUnique ==
    ASSUME NEW l, NEW n \in 0 .. LogSize,
           \A i \in 1 .. n : l[i].kind = "entry",
           n < LogSize => l[n + 1].kind # "entry"
    PROVE  Entries(l) = n
<1>1. \A k \in 1 .. LogSize : (\A i \in 1 .. k : l[i].kind = "entry") <=> k \in 1 .. n
  <2>1. TAKE k \in 1 .. LogSize
  <2>2. CASE k <= n
    BY <2>2
  <2>3. CASE k > n
    <3>1. n + 1 \in 1 .. k /\ n < LogSize
      BY <2>3
    <3> QED BY <2>3, <3>1
  <2> QED BY <2>2, <2>3
<1>2. {k \in 1 .. LogSize : \A i \in 1 .. k : l[i].kind = "entry"} = 1 .. n
  BY <1>1
<1>3. Cardinality(1 .. n) = n
  BY FS_Interval
<1> QED BY <1>2, <1>3 DEF Entries

LEMMA EntriesIs ==
    ASSUME NEW l
    PROVE  /\ Entries(l) \in 0 .. LogSize
           /\ \A i \in 1 .. Entries(l) : l[i].kind = "entry"
           /\ Entries(l) < LogSize => l[Entries(l) + 1].kind # "entry"
<1> DEFINE T == {k \in 0 .. LogSize : k < LogSize => l[k + 1].kind # "entry"}
<1>1. T \subseteq Nat /\ T # {}
  <2>1. LogSize \in T
    OBVIOUS
  <2> QED BY <2>1
<1>2. PICK n \in T : \A k \in T : ~ (<<k, n>> \in OpToRel(<, Nat))
  <2> HIDE DEF T
  <2> QED BY <1>1, WFMin, NatLessThanWellFounded
<1>3. \A k \in T : ~ (k < n)
  BY <1>1, <1>2 DEF OpToRel
<1>4. \A i \in 1 .. n : l[i].kind = "entry"
  <2>1. TAKE i \in 1 .. n
  <2>2. i - 1 \in 0 .. LogSize /\ i - 1 < n /\ i - 1 < LogSize /\ (i - 1) + 1 = i
    OBVIOUS
  <2> QED BY <1>3, <2>2
<1>5. Entries(l) = n
  BY <1>4, EntriesUnique
<1> QED BY <1>4, <1>5

\* A count is the sum of its bits.
LEMMA BitRange ==
    ASSUME NEW x \in 0 .. 15
    PROVE  /\ \A w \in {1, 2, 4, 8} : Bit(x, w) \in {0, 1}
           /\ x = Bit(x, 1) + 2 * Bit(x, 2) + 4 * Bit(x, 4) + 8 * Bit(x, 8)
<1>1. x \in {0, 1, 2, 3, 4, 5, 6, 7, 8, 9, 10, 11, 12, 13, 14, 15}
  OBVIOUS
<1>2. /\ (x \div 1) % 2 \in {0, 1} /\ (x \div 2) % 2 \in {0, 1}
      /\ (x \div 4) % 2 \in {0, 1} /\ (x \div 8) % 2 \in {0, 1}
  OBVIOUS
<1>3. x = ((x \div 1) % 2) + 2 * ((x \div 2) % 2) + 4 * ((x \div 4) % 2)
          + 8 * ((x \div 8) % 2)
  BY <1>1
<1> QED BY <1>2, <1>3 DEF Bit

LEMMA BitAndType ==
    ASSUME NEW x \in 0 .. 15, NEW y \in 0 .. 15
    PROVE  BitAnd(x, y) \in 0 .. x
<1>1. \A a, b \in {0, 1} :
         /\ a * b \in 0 .. a /\ 2 * a * b \in 0 .. 2 * a
         /\ 4 * a * b \in 0 .. 4 * a /\ 8 * a * b \in 0 .. 8 * a
  OBVIOUS
<1>2. /\ Bit(x, 1) \in {0, 1} /\ Bit(x, 2) \in {0, 1} /\ Bit(x, 4) \in {0, 1} /\ Bit(x, 8) \in {0, 1}
      /\ Bit(y, 1) \in {0, 1} /\ Bit(y, 2) \in {0, 1} /\ Bit(y, 4) \in {0, 1} /\ Bit(y, 8) \in {0, 1}
      /\ x = Bit(x, 1) + 2 * Bit(x, 2) + 4 * Bit(x, 4) + 8 * Bit(x, 8)
  BY BitRange
<1> DEFINE p1 == Bit(x, 1) * Bit(y, 1)
           p2 == 2 * Bit(x, 2) * Bit(y, 2)
           p4 == 4 * Bit(x, 4) * Bit(y, 4)
           p8 == 8 * Bit(x, 8) * Bit(y, 8)
<1>3. /\ p1 \in 0 .. Bit(x, 1) /\ p2 \in 0 .. 2 * Bit(x, 2)
      /\ p4 \in 0 .. 4 * Bit(x, 4) /\ p8 \in 0 .. 8 * Bit(x, 8)
  BY <1>1, <1>2
<1>4. BitAnd(x, y) = p1 + p2 + p4 + p8
  BY DEF BitAnd
<1> HIDE DEF p1, p2, p4, p8
<1> QED BY <1>2, <1>3, <1>4

\* What a programmed word is.
LEMMA ProgramType ==
    ASSUME NEW w \in Word, NEW e \in Word
    PROVE  /\ Program(w, e) \in Word
           /\ w.kind = "erased" => Program(w, e) = e
           /\ w.kind = "image" => Program(w, e) = w
           /\ w.kind = "entry" =>
                /\ Program(w, e).kind = "entry"
                /\ Program(w, e).clear = (w.clear \/ e.clear)
                /\ Program(w, e).done = (w.done \/ e.done)
<1>0. w.count \in 0 .. MaxCount /\ e.count \in 0 .. MaxCount
  BY DEF Word
<1>1. w.count \in 0 .. 15 /\ e.count \in 0 .. 15 /\ w.count <= MaxCount
  BY <1>0
<1>2. BitAnd(w.count, e.count) \in 0 .. MaxCount
  BY <1>1, BitAndType
<1>3. w.kind \in {"erased", "entry", "image"}
  BY DEF Word
<1>4. w.kind = "entry" =>
         Program(w, e) = Entry(BitAnd(w.count, e.count), w.clear \/ e.clear, w.done \/ e.done)
  BY DEF Program
<1>5. (w.clear \/ e.clear) \in BOOLEAN /\ (w.done \/ e.done) \in BOOLEAN
  OBVIOUS
<1>6. w.kind = "entry" => Program(w, e) \in Word
  BY <1>2, <1>4, <1>5 DEF Entry, Word
<1>7. w.kind = "erased" => Program(w, e) = e
  BY DEF Program
<1>8. w.kind = "image" => Program(w, e) = w
  BY DEF Program
<1>9. w.kind = "entry" =>
                /\ Program(w, e).kind = "entry"
                /\ Program(w, e).clear = (w.clear \/ e.clear)
                /\ Program(w, e).done = (w.done \/ e.done)
  BY <1>4 DEF Entry
<1> QED BY <1>3, <1>6, <1>7, <1>8, <1>9

LEMMA AppendType ==
    ASSUME NEW l \in Logs, NEW k \in 0 .. LogSize - 1, NEW e \in Word
    PROVE  /\ Append(l, k, e) \in Logs
           /\ Append(l, k, e)[k + 1] = Program(l[k + 1], e)
           /\ \A i \in 1 .. LogSize : i # k + 1 => Append(l, k, e)[i] = l[i]
<1>1. k + 1 \in 1 .. LogSize
  OBVIOUS
<1>2. Program(l[k + 1], e) \in Word
  BY <1>1, ProgramType DEF Logs
<1> QED BY <1>1, <1>2 DEF Append, Logs

\* The three kinds of entries that are appended.
LEMMA EntriesAre ==
    /\ \A c \in 0 .. MaxCount - 1 : IncrementEntry(c) \in Word /\ IncrementEntry(c).kind = "entry"
    /\ \A c \in 0 .. MaxCount : FlagEntry(c) \in Word /\ FlagEntry(c).kind = "entry"
    /\ ClearEntry \in Word /\ ClearEntry.kind = "entry"
BY DEF IncrementEntry, FlagEntry, ClearEntry, Entry, Word

\* No entry follows a word that is none.
Gapless(l) == \A i \in 1 .. LogSize : l[i].kind = "entry" => i <= Entries(l)
Last(l) == l[Entries(l)]

LEMMA LastType ==
    ASSUME NEW l \in Logs
    PROVE  Entries(l) > 0 => Last(l) \in Word
BY EntriesIs DEF Last, Logs

\* The three reads of the log, by its last entry.
LEMMA CountIs ==
    ASSUME NEW l \in Logs
    PROVE  /\ Count(l) \in 0 .. MaxCount
           /\ Count(l) > 0 => Entries(l) > 0 /\ ~Last(l).clear
           /\ Entries(l) > 0 => Count(l) = IF Last(l).clear THEN 0 ELSE Last(l).count
<1>1. Entries(l) \in 0 .. LogSize
  BY EntriesIs
<1>2. CASE Entries(l) = 0
  BY <1>2 DEF Count
<1>3. CASE Entries(l) > 0
  BY <1>1, <1>3, LastType DEF Count, Last, Word
<1> QED BY <1>1, <1>2, <1>3

LEMMA CurrentIndexIs ==
    ASSUME NEW l
    PROVE  /\ CurrentIndex(l) \in 0 .. LogSize - 1 /\ CurrentIndex(l) <= Entries(l)
           /\ CurrentIndex(l) < Entries(l) => CurrentIndex(l) = 0 /\ Entries(l) = LogSize
           /\ Entries(l) = LogSize => CurrentIndex(l) = 0
BY EntriesIs DEF CurrentIndex

LEMMA GetFlagIs ==
    ASSUME NEW l \in Logs
    PROVE  /\ Entries(l) \in {0, LogSize} => GetFlag(l)
           /\ Entries(l) \notin {0, LogSize} => GetFlag(l) = Last(l).done
           /\ GetFlag(l) \in BOOLEAN
<1>1. Entries(l) \in 0 .. LogSize
  BY EntriesIs
<1>2. CASE Entries(l) \in {0, LogSize}
  <2>1. CurrentIndex(l) = 0
    BY <1>2 DEF CurrentIndex
  <2>2. GetFlag(l) = TRUE
    BY <2>1 DEF GetFlag
  <2> QED BY <1>2, <2>2
<1>3. CASE Entries(l) \notin {0, LogSize}
  <2>1. CurrentIndex(l) = Entries(l) /\ ~(CurrentIndex(l) < 1)
    BY <1>1, <1>3 DEF CurrentIndex
  <2>2. Last(l).done \in BOOLEAN
    BY <1>1, <1>3, LastType DEF Word
  <2> QED BY <1>3, <2>1, <2>2 DEF GetFlag, Last
<1> QED BY <1>2, <1>3

\* Appending where the index is or was.
LEMMA AppendFacts ==
    ASSUME NEW l \in Logs, Gapless(l), NEW k \in 0 .. LogSize - 1, k <= Entries(l),
           NEW e \in Word, e.kind = "entry",
           NEW m, m = Append(l, k, e)
    PROVE  /\ m \in Logs /\ Gapless(m)
           /\ \/ /\ k = Entries(l) /\ Entries(m) = k + 1 /\ Last(m) = e
              \/ /\ m = l
              \/ /\ k < Entries(l) /\ Entries(m) = Entries(l)
                 /\ Last(m) = IF k + 1 = Entries(l) THEN Program(Last(l), e) ELSE Last(l)
                 /\ Last(l).kind = "entry" /\ Last(l) \in Word
<1>1. /\ m \in Logs /\ m[k + 1] = Program(l[k + 1], e)
      /\ \A i \in 1 .. LogSize : i # k + 1 => m[i] = l[i]
  BY AppendType
<1>2. /\ Entries(l) \in 0 .. LogSize
      /\ \A i \in 1 .. Entries(l) : l[i].kind = "entry"
      /\ Entries(l) < LogSize => l[Entries(l) + 1].kind # "entry"
  BY EntriesIs
<1>3. k + 1 \in 1 .. LogSize /\ l[k + 1] \in Word
  BY DEF Logs
<1>4. CASE k < Entries(l)
  <2>1. l[k + 1].kind = "entry" /\ m[k + 1].kind = "entry"
    BY <1>1, <1>2, <1>3, <1>4, ProgramType
  <2>2. \A i \in 1 .. LogSize : m[i].kind = "entry" <=> l[i].kind = "entry"
    BY <1>1, <2>1
  <2>3. Entries(m) = Entries(l)
    <3>1. \A i \in 1 .. Entries(l) : m[i].kind = "entry"
      BY <1>2, <2>2
    <3>2. Entries(l) < LogSize => m[Entries(l) + 1].kind # "entry"
      BY <1>2, <2>2
    <3> QED BY <1>2, <3>1, <3>2, EntriesUnique
  <2>4. Gapless(m)
    BY <2>2, <2>3 DEF Gapless
  <2>5. Last(m) = IF k + 1 = Entries(l) THEN Program(Last(l), e) ELSE Last(l)
    BY <1>1, <1>2, <1>4, <2>3 DEF Last
  <2>6. Last(l).kind = "entry" /\ Last(l) \in Word
    BY <1>2, <1>4, LastType DEF Last
  <2> QED BY <1>1, <1>4, <2>3, <2>4, <2>5, <2>6
<1>5. CASE k = Entries(l) /\ l[k + 1].kind = "erased"
  <2>1. m[k + 1] = e
    BY <1>1, <1>3, <1>5, ProgramType
  <2>2. Entries(m) = k + 1
    <3>1. \A i \in 1 .. k + 1 : m[i].kind = "entry"
      BY <1>1, <1>2, <1>5, <2>1
    <3>2. ASSUME k + 1 < LogSize PROVE m[k + 2].kind # "entry"
      <4>1. k + 2 \in 1 .. LogSize /\ k + 2 # k + 1 /\ ~(k + 2 <= Entries(l))
        BY <1>5, <3>2
      <4>2. l[k + 2].kind # "entry"
        BY <4>1 DEF Gapless
      <4> QED BY <1>1, <4>1, <4>2
    <3> DEFINE n == k + 1
    <3>3. n \in 0 .. LogSize /\ n + 1 = k + 2
      OBVIOUS
    <3>4. (\A i \in 1 .. n : m[i].kind = "entry") /\ (n < LogSize => m[n + 1].kind # "entry")
      BY <3>1, <3>2, <3>3
    <3> HIDE DEF n
    <3>5. Entries(m) = n
      BY <3>3, <3>4, EntriesUnique
    <3> QED BY <3>5 DEF n
  <2>3. Gapless(m)
    <3>1. \A i \in 1 .. LogSize : m[i].kind = "entry" => i <= k + 1
      BY <1>1, <1>5 DEF Gapless
    <3> QED BY <2>2, <3>1 DEF Gapless
  <2> QED BY <1>1, <1>5, <2>1, <2>2, <2>3 DEF Last
<1>6. CASE k = Entries(l) /\ l[k + 1].kind = "image"
  <2>1. m = l
    <3>1. \A i \in 1 .. LogSize : m[i] = l[i]
      BY <1>1, <1>3, <1>6, ProgramType
    <3> QED BY <1>1, <3>1 DEF Logs
  <2> QED BY <1>1, <2>1
<1>7. k = Entries(l) => l[k + 1].kind \in {"erased", "image"}
  BY <1>2, <1>3 DEF Word
<1> QED BY <1>2, <1>4, <1>5, <1>6, <1>7

\* A clear sets the count to 0 or leaves every read as it was: in the middle of
\* the log, over an image, or over the first word of a full log.
LEMMA ClearAppended ==
    ASSUME NEW l \in Logs, Gapless(l), NEW k \in 0 .. LogSize - 1, k <= Entries(l),
           NEW m, m = Append(l, k, ClearEntry)
    PROVE  /\ m \in Logs /\ Gapless(m) /\ Entries(l) <= Entries(m)
           /\ \/ Entries(m) > 0 /\ Last(m).clear /\ Count(m) = 0
              \/ /\ Entries(m) = Entries(l) /\ Count(m) = Count(l) /\ GetFlag(m) = GetFlag(l)
                 /\ Last(m) = Last(l)
<1>1. ClearEntry \in Word /\ ClearEntry.kind = "entry" /\ ClearEntry.clear = TRUE
  BY EntriesAre DEF ClearEntry, Entry
<1>2. /\ m \in Logs /\ Gapless(m)
      /\ \/ /\ k = Entries(l) /\ Entries(m) = k + 1 /\ Last(m) = ClearEntry
         \/ /\ m = l
         \/ /\ k < Entries(l) /\ Entries(m) = Entries(l)
            /\ Last(m) = IF k + 1 = Entries(l) THEN Program(Last(l), ClearEntry) ELSE Last(l)
            /\ Last(l).kind = "entry" /\ Last(l) \in Word
  BY <1>1, AppendFacts
<1>3. CASE k = Entries(l) /\ Entries(m) = k + 1 /\ Last(m) = ClearEntry
  BY <1>1, <1>2, <1>3, CountIs
<1>4. CASE m = l
  BY <1>2, <1>4, EntriesIs
<1>5. CASE /\ k < Entries(l) /\ Entries(m) = Entries(l) /\ k + 1 = Entries(l)
           /\ Last(m) = Program(Last(l), ClearEntry)
           /\ Last(l).kind = "entry" /\ Last(l) \in Word
  <2>1. Program(Last(l), ClearEntry).clear = (Last(l).clear \/ ClearEntry.clear)
    BY <1>1, <1>5, ProgramType
  <2>2. Last(m).clear
    BY <1>1, <1>5, <2>1
  <2> QED BY <1>2, <1>5, <2>2, CountIs, EntriesIs
<1>6. CASE k < Entries(l) /\ Entries(m) = Entries(l) /\ Last(m) = Last(l)
  <2>1. Entries(l) \in 0 .. LogSize /\ Entries(l) > 0
    BY <1>6, EntriesIs
  <2>2. Count(m) = Count(l)
    BY <1>2, <1>6, <2>1, CountIs
  <2>3. GetFlag(m) = GetFlag(l)
    BY <1>2, <1>6, <2>1, GetFlagIs
  <2> QED BY <1>2, <1>6, <2>1, <2>2, <2>3
<1> QED BY <1>2, <1>3, <1>4, <1>5, <1>6

\* Marking a delay as served leaves the count.
LEMMA FlagAppended ==
    ASSUME NEW l \in Logs, Gapless(l), Count(l) > 0,
           NEW m, m = Append(l, CurrentIndex(l), FlagEntry(Count(l)))
    PROVE  /\ m \in Logs /\ Gapless(m) /\ Entries(l) <= Entries(m) /\ Count(m) = Count(l)
           /\ Entries(l) = LogSize => Entries(m) = LogSize
<1> DEFINE k == CurrentIndex(l)
           e == FlagEntry(Count(l))
<1>1. e \in Word /\ e.kind = "entry" /\ e.clear = FALSE /\ e.count = Count(l)
  BY EntriesAre, CountIs DEF FlagEntry, Entry
<1>2. k \in 0 .. LogSize - 1 /\ k <= Entries(l) /\ (k < Entries(l) => k = 0 /\ Entries(l) = LogSize)
  BY CurrentIndexIs
<1>3. /\ m \in Logs /\ Gapless(m)
      /\ \/ /\ k = Entries(l) /\ Entries(m) = k + 1 /\ Last(m) = e
         \/ /\ m = l
         \/ /\ k < Entries(l) /\ Entries(m) = Entries(l)
            /\ Last(m) = IF k + 1 = Entries(l) THEN Program(Last(l), e) ELSE Last(l)
  <2> HIDE DEF k, e
  <2>1. m = Append(l, k, e)
    BY DEF k, e
  <2> QED BY <1>1, <1>2, <2>1, AppendFacts
<1> HIDE DEF k, e
<1>4. CASE k = Entries(l) /\ Entries(m) = k + 1 /\ Last(m) = e
  BY <1>1, <1>2, <1>3, <1>4, CountIs, EntriesIs
<1>5. CASE m = l
  BY <1>3, <1>5, EntriesIs
<1>6. CASE k < Entries(l) /\ Entries(m) = Entries(l) /\ Last(m) = Last(l)
  BY <1>2, <1>3, <1>6, CountIs, EntriesIs
<1> QED BY <1>2, <1>3, <1>4, <1>5, <1>6

\* A count is added at the end, or leaves every read as it was: over a word
\* that a clear has reached first it does not take the clear back.
LEMMA IncrementAppended ==
    ASSUME NEW l \in Logs, Gapless(l), NEW k \in 0 .. LogSize - 1, k <= Entries(l),
           k < Entries(l) => Last(l).clear \/ (k = 0 /\ Entries(l) = LogSize),
           NEW c \in 0 .. MaxCount - 1,
           NEW m, m = Append(l, k, IncrementEntry(c))
    PROVE  /\ m \in Logs /\ Gapless(m) /\ Entries(l) <= Entries(m)
           /\ \/ /\ Entries(l) < LogSize /\ Entries(m) = Entries(l) + 1
                 /\ Count(m) = c + 1 /\ Last(m).done = FALSE
              \/ /\ Entries(m) = Entries(l) /\ Count(m) = Count(l) /\ GetFlag(m) = GetFlag(l)
<1> DEFINE e == IncrementEntry(c)
<1>1. e \in Word /\ e.kind = "entry" /\ e.clear = FALSE /\ e.done = FALSE /\ e.count = c + 1
  BY EntriesAre DEF IncrementEntry, Entry
<1>2. /\ m \in Logs /\ Gapless(m)
      /\ \/ /\ k = Entries(l) /\ Entries(m) = k + 1 /\ Last(m) = e
         \/ /\ m = l
         \/ /\ k < Entries(l) /\ Entries(m) = Entries(l)
            /\ Last(m) = IF k + 1 = Entries(l) THEN Program(Last(l), e) ELSE Last(l)
            /\ Last(l).kind = "entry" /\ Last(l) \in Word
  BY <1>1, AppendFacts
<1>3. Entries(l) \in 0 .. LogSize
  BY EntriesIs
<1> HIDE DEF e
<1>4. CASE k = Entries(l) /\ Entries(m) = k + 1 /\ Last(m) = e
  BY <1>1, <1>2, <1>3, <1>4, CountIs
<1>5. CASE m = l
  BY <1>2, <1>3, <1>5
<1>6. CASE k < Entries(l) /\ Entries(m) = Entries(l) /\ Last(m) = Last(l)
  <2>1. /\ Count(m) = IF Last(m).clear THEN 0 ELSE Last(m).count
        /\ Count(l) = IF Last(l).clear THEN 0 ELSE Last(l).count
    BY <1>2, <1>3, <1>6, CountIs
  <2>2. GetFlag(m) = GetFlag(l)
    BY <1>2, <1>3, <1>6, GetFlagIs
  <2>3. Count(m) = Count(l)
    BY <1>6, <2>1
  <2> QED BY <1>2, <1>3, <1>6, <2>2, <2>3
<1>7. CASE /\ k < Entries(l) /\ Entries(m) = Entries(l) /\ k + 1 = Entries(l)
           /\ Last(m) = Program(Last(l), e) /\ Last(l).kind = "entry" /\ Last(l) \in Word
  <2>1. Last(l).clear
    BY <1>7
  <2>0. /\ Program(Last(l), e).clear = (Last(l).clear \/ e.clear)
        /\ Program(Last(l), e).done = (Last(l).done \/ e.done)
    BY <1>1, <1>7, ProgramType
  <2>2. Last(m).clear /\ Last(m).done = (Last(l).done \/ e.done) /\ Last(l).done \in BOOLEAN
    BY <1>7, <2>0, <2>1 DEF Word
  <2>3. Last(m).done = Last(l).done
    BY <1>1, <2>2
  <2>4. Count(m) = Count(l)
    BY <1>2, <1>3, <1>7, <2>1, <2>2, CountIs
  <2>5. GetFlag(m) = GetFlag(l)
    BY <1>2, <1>3, <1>7, <2>3, GetFlagIs
  <2> QED BY <1>2, <1>3, <1>7, <2>4, <2>5
<1> QED BY <1>2, <1>3, <1>4, <1>5, <1>6, <1>7

-----------------------------------------------------------------------------

-----------------------------------------------------------------------------
(* Types *)
LEMMA TableDelayType ==
    ASSUME NEW c \in Nat, c > 0 PROVE TableDelay(c) \in Nat
<1>1. (IF c >= Limit THEN Limit ELSE c) \in 1 .. Limit
  BY UnlockAssumption
<1> QED BY <1>1, UnlockAssumption DEF TableDelay

LEMMA DelayForType ==
    ASSUME NEW l, NEW c \in Nat PROVE DelayFor(l, c) \in Nat
BY TableDelayType DEF DelayFor

\* The type invariant, by part. A guess in progress has a positive count.
Steps == {"idle", "increment", "index", "write", "verify", "compare", "wrong", "clear",
          "clear_index", "clear_write"}
FlashType ==
    /\ log \in Logs /\ header \in BOOLEAN /\ secret \in BOOLEAN
    /\ response \in Responses \cup {"none"}
PowerType ==
    up \in BOOLEAN /\ limitResponse \in Responses /\ timer \in Nat /\ authed \in BOOLEAN
TaskType ==
    /\ pc \in Steps /\ cur \in 0 .. MaxCount + 1 /\ seen \in 0 .. MaxCount - 1
    /\ slot \in 0 .. LogSize - 1 /\ (pc # "idle" => cur >= 1)
WipeType ==
    /\ wipe \in {"idle", "asked", "response", "reset", "index", "write"}
    /\ wipeSlot \in 0 .. LogSize - 1
GuessType ==
    /\ wrong \in Nat /\ overtaken \in {0, 1} /\ owed \in Nat
    /\ dropped \in Nat /\ lost \in BOOLEAN
BoundsType ==
    /\ stray \in BOOLEAN /\ faults \in 0 .. MaxFaults /\ reboots \in 0 .. MaxReboots
    /\ updates \in 0 .. MaxUpdates
TypeInv == FlashType /\ PowerType /\ TaskType /\ WipeType /\ GuessType /\ BoundsType

LEMMA CountType == TypeInv => Count(log) \in 0 .. MaxCount
BY CountIs DEF TypeInv, FlashType

LEMMA FaultType == TypeInv /\ Fault => BoundsType'
BY UnlockBounds DEF TypeInv, BoundsType, Fault

LEMMA ClearedType == Cleared => GuessType'
<1> SUFFICES ASSUME Cleared PROVE GuessType'
  OBVIOUS
<1>1. lost' \in BOOLEAN
  BY Zenon DEF Cleared
<1> QED BY <1>1 DEF Cleared, GuessType

LEMMA ErasedType == TypeInv /\ Erased /\ lost' \in BOOLEAN => GuessType'
BY CountType DEF Erased, TypeInv, GuessType

LEMMA ReturnType == Return => TaskType'
BY DEF TaskType, Steps

LEMMA BlankType ==
    ASSUME NEW kind \in {"erased", "image"} PROVE [i \in 1 .. LogSize |-> Blank(kind)] \in Logs
BY DEF Blank, Word, Logs

LEMMA CreateType == TypeInv => Create(log, header) \in Logs
<1>1. Blank("erased") \in Word
  BY DEF Blank, Word
<1> QED BY <1>1 DEF Create, Logs, TypeInv, FlashType

LEMMA InitAndBeginDelayType ==
    ASSUME TypeInv, InitAndBeginDelay PROVE TypeInv'
<1>1. FlashType'
  BY CreateType DEF InitAndBeginDelay, LimitResponseRead, TypeInv, FlashType, Responses
<1>2. PowerType'
  <2>1. log' \in Logs
    BY CreateType DEF InitAndBeginDelay
  <2>2. timer' \in Nat
    BY <2>1, CountIs, DelayForType DEF InitAndBeginDelay, BeginDelay, TypeInv, PowerType
  <2> QED BY <2>2
             DEF InitAndBeginDelay, LimitResponseRead, TypeInv, PowerType, FlashType,
                 Responses
<1>3. GuessType'
  BY ErasedType DEF InitAndBeginDelay, TypeInv, GuessType
<1>4. BoundsType'
  BY UnlockBounds DEF InitAndBeginDelay, LimitResponseRead, TypeInv, BoundsType
<1> QED BY <1>1, <1>2, <1>3, <1>4 DEF InitAndBeginDelay, TypeInv, TaskType, WipeType

LEMMA CheckSecretType ==
    ASSUME TypeInv, CheckSecret PROVE TypeInv'
<1>1. TaskType'
  BY CountType DEF CheckSecret, TypeInv, TaskType, Steps
<1> QED BY <1>1
           DEF CheckSecret, TypeInv, FlashType, PowerType, WipeType, GuessType,
               BoundsType

LEMMA IncrementReadType ==
    ASSUME TypeInv, IncrementRead PROVE TypeInv'
<1>1. TaskType'
  BY CountType DEF IncrementRead, TypeInv, TaskType, Steps
<1> QED BY <1>1
           DEF IncrementRead, TypeInv, FlashType, PowerType, WipeType, GuessType,
               BoundsType

LEMMA IncrementIndexType ==
    ASSUME TypeInv, IncrementIndex PROVE TypeInv'
<1>1. TaskType'
  BY CurrentIndexIs DEF IncrementIndex, TypeInv, TaskType, Steps
<1> QED BY <1>1
           DEF IncrementIndex, TypeInv, FlashType, PowerType, WipeType, GuessType,
               BoundsType

LEMMA IncrementWriteType ==
    ASSUME TypeInv, IncrementWrite PROVE TypeInv'
<1>1. FlashType'
  <2>1. log' \in {log, Append(log, slot, IncrementEntry(seen))}
    BY DEF IncrementWrite
  <2>2. Append(log, slot, IncrementEntry(seen)) \in Logs
    BY AppendType, EntriesAre DEF TypeInv, FlashType, TaskType
  <2> QED BY <2>1, <2>2 DEF IncrementWrite, TypeInv, FlashType
<1>2. TaskType'
  BY DEF IncrementWrite, TypeInv, TaskType, Steps
<1>3. BoundsType'
  BY FaultType DEF IncrementWrite, TypeInv, BoundsType
<1> QED BY <1>1, <1>2, <1>3 DEF IncrementWrite, TypeInv, PowerType, WipeType, GuessType

LEMMA IncrementVerifyType ==
    ASSUME TypeInv, IncrementVerify PROVE TypeInv'
<1>1. TaskType'
  BY DEF IncrementVerify, TypeInv, TaskType, Steps
<1> QED BY <1>1
           DEF IncrementVerify, TypeInv, FlashType, PowerType, WipeType, GuessType,
               BoundsType

LEMMA CompareType ==
    ASSUME TypeInv, Compare PROVE TypeInv'
<1>1. TaskType'
  BY DEF Compare, TypeInv, TaskType, Steps
<1>2. GuessType'
  <2>1. pc = "compare" => TableDelay(cur) \in Nat
    BY TableDelayType DEF TypeInv, TaskType
  <2>2. lost' \in BOOLEAN
    BY Zenon DEF Compare, TypeInv, GuessType
  <2> QED BY <2>1, <2>2 DEF Compare, TypeInv, GuessType
<1>3. BoundsType'
  BY FaultType DEF Compare, TypeInv, BoundsType
<1> QED BY <1>1, <1>2, <1>3 DEF Compare, TypeInv, FlashType, PowerType, WipeType

LEMMA WrongSecretType ==
    ASSUME TypeInv, WrongSecret PROVE TypeInv'
<1>1. PowerType'
  BY DelayForType DEF WrongSecret, BeginDelay, TypeInv, PowerType, TaskType
<1>2. TaskType'
  BY DEF WrongSecret, TypeInv, TaskType, Steps
<1>3. WipeType'
  BY DEF WrongSecret, TypeInv, WipeType
<1> QED BY <1>1, <1>2, <1>3 DEF WrongSecret, TypeInv, FlashType, GuessType, BoundsType

LEMMA ClearReadType ==
    ASSUME TypeInv, ClearRead PROVE TypeInv'
<1>1. TaskType'
  BY DEF ClearRead, TypeInv, TaskType, Steps
<1> QED BY <1>1
           DEF ClearRead, TypeInv, FlashType, PowerType, WipeType, GuessType, BoundsType

LEMMA ClearIndexType ==
    ASSUME TypeInv, ClearIndex PROVE TypeInv'
<1>1. TaskType'
  BY CurrentIndexIs DEF ClearIndex, TypeInv, TaskType, Steps
<1> QED BY <1>1
           DEF ClearIndex, TypeInv, FlashType, PowerType, WipeType, GuessType, BoundsType

LEMMA ClearWriteType ==
    ASSUME TypeInv, ClearWrite PROVE TypeInv'
<1>1. FlashType'
  <2>1. log' \in {log, Append(log, slot, ClearEntry)}
    BY DEF ClearWrite
  <2>2. Append(log, slot, ClearEntry) \in Logs
    BY AppendType, EntriesAre DEF TypeInv, FlashType, TaskType
  <2> QED BY <2>1, <2>2 DEF ClearWrite, TypeInv, FlashType
<1>2. PowerType'
  <2>1. (timer' = 0 /\ authed' = TRUE) \/ UNCHANGED <<timer, authed>>
    BY DEF ClearWrite
  <2>2. UNCHANGED <<up, limitResponse>>
    BY DEF ClearWrite
  <2>3. authed' \in BOOLEAN
    BY <2>1 DEF TypeInv, PowerType
  <2>4. timer' \in Nat
    BY <2>1 DEF TypeInv, PowerType
  <2> QED BY <2>2, <2>3, <2>4 DEF TypeInv, PowerType
<1>3. TaskType'
  BY ReturnType DEF ClearWrite
<1>4. GuessType'
  BY ClearedType DEF ClearWrite, TypeInv, GuessType
<1>5. BoundsType'
  BY FaultType DEF ClearWrite, TypeInv, BoundsType
<1> QED BY <1>1, <1>2, <1>3, <1>4, <1>5 DEF ClearWrite, TypeInv, WipeType

LEMMA ProvisionSecretType ==
    ASSUME TypeInv, ProvisionSecret PROVE TypeInv'
<1>1. FlashType'
  BY DEF ProvisionSecret, TypeInv, FlashType, Responses
<1> QED BY <1>1
           DEF ProvisionSecret, TypeInv, PowerType, TaskType, WipeType, GuessType,
               BoundsType

LEMMA SetLimitResponseType ==
    ASSUME TypeInv, SetLimitResponse PROVE TypeInv'
<1>1. FlashType'
  BY DEF SetLimitResponse, TypeInv, FlashType, Responses
<1> QED BY <1>1
           DEF SetLimitResponse, TypeInv, PowerType, TaskType, WipeType, GuessType,
               BoundsType

LEMMA DelayCallbackType ==
    ASSUME TypeInv, DelayCallback PROVE TypeInv'
<1>1. FlashType'
  <2>1. log' \in {log, Append(log, CurrentIndex(log), FlagEntry(Count(log)))}
    BY DEF DelayCallback
  <2>2. Append(log, CurrentIndex(log), FlagEntry(Count(log))) \in Logs
    BY CountType, CurrentIndexIs, AppendType, EntriesAre DEF TypeInv, FlashType
  <2> QED BY <2>1, <2>2 DEF DelayCallback, TypeInv, FlashType
<1>2. PowerType'
  BY DEF DelayCallback, TypeInv, PowerType
<1>3. GuessType'
  BY DEF DelayCallback, TypeInv, GuessType
<1>4. BoundsType'
  BY FaultType DEF DelayCallback, TypeInv, BoundsType
<1> QED BY <1>1, <1>2, <1>3, <1>4 DEF DelayCallback, TypeInv, TaskType, WipeType

LEMMA FingerprintMatchType ==
    ASSUME TypeInv, FingerprintMatch PROVE TypeInv'
<1>1. FlashType'
  <2>1. log' \in {log, Append(log, CurrentIndex(log), ClearEntry)}
    BY DEF FingerprintMatch
  <2>2. Append(log, CurrentIndex(log), ClearEntry) \in Logs
    BY CurrentIndexIs, AppendType, EntriesAre DEF TypeInv, FlashType
  <2> QED BY <2>1, <2>2 DEF FingerprintMatch, TypeInv, FlashType
<1>2. PowerType'
  BY DEF FingerprintMatch, TypeInv, PowerType
<1>3. GuessType'
  BY ClearedType DEF FingerprintMatch, TypeInv, GuessType
<1>4. BoundsType'
  BY FaultType DEF FingerprintMatch, TypeInv, BoundsType
<1> QED BY <1>1, <1>2, <1>3, <1>4 DEF FingerprintMatch, TypeInv, TaskType, WipeType

LEMMA DeauthenticateType ==
    ASSUME TypeInv, Deauthenticate PROVE TypeInv'
<1>1. PowerType'
  BY DEF Deauthenticate, TypeInv, PowerType
<1> QED BY <1>1
           DEF Deauthenticate, TypeInv, FlashType, TaskType, WipeType, GuessType,
               BoundsType

LEMMA RequestWipeType ==
    ASSUME TypeInv, RequestWipe PROVE TypeInv'
<1>1. PowerType'
  BY DEF RequestWipe, TypeInv, PowerType
<1>2. WipeType'
  BY DEF RequestWipe, TypeInv, WipeType
<1> QED BY <1>1, <1>2 DEF RequestWipe, TypeInv, FlashType, TaskType, GuessType, BoundsType

LEMMA WipeSecretType ==
    ASSUME TypeInv, WipeSecret PROVE TypeInv'
<1>1. FlashType'
  BY DEF WipeSecret, TypeInv, FlashType, Responses
<1>2. WipeType'
  BY DEF WipeSecret, TypeInv, WipeType
<1> QED BY <1>1, <1>2 DEF WipeSecret, TypeInv, PowerType, TaskType, GuessType, BoundsType

LEMMA WipeResponseType ==
    ASSUME TypeInv, WipeResponse PROVE TypeInv'
<1>1. FlashType'
  BY DEF WipeResponse, TypeInv, FlashType, Responses
<1>2. WipeType'
  BY DEF WipeResponse, TypeInv, WipeType
<1> QED BY <1>1, <1>2 DEF WipeResponse, TypeInv, PowerType, TaskType, GuessType, BoundsType

LEMMA WipeReadType ==
    ASSUME TypeInv, WipeRead PROVE TypeInv'
<1>1. WipeType'
  BY DEF WipeRead, TypeInv, WipeType
<1> QED BY <1>1 DEF WipeRead, TypeInv, FlashType, PowerType, TaskType, GuessType, BoundsType

LEMMA WipeIndexType ==
    ASSUME TypeInv, WipeIndex PROVE TypeInv'
<1>1. WipeType'
  BY CurrentIndexIs DEF WipeIndex, TypeInv, WipeType
<1> QED BY <1>1 DEF WipeIndex, TypeInv, FlashType, PowerType, TaskType, GuessType, BoundsType

LEMMA WipeWriteType ==
    ASSUME TypeInv, WipeWrite PROVE TypeInv'
<1>1. FlashType'
  <2>1. log' \in {log, Append(log, wipeSlot, ClearEntry)}
    BY DEF WipeWrite
  <2>2. Append(log, wipeSlot, ClearEntry) \in Logs
    BY AppendType, EntriesAre DEF TypeInv, FlashType, WipeType
  <2> QED BY <2>1, <2>2 DEF WipeWrite, TypeInv, FlashType
<1>2. WipeType'
  BY DEF WipeWrite, TypeInv, WipeType
<1>3. GuessType'
  BY ClearedType DEF WipeWrite, TypeInv, GuessType
<1>4. BoundsType'
  BY FaultType DEF WipeWrite, TypeInv, BoundsType
<1> QED BY <1>1, <1>2, <1>3, <1>4 DEF WipeWrite, TypeInv, PowerType, TaskType

LEMMA FirmwareUpdateType ==
    ASSUME TypeInv, FirmwareUpdate PROVE TypeInv'
<1>1. FlashType'
  BY BlankType DEF FirmwareUpdate, TypeInv, FlashType
<1>2. GuessType'
  BY ErasedType DEF FirmwareUpdate
<1>3. BoundsType'
  BY UnlockBounds DEF FirmwareUpdate, TypeInv, BoundsType, TaskType, WipeType
<1> QED BY <1>1, <1>2, <1>3 DEF FirmwareUpdate, TypeInv, PowerType, TaskType, WipeType

LEMMA RebootType ==
    ASSUME TypeInv, Reboot PROVE TypeInv'
<1>1. PowerType'
  BY DEF Reboot, TypeInv, PowerType, Responses
<1>2. TaskType'
  BY DEF Reboot, TypeInv, TaskType, Steps
<1>3. WipeType'
  BY DEF Reboot, TypeInv, WipeType
<1>4. BoundsType'
  BY UnlockBounds DEF Reboot, TypeInv, BoundsType
<1> QED BY <1>1, <1>2, <1>3, <1>4 DEF Reboot, TypeInv, FlashType, GuessType

LEMMA InitType == Init => TypeInv
<1> SUFFICES ASSUME Init PROVE TypeInv
  OBVIOUS
<1>1. log \in Logs
  BY BlankType DEF Init
<1>2. FlashType /\ PowerType
  BY <1>1 DEF Init, FlashType, PowerType, Responses
<1>3. TaskType /\ WipeType
  BY DEF Init, TaskType, WipeType, Steps
<1>6. GuessType
  <2>1. lost \in BOOLEAN
    BY Zenon DEF Init
  <2> QED BY <2>1 DEF Init, GuessType
<1>4. stray = FALSE /\ faults = 0 /\ reboots = 0 /\ updates = 0
  BY DEF Init
<1>5. BoundsType
  <2>1. 0 \in 0 .. MaxFaults /\ 0 \in 0 .. MaxReboots /\ 0 \in 0 .. MaxUpdates
    BY UnlockBounds
  <2> QED BY <1>4, <2>1 DEF BoundsType
<1> QED BY <1>2, <1>3, <1>5, <1>6 DEF TypeInv

LEMMA NextType == TypeInv /\ [Next]_vars => TypeInv'
<1> SUFFICES ASSUME TypeInv, [Next]_vars PROVE TypeInv'
  OBVIOUS
<1>1. CASE AuthTask
  BY <1>1, InitAndBeginDelayType, CheckSecretType, IncrementReadType,
     IncrementIndexType, IncrementWriteType, IncrementVerifyType, CompareType,
     WrongSecretType, ClearReadType, ClearIndexType, ClearWriteType, ProvisionSecretType, SetLimitResponseType
     DEF AuthTask
<1>2. CASE UNCHANGED vars
  BY <1>2 DEF vars, TypeInv, FlashType, PowerType, TaskType, WipeType, GuessType, BoundsType
<1> QED
  BY <1>1, <1>2, DelayCallbackType, FingerprintMatchType, DeauthenticateType,
     RequestWipeType, WipeSecretType, WipeResponseType, WipeReadType, WipeIndexType,
     WipeWriteType, FirmwareUpdateType, RebootType
     DEF Next

\* Every variable keeps its type, also where an entry from before an erase is
\* in the way: every index that current_index returns is one of the log, and
\* every count fits its field.
THEOREM TypeCorrect == Spec => []TypeOK
<1>1. Spec => []TypeInv
  BY InitType, NextType, PTL DEF Spec
<1>2. TypeInv => TypeOK
  BY DEF TypeInv, FlashType, PowerType, TaskType, WipeType, GuessType, BoundsType,
         TypeOK, Logs, Steps
<1> QED BY <1>1, <1>2, PTL

-----------------------------------------------------------------------------

-----------------------------------------------------------------------------
(* Guesses and delays *)
\* No room is left in the log.
Full == Entries(log) = LogSize

\* A secret is checked, a delay runs and a wipe is served only after
\* unlock_init_and_begin_delay, and no delay runs while a secret is checked.
Running ==
    /\ pc # "idle" => up /\ timer = 0
    /\ timer > 0 => up
    /\ wipe # "idle" => up

\* An index that was read stays within the entries. Where the increment lost
\* its place, what came after it is a clear.
Slots ==
    /\ pc \in {"write", "clear_write"} => slot <= Entries(log)
    /\ wipe = "write" => wipeSlot <= Entries(log)
    /\ pc = "write" /\ slot < Entries(log) => Last(log).clear \/ (slot = 0 /\ Full)

\* The count in the log, with what erased logs held, is never behind the wrong
\* guesses; while a guess is on its way to the log its own count is ahead by one.
Counting ==
    /\ wrong <= Count(log) + overtaken + dropped
    /\ pc \in {"increment", "index", "write", "verify"} => wrong + 1 <= cur + overtaken + dropped
    /\ pc \in {"increment", "index", "write"} => Count(log) \in {0, cur - 1}
    /\ pc \in {"index", "write"} => wrong <= seen + overtaken + dropped
    /\ pc = "compare" => wrong + 1 <= Count(log) + overtaken + dropped

\* A delay that is owed is in the log, and runs or will run after the restart.
\* A full log is the exception: indexfs_get_flag then calls every delay served.
Pending ==
    owed > 0 =>
        \/ Full
        \/ /\ ~GetFlag(log) /\ Count(log) > 0 /\ TableDelay(Count(log)) >= owed
           /\ ~up \/ timer >= owed \/ pc = "wrong"

\* A guess that was counted owes nothing from before it: with a full log, where
\* a delay can be skipped, no guess is counted any more, so none is compared.
Delaying ==
    /\ pc \in {"verify", "compare"} /\ Count(log) = cur => Full \/ ~GetFlag(log)
    /\ pc = "wrong" => owed <= TableDelay(cur)
    /\ ~lost => /\ Pending
                /\ pc \in {"increment", "index", "write"} /\ owed > 0 => Full
                /\ pc = "verify" /\ Count(log) = cur => owed = 0
                /\ pc \in {"compare", "clear", "clear_index", "clear_write"} => owed = 0

GuessInv == Running /\ (~stray => Gapless(log) /\ Slots /\ Counting /\ Delaying)

\* Before the first update a log without its header has never been in use, and
\* nothing was lost by an erase.
EraseInv ==
    /\ ~header /\ updates = 0 => ~up /\ Count(log) = 0 /\ owed = 0
    /\ dropped > 0 => updates > 0
    /\ lost => updates > 0

LEMMA Numbers ==
    ASSUME TypeInv
    PROVE  /\ Count(log) \in Nat /\ Entries(log) \in Nat /\ cur \in Nat /\ seen \in Nat
           /\ slot \in Nat /\ wipeSlot \in Nat /\ timer \in Nat
           /\ wrong \in Nat /\ overtaken \in Nat /\ owed \in Nat /\ dropped \in Nat
<1>1. Entries(log) \in Nat
  BY EntriesIs
<1>2. Count(log) \in Nat
  BY CountType
<1> QED BY <1>1, <1>2 DEF TypeInv, TaskType, WipeType, PowerType, GuessType

\* The auth task is not involved.
LEMMA GuessFrame ==
    ASSUME GuessInv, UNCHANGED <<log, taskVars, guessVars, stray, up, timer>>,
           (wipe' = wipe /\ wipeSlot' = wipeSlot) \/ (wipe' # "write" /\ (wipe' # "idle" => up))
    PROVE  GuessInv'
<1>1. Running'
  BY DEF GuessInv, Running
<1>2. ASSUME ~stray' PROVE Gapless(log') /\ Slots' /\ Counting' /\ Delaying'
  <2>1. Gapless(log) /\ Slots /\ Counting /\ Delaying
    BY <1>2 DEF GuessInv
  <2>2. Gapless(log') /\ Counting'
    BY <2>1 DEF Counting
  <2>3. Slots'
    BY <2>1 DEF Slots, Full
  <2>4. Delaying'
    BY <2>1 DEF Delaying, Pending, Full
  <2> QED BY <2>2, <2>3, <2>4
<1> QED BY <1>1, <1>2 DEF GuessInv

\* The auth task returns, before a guess was found wrong.
LEMMA ReturnSafe ==
    ASSUME GuessInv, pc # "wrong", pc' = "idle",
           UNCHANGED <<log, wipeVars, guessVars, stray, up, timer>>
    PROVE  GuessInv'
<1>1. Running'
  BY DEF GuessInv, Running
<1>2. ASSUME ~stray' PROVE Gapless(log') /\ Slots' /\ Counting' /\ Delaying'
  <2>1. Gapless(log) /\ Slots /\ Counting /\ Delaying
    BY <1>2 DEF GuessInv
  <2>2. Gapless(log') /\ Counting'
    BY <2>1 DEF Counting
  <2>3. Slots'
    BY <2>1 DEF Slots
  <2>4. Delaying'
    BY <2>1 DEF Delaying, Pending, Full
  <2> QED BY <2>2, <2>3, <2>4
<1> QED BY <1>1, <1>2 DEF GuessInv

\* A clear is appended where the index is or was.
LEMMA ClearSafe ==
    ASSUME TypeInv, GuessInv, stray' = stray, NEW k \in 0 .. LogSize - 1,
           ~stray => k <= Entries(log),
           log' = Append(log, k, ClearEntry),
           IF Count(log') = 0 THEN Cleared ELSE UNCHANGED guessVars,
           UNCHANGED taskVars \/ (pc' = "idle" /\ pc # "wrong"),
           UNCHANGED wipeVars \/ wipe' = "idle",
           UNCHANGED <<up, timer>>
    PROVE  GuessInv'
<1>1. Running'
  BY DEF GuessInv, Running
<1>2. ASSUME ~stray' PROVE Gapless(log') /\ Slots' /\ Counting' /\ Delaying'
  <2>1. Gapless(log) /\ Slots /\ Counting /\ Delaying /\ k <= Entries(log)
    BY <1>2 DEF GuessInv
  <2>2. /\ log' \in Logs /\ Gapless(log') /\ Entries(log) <= Entries(log')
        /\ \/ Entries(log') > 0 /\ Last(log').clear /\ Count(log') = 0
           \/ /\ Entries(log') = Entries(log) /\ Count(log') = Count(log)
              /\ GetFlag(log') = GetFlag(log) /\ Last(log') = Last(log)
    BY <2>1, ClearAppended DEF TypeInv, FlashType
  <2>3. Slots'
    BY <2>1, <2>2, Numbers, EntriesIs DEF Slots, Full
  <2>4. CASE Count(log') = 0
    <3>1. /\ wrong' = 0 /\ owed' = 0 /\ overtaken' = IF pc = "compare" THEN 1 ELSE 0
          /\ dropped' = 0
      BY <2>4 DEF Cleared
    <3>2. pc' # "idle" => cur' = cur /\ cur \in Nat /\ cur >= 1 /\ pc' = pc /\ seen' = seen
      BY DEF TypeInv, TaskType
    <3>3. Counting'
      BY <2>4, <3>1, <3>2, Numbers DEF Counting
    <3>4. Delaying'
      <4>1. pc' = "wrong" => TableDelay(cur) \in Nat /\ cur' = cur
        BY <3>2, TableDelayType
      <4> QED BY <2>4, <3>1, <3>2, <4>1 DEF Delaying, Pending
    <3> QED BY <2>2, <2>3, <3>3, <3>4
  <2>5. CASE Count(log') # 0
    <3>1. /\ Entries(log') = Entries(log) /\ Count(log') = Count(log)
          /\ GetFlag(log') = GetFlag(log) /\ UNCHANGED guessVars
      BY <2>2, <2>5
    <3>2. Counting'
      BY <2>1, <3>1 DEF Counting
    <3>3. Delaying'
      BY <2>1, <3>1 DEF Delaying, Pending, Full
    <3> QED BY <2>2, <2>3, <3>2, <3>3
  <2> QED BY <2>4, <2>5
<1> QED BY <1>1, <1>2 DEF GuessInv

LEMMA InitAndBeginDelaySafe ==
    ASSUME TypeInv, GuessInv, InitAndBeginDelay PROVE GuessInv'
<1>1. /\ ~up /\ up' = TRUE /\ UNCHANGED <<taskVars, wipeVars>> /\ pc = "idle" /\ wipe = "idle"
  BY DEF InitAndBeginDelay, GuessInv, Running
<1>2. timer = 0 /\ timer' \in Nat
  BY InitAndBeginDelayType, <1>1, Numbers DEF TypeInv, PowerType, GuessInv, Running
<1>3. Running'
  BY <1>1 DEF Running
<1>4. ASSUME ~stray', header PROVE Gapless(log') /\ Slots' /\ Counting' /\ Delaying'
  <2>1. ~stray /\ log' = log /\ UNCHANGED guessVars
    BY <1>4 DEF InitAndBeginDelay, Create
  <2>2. Gapless(log) /\ Slots /\ Counting /\ Delaying
    BY <2>1 DEF GuessInv
  <2>3. Gapless(log') /\ Slots' /\ Counting'
    BY <1>1, <2>1, <2>2 DEF Slots, Counting
  <2>4. ~lost' => Pending'
    <3>1. timer' = IF DelayFor(log, Count(log)) = 0 THEN timer ELSE DelayFor(log, Count(log))
      BY <2>1 DEF InitAndBeginDelay, BeginDelay
    <3>2. ~GetFlag(log) /\ Count(log) > 0 => DelayFor(log, Count(log)) = TableDelay(Count(log))
      BY Numbers DEF DelayFor
    <3>3. Count(log) > 0 => TableDelay(Count(log)) \in Nat
      BY Numbers, TableDelayType
    <3> QED BY <2>1, <2>2, <3>1, <3>2, <3>3, Numbers DEF Delaying, Pending, Full
  <2>5. Delaying'
    BY <1>1, <2>4 DEF Delaying
  <2> QED BY <2>3, <2>5
<1>5. ASSUME ~stray', ~header PROVE Gapless(log') /\ Slots' /\ Counting' /\ Delaying'
  <2>1. /\ ~stray /\ \A i \in 1 .. LogSize : log'[i].kind # "entry"
        /\ dropped' = dropped + Count(log) /\ UNCHANGED <<wrong, overtaken, owed>>
        /\ lost' = (lost \/ owed > 0)
    BY <1>5 DEF InitAndBeginDelay, Erased
  <2>2. Gapless(log') /\ Slots'
    BY <1>1, <2>1 DEF Gapless, Slots
  <2>3. Count(log') \in Nat
    BY InitAndBeginDelayType, CountIs DEF TypeInv, FlashType
  <2>4. Counting /\ Delaying
    BY <2>1 DEF GuessInv
  <2>5. Counting'
    BY <1>1, <2>1, <2>3, <2>4, Numbers DEF Counting
  <2>6. ~lost' => owed' = 0
    <3>1. ~lost' => ~(owed > 0)
      BY <2>1, Zenon
    <3> QED BY <2>1, <3>1, Numbers
  <2>7. Delaying'
    BY <1>1, <2>6 DEF Delaying, Pending
  <2> QED BY <2>2, <2>5, <2>7
<1> QED BY <1>3, <1>4, <1>5 DEF GuessInv, TypeInv, FlashType

LEMMA CheckSecretSafe ==
    ASSUME TypeInv, GuessInv, CheckSecret PROVE GuessInv'
<1>1. /\ up /\ timer = 0 /\ pc = "idle" /\ pc' = "increment" /\ cur' = Count(log) + 1
      /\ UNCHANGED <<log, up, timer, slot, seen, wipeVars, guessVars, stray>>
  BY DEF CheckSecret
<1>2. Running'
  BY <1>1 DEF GuessInv, Running
<1>3. ASSUME ~stray' PROVE Gapless(log') /\ Slots' /\ Counting' /\ Delaying'
  <2>1. Gapless(log) /\ Slots /\ Counting /\ Delaying
    BY <1>1, <1>3 DEF GuessInv
  <2>2. Gapless(log') /\ Slots'
    BY <1>1, <2>1 DEF Slots
  <2>3. Counting'
    BY <1>1, <2>1, Numbers DEF Counting
  <2>4. Delaying'
    BY <1>1, <2>1, Numbers DEF Delaying, Pending, Full
  <2> QED BY <2>2, <2>3, <2>4
<1> QED BY <1>2, <1>3 DEF GuessInv

LEMMA IncrementReadSafe ==
    ASSUME TypeInv, GuessInv, IncrementRead PROVE GuessInv'
<1>1. pc = "increment" /\ UNCHANGED <<log, up, timer, wipeVars, guessVars, stray>>
  BY DEF IncrementRead
<1>2. CASE pc' = "idle"
  BY <1>1, <1>2, ReturnSafe
<1>3. CASE pc' = "index" /\ seen' = Count(log) /\ UNCHANGED <<cur, slot>>
  <2>1. Running'
    BY <1>1, <1>3 DEF GuessInv, Running
  <2>2. ASSUME ~stray' PROVE Gapless(log') /\ Slots' /\ Counting' /\ Delaying'
    <3>1. Gapless(log) /\ Slots /\ Counting /\ Delaying
      BY <1>1, <2>2 DEF GuessInv
    <3>2. Slots'
      BY <1>1, <1>3, <3>1 DEF Slots
    <3>3. Counting'
      BY <1>1, <1>3, <3>1 DEF Counting
    <3>4. Delaying'
      BY <1>1, <1>3, <3>1 DEF Delaying, Pending, Full
    <3> QED BY <1>1, <3>1, <3>2, <3>3, <3>4
  <2> QED BY <2>1, <2>2 DEF GuessInv
<1> QED BY <1>2, <1>3 DEF IncrementRead

LEMMA IncrementIndexSafe ==
    ASSUME TypeInv, GuessInv, IncrementIndex PROVE GuessInv'
<1>1. /\ pc = "index" /\ pc' = "write" /\ slot' = CurrentIndex(log)
      /\ UNCHANGED <<cur, seen, log, up, timer, wipeVars, guessVars, stray>>
  BY DEF IncrementIndex
<1>2. Running'
  BY <1>1 DEF GuessInv, Running
<1>3. ASSUME ~stray' PROVE Gapless(log') /\ Slots' /\ Counting' /\ Delaying'
  <2>1. Gapless(log) /\ Slots /\ Counting /\ Delaying
    BY <1>1, <1>3 DEF GuessInv
  <2>2. Slots'
    BY <1>1, <2>1, CurrentIndexIs DEF Slots, Full
  <2>3. Counting'
    BY <1>1, <2>1 DEF Counting
  <2>4. Delaying'
    BY <1>1, <2>1 DEF Delaying, Pending, Full
  <2> QED BY <1>1, <2>1, <2>2, <2>3, <2>4
<1> QED BY <1>2, <1>3 DEF GuessInv

LEMMA IncrementWriteSafe ==
    ASSUME TypeInv, GuessInv, IncrementWrite PROVE GuessInv'
<1>1. pc = "write" /\ UNCHANGED <<up, timer, wipeVars, guessVars, stray>>
  BY DEF IncrementWrite, Fault
<1>2. CASE pc' = "idle" /\ log' = log
  BY <1>1, <1>2, ReturnSafe
<1>3. CASE pc' = "verify" /\ log' = Append(log, slot, IncrementEntry(seen)) /\ cur' = cur
  <2>1. Running'
    BY <1>1, <1>3 DEF GuessInv, Running
  <2>2. ASSUME ~stray' PROVE Gapless(log') /\ Slots' /\ Counting' /\ Delaying'
    <3>1. Gapless(log) /\ Slots /\ Counting /\ Delaying
      BY <1>1, <2>2 DEF GuessInv
    <3>2. /\ log' \in Logs /\ Gapless(log') /\ Entries(log) <= Entries(log')
          /\ \/ /\ Entries(log) < LogSize /\ Entries(log') = Entries(log) + 1
                /\ Count(log') = seen + 1 /\ Last(log').done = FALSE
             \/ /\ Entries(log') = Entries(log) /\ Count(log') = Count(log)
                /\ GetFlag(log') = GetFlag(log)
      <4>1. /\ log \in Logs /\ slot \in 0 .. LogSize - 1 /\ seen \in 0 .. MaxCount - 1
            /\ slot <= Entries(log)
            /\ slot < Entries(log) => Last(log).clear \/ (slot = 0 /\ Entries(log) = LogSize)
        BY <1>1, <3>1 DEF TypeInv, FlashType, TaskType, Slots, Full
      <4> DEFINE m == Append(log, slot, IncrementEntry(seen))
      <4>2. /\ m \in Logs /\ Gapless(m) /\ Entries(log) <= Entries(m)
            /\ \/ /\ Entries(log) < LogSize /\ Entries(m) = Entries(log) + 1
                  /\ Count(m) = seen + 1 /\ Last(m).done = FALSE
               \/ /\ Entries(m) = Entries(log) /\ Count(m) = Count(log)
                  /\ GetFlag(m) = GetFlag(log)
        BY <3>1, <4>1, IncrementAppended
      <4> QED BY <1>3, <4>2
    <3>3. Entries(log') \in Nat
      BY EntriesIs
    <3>4. Slots'
      BY <1>1, <1>3, <3>1, <3>2, <3>3, Numbers DEF Slots
    <3>5. Counting'
      BY <1>1, <1>3, <3>1, <3>2, Numbers DEF Counting
    <3>6. CASE /\ Entries(log) < LogSize /\ Entries(log') = Entries(log) + 1
               /\ Count(log') = seen + 1 /\ Last(log').done = FALSE
      <4>1. ~lost => owed = 0
        BY <1>1, <3>1, <3>6, Numbers DEF Delaying, Full
      <4>2. Entries(log') = LogSize \/ ~GetFlag(log')
        BY <3>2, <3>6, Numbers, GetFlagIs
      <4>3. Delaying'
        BY <1>1, <1>3, <4>1, <4>2 DEF Delaying, Pending, Full
      <4> QED BY <3>2, <3>4, <3>5, <4>3
    <3>7. CASE /\ Entries(log') = Entries(log) /\ Count(log') = Count(log)
               /\ GetFlag(log') = GetFlag(log)
      <4>1. Count(log') # cur'
        BY <1>1, <1>3, <3>1, <3>7, Numbers DEF Counting, TypeInv, TaskType
      <4>2. Delaying'
        BY <1>1, <1>3, <3>1, <3>7, <4>1 DEF Delaying, Pending, Full
      <4> QED BY <3>2, <3>4, <3>5, <4>2
    <3> QED BY <3>2, <3>6, <3>7
  <2> QED BY <2>1, <2>2 DEF GuessInv
<1> QED BY <1>2, <1>3 DEF IncrementWrite

LEMMA IncrementVerifySafe ==
    ASSUME TypeInv, GuessInv, IncrementVerify PROVE GuessInv'
<1>1. pc = "verify" /\ UNCHANGED <<log, up, timer, wipeVars, guessVars, stray>>
  BY DEF IncrementVerify
<1>2. CASE pc' = "idle"
  BY <1>1, <1>2, ReturnSafe
<1>3. CASE pc' = "compare" /\ Count(log) = cur /\ cur' = cur
  <2>1. Running'
    BY <1>1, <1>3 DEF GuessInv, Running
  <2>2. ASSUME ~stray' PROVE Gapless(log') /\ Slots' /\ Counting' /\ Delaying'
    <3>1. Gapless(log) /\ Slots /\ Counting /\ Delaying
      BY <1>1, <2>2 DEF GuessInv
    <3>2. Slots' /\ Counting'
      BY <1>1, <1>3, <3>1 DEF Slots, Counting
    <3>3. Delaying'
      BY <1>1, <1>3, <3>1 DEF Delaying, Pending, Full
    <3> QED BY <1>1, <3>1, <3>2, <3>3
  <2> QED BY <2>1, <2>2 DEF GuessInv
<1> QED BY <1>2, <1>3 DEF IncrementVerify

LEMMA CompareSafe ==
    ASSUME TypeInv, GuessInv, Compare PROVE GuessInv'
<1>1. /\ pc = "compare" /\ UNCHANGED <<log, up, timer, wipeVars, overtaken, dropped, stray>>
      /\ cur \in Nat /\ cur >= 1
  BY Numbers DEF Compare, Fault, TypeInv, TaskType
<1>2. CASE pc' = "idle" /\ UNCHANGED <<wrong, owed, lost>>
  BY <1>1, <1>2, ReturnSafe
<1>3. CASE pc' = "clear" /\ UNCHANGED <<cur, wrong, owed, lost>>
  <2>1. Running'
    BY <1>1, <1>3 DEF GuessInv, Running
  <2>2. ASSUME ~stray' PROVE Gapless(log') /\ Slots' /\ Counting' /\ Delaying'
    <3>1. Gapless(log) /\ Slots /\ Counting /\ Delaying
      BY <1>1, <2>2 DEF GuessInv
    <3>2. Slots' /\ Counting'
      BY <1>1, <1>3, <3>1 DEF Slots, Counting
    <3>3. Delaying'
      BY <1>1, <1>3, <3>1 DEF Delaying, Pending
    <3> QED BY <1>1, <3>1, <3>2, <3>3
  <2> QED BY <2>1, <2>2 DEF GuessInv
<1>4. CASE /\ pc' = "wrong" /\ wrong' = wrong + 1 /\ cur' = cur
           /\ owed' = IF Count(log) = cur \/ lost THEN TableDelay(cur) ELSE owed
           /\ lost' = (lost /\ Count(log) # cur)
  <2>1. Running'
    BY <1>1, <1>4 DEF GuessInv, Running
  <2>2. ASSUME ~stray' PROVE Gapless(log') /\ Slots' /\ Counting' /\ Delaying'
    <3>1. Gapless(log) /\ Slots /\ Counting /\ Delaying
      BY <1>1, <2>2 DEF GuessInv
    <3>2. Slots'
      BY <1>1, <1>4, <3>1 DEF Slots
    <3>3. Counting'
      BY <1>1, <1>4, <3>1, Numbers DEF Counting
    <3>4. TableDelay(cur) \in Nat /\ (~lost => owed = 0)
      BY <1>1, <3>1, TableDelayType DEF Delaying
    <3>5. /\ ~lost' => ~lost \/ Count(log) = cur
          /\ lost \/ Count(log) = cur => owed' = TableDelay(cur)
          /\ ~lost /\ Count(log) # cur => owed' = owed
      BY <1>4, Zenon
    <3>6. Delaying'
      BY <1>1, <1>4, <3>1, <3>4, <3>5 DEF Delaying, Pending, Full
    <3> QED BY <1>1, <3>1, <3>2, <3>3, <3>6
  <2> QED BY <2>1, <2>2 DEF GuessInv
<1> QED BY <1>2, <1>3, <1>4 DEF Compare

LEMMA WrongSecretSafe ==
    ASSUME TypeInv, GuessInv, WrongSecret PROVE GuessInv'
<1>1. /\ pc = "wrong" /\ pc' = "idle" /\ UNCHANGED <<log, up, wipeSlot, guessVars, stray>>
      /\ wipe' \in {wipe, "asked"}
      /\ timer' = IF DelayFor(log, cur) = 0 THEN timer ELSE DelayFor(log, cur)
  BY DEF WrongSecret, BeginDelay
<1>2. up /\ timer = 0 /\ cur \in Nat /\ cur >= 1
  BY <1>1, Numbers DEF GuessInv, Running, TypeInv, TaskType
<1>3. Running'
  BY <1>1, <1>2 DEF Running
<1>4. ASSUME ~stray' PROVE Gapless(log') /\ Slots' /\ Counting' /\ Delaying'
  <2>1. Gapless(log) /\ Slots /\ Counting /\ Delaying
    BY <1>1, <1>4 DEF GuessInv
  <2>2. Gapless(log') /\ Slots' /\ Counting'
    BY <1>1, <2>1 DEF Slots, Counting
  <2>3. Delaying'
    <3>1. ~GetFlag(log) => DelayFor(log, cur) = TableDelay(cur)
      BY <1>2 DEF DelayFor
    <3>2. TableDelay(cur) \in Nat
      BY <1>2, TableDelayType
    <3> QED BY <1>1, <1>2, <2>1, <3>1, <3>2, Numbers DEF Delaying, Pending, Full
  <2> QED BY <2>2, <2>3
<1> QED BY <1>3, <1>4 DEF GuessInv

LEMMA ClearReadSafe ==
    ASSUME TypeInv, GuessInv, ClearRead \/ ClearIndex PROVE GuessInv'
<1>1. /\ pc \in {"clear", "clear_index"}
      /\ UNCHANGED <<log, up, timer, wipeVars, guessVars, stray>>
  BY DEF ClearRead, ClearIndex
<1>2. CASE pc' = "idle"
  BY <1>1, <1>2, ReturnSafe
<1>3. CASE pc' \in {"clear_index", "clear_write"} /\ slot' \in {slot, CurrentIndex(log)} /\ cur' = cur
           /\ (pc' = "clear_write" => slot' = CurrentIndex(log))
  <2>1. Running'
    BY <1>1, <1>3 DEF GuessInv, Running
  <2>2. ASSUME ~stray' PROVE Gapless(log') /\ Slots' /\ Counting' /\ Delaying'
    <3>1. Gapless(log) /\ Slots /\ Counting /\ Delaying
      BY <1>1, <2>2 DEF GuessInv
    <3>2. Slots' /\ Counting'
      BY <1>1, <1>3, <3>1, CurrentIndexIs DEF Slots, Counting
    <3>3. Delaying'
      BY <1>1, <1>3, <3>1 DEF Delaying, Pending, Full
    <3> QED BY <1>1, <3>1, <3>2, <3>3
  <2> QED BY <2>1, <2>2 DEF GuessInv
<1> QED BY <1>2, <1>3 DEF ClearRead, ClearIndex

LEMMA ClearWriteSafe ==
    ASSUME TypeInv, GuessInv, ClearWrite PROVE GuessInv'
<1>1. /\ pc = "clear_write" /\ pc' = "idle" /\ UNCHANGED <<up, wipeVars, stray>>
      /\ slot \in 0 .. LogSize - 1
  BY DEF ClearWrite, Fault, TypeInv, TaskType
<1>2. timer' = timer /\ (~stray => slot <= Entries(log))
  <2>1. timer = 0 /\ (~stray => slot <= Entries(log))
    BY <1>1 DEF GuessInv, Running, Slots
  <2> QED BY <2>1 DEF ClearWrite
<1>3. CASE log' = log /\ UNCHANGED guessVars
  BY <1>1, <1>2, <1>3, ReturnSafe
<1>4. CASE /\ log' = Append(log, slot, ClearEntry)
           /\ IF Count(log') = 0 THEN Cleared ELSE UNCHANGED guessVars
  BY <1>1, <1>2, <1>4, ClearSafe
<1> QED BY <1>3, <1>4 DEF ClearWrite

LEMMA DelayCallbackSafe ==
    ASSUME TypeInv, GuessInv, DelayCallback PROVE GuessInv'
<1>1. /\ timer > 0 /\ timer' = 0 /\ owed' = IF timer >= owed THEN 0 ELSE owed
      /\ UNCHANGED <<up, taskVars, wipeVars, wrong, overtaken, dropped, lost, stray>>
      /\ log' = log \/ (Count(log) # 0 /\ log' = Append(log, CurrentIndex(log), FlagEntry(Count(log))))
  BY DEF DelayCallback, Fault
<1>2. pc = "idle" /\ up
  BY <1>1, Numbers DEF GuessInv, Running
<1>3. Running'
  BY <1>1, <1>2 DEF Running, GuessInv
<1>4. ASSUME ~stray' PROVE Gapless(log') /\ Slots' /\ Counting' /\ Delaying'
  <2>1. Gapless(log) /\ Slots /\ Counting /\ Delaying
    BY <1>1, <1>4 DEF GuessInv
  <2>2. /\ Gapless(log') /\ Entries(log) <= Entries(log') /\ Count(log') = Count(log)
        /\ Entries(log) = LogSize => Entries(log') = LogSize
    <3>1. CASE log' = log
      BY <2>1, <3>1, Numbers
    <3>2. CASE Count(log) # 0 /\ log' = Append(log, CurrentIndex(log), FlagEntry(Count(log)))
      <4>1. Count(log) > 0 /\ log \in Logs
        BY <3>2, Numbers DEF TypeInv, FlashType
      <4> QED BY <2>1, <3>2, <4>1, FlagAppended
    <3> QED BY <1>1, <3>1, <3>2
  <2>3. Entries(log') \in Nat
    BY EntriesIs
  <2>4. Slots'
    BY <1>1, <1>2, <2>1, <2>2, <2>3, Numbers DEF Slots
  <2>5. Counting'
    BY <1>1, <1>2, <2>1, <2>2 DEF Counting
  <2>6. ~lost' /\ owed' > 0 => Entries(log') = LogSize
    BY <1>1, <1>2, <2>1, <2>2, Numbers DEF Delaying, Pending, Full
  <2>7. Delaying'
    BY <1>1, <1>2, <2>6 DEF Delaying, Pending, Full
  <2> QED BY <2>2, <2>4, <2>5, <2>7
<1> QED BY <1>3, <1>4 DEF GuessInv

LEMMA FingerprintMatchSafe ==
    ASSUME TypeInv, GuessInv, FingerprintMatch PROVE GuessInv'
<1>1. UNCHANGED <<up, timer, taskVars, wipeVars, stray>>
  BY DEF FingerprintMatch, Fault
<1>2. CASE log' = log /\ UNCHANGED guessVars
  BY <1>1, <1>2, GuessFrame
<1>3. CASE /\ log' = Append(log, CurrentIndex(log), ClearEntry)
           /\ IF Count(log') = 0 THEN Cleared ELSE UNCHANGED guessVars
  <2>1. CurrentIndex(log) \in 0 .. LogSize - 1 /\ CurrentIndex(log) <= Entries(log)
    BY CurrentIndexIs
  <2> QED BY <1>1, <1>3, <2>1, ClearSafe
<1> QED BY <1>2, <1>3 DEF FingerprintMatch

LEMMA WipeReadSafe ==
    ASSUME TypeInv, GuessInv, WipeRead PROVE GuessInv'
<1>1. /\ wipe = "reset" /\ wipe' \in {"idle", "index"}
      /\ UNCHANGED <<log, up, timer, taskVars, guessVars, stray>>
  BY DEF WipeRead
<1>2. up
  BY <1>1 DEF GuessInv, Running
<1> QED BY <1>1, <1>2, GuessFrame

LEMMA WipeIndexSafe ==
    ASSUME TypeInv, GuessInv, WipeIndex PROVE GuessInv'
<1>1. /\ wipe = "index" /\ wipe' = "write" /\ wipeSlot' = CurrentIndex(log)
      /\ UNCHANGED <<log, up, timer, taskVars, guessVars, stray>>
  BY DEF WipeIndex
<1>2. Running'
  BY <1>1 DEF GuessInv, Running
<1>3. ASSUME ~stray' PROVE Gapless(log') /\ Slots' /\ Counting' /\ Delaying'
  <2>1. Gapless(log) /\ Slots /\ Counting /\ Delaying
    BY <1>1, <1>3 DEF GuessInv
  <2>2. Slots'
    BY <1>1, <2>1, CurrentIndexIs DEF Slots, Full
  <2>3. Counting'
    BY <1>1, <2>1 DEF Counting
  <2>4. Delaying'
    BY <1>1, <2>1 DEF Delaying, Pending, Full
  <2> QED BY <1>1, <2>1, <2>2, <2>3, <2>4
<1> QED BY <1>2, <1>3 DEF GuessInv

LEMMA WipeWriteSafe ==
    ASSUME TypeInv, GuessInv, WipeWrite PROVE GuessInv'
<1>1. /\ wipe = "write" /\ wipe' = "idle" /\ UNCHANGED <<up, timer, taskVars, stray>>
      /\ wipeSlot \in 0 .. LogSize - 1 /\ (~stray => wipeSlot <= Entries(log))
  BY DEF WipeWrite, Fault, TypeInv, WipeType, GuessInv, Slots
<1>2. CASE log' = log /\ UNCHANGED guessVars
  BY <1>1, <1>2, GuessFrame
<1>3. CASE /\ log' = Append(log, wipeSlot, ClearEntry)
           /\ IF Count(log') = 0 THEN Cleared ELSE UNCHANGED guessVars
  BY <1>1, <1>3, ClearSafe
<1> QED BY <1>2, <1>3 DEF WipeWrite

LEMMA FirmwareUpdateSafe ==
    ASSUME TypeInv, GuessInv, FirmwareUpdate PROVE GuessInv'
<1>1. /\ UNCHANGED <<up, timer, taskVars, wipeVars, wrong, overtaken, owed>>
      /\ dropped' = dropped + Count(log) /\ lost' = TRUE
  BY DEF FirmwareUpdate, Erased
<1>2. Running'
  BY <1>1 DEF GuessInv, Running
<1>3. ASSUME ~stray' PROVE Gapless(log') /\ Slots' /\ Counting' /\ Delaying'
  <2>1. \A i \in 1 .. LogSize : log'[i].kind # "entry"
    BY DEF FirmwareUpdate, Blank
  <2>2. Entries(log') = 0
    BY <2>1, EntriesUnique
  <2>3. Count(log') = 0
    BY <2>2 DEF Count
  <2>4. pc \notin {"write", "clear_write"} /\ wipe # "write" /\ ~stray
    BY <1>3 DEF FirmwareUpdate
  <2>5. Gapless(log') /\ Slots'
    BY <1>1, <2>1, <2>4 DEF Gapless, Slots
  <2>6. pc # "idle" => cur \in Nat /\ cur >= 1
    BY Numbers DEF TypeInv, TaskType
  <2>7. Counting /\ Delaying
    BY <2>4 DEF GuessInv
  <2>8. Counting'
    BY <1>1, <2>3, <2>4, <2>6, <2>7, Numbers DEF Counting
  <2>9. Delaying'
    BY <1>1, <2>3, <2>6, <2>7 DEF Delaying
  <2> QED BY <2>5, <2>8, <2>9
<1> QED BY <1>2, <1>3 DEF GuessInv

LEMMA RebootSafe ==
    ASSUME TypeInv, GuessInv, Reboot PROVE GuessInv'
<1>1. /\ up' = FALSE /\ timer' = 0 /\ pc' = "idle" /\ wipe' = "idle"
      /\ UNCHANGED <<log, guessVars, stray>>
  BY DEF Reboot
<1>2. Running'
  BY <1>1 DEF Running
<1>3. ASSUME ~stray' PROVE Gapless(log') /\ Slots' /\ Counting' /\ Delaying'
  <2>1. Gapless(log) /\ Slots /\ Counting /\ Delaying
    BY <1>1, <1>3 DEF GuessInv
  <2>2. Gapless(log') /\ Slots' /\ Counting'
    BY <1>1, <2>1 DEF Slots, Counting
  <2>3. Delaying'
    BY <1>1, <2>1 DEF Delaying, Pending, Full
  <2> QED BY <2>2, <2>3
<1> QED BY <1>2, <1>3 DEF GuessInv

LEMMA OthersSafe ==
    ASSUME TypeInv, GuessInv,
           \/ ProvisionSecret \/ SetLimitResponse \/ Deauthenticate \/ RequestWipe
           \/ WipeSecret \/ WipeResponse
    PROVE  GuessInv'
<1>1. UNCHANGED <<log, taskVars, guessVars, stray, up, timer>>
  BY DEF ProvisionSecret, SetLimitResponse, Deauthenticate, RequestWipe, WipeSecret,
         WipeResponse
<1>2. UNCHANGED wipeVars \/ (wipe' # "write" /\ up)
  BY DEF ProvisionSecret, SetLimitResponse, Deauthenticate, RequestWipe, WipeSecret,
         WipeResponse, GuessInv, Running
<1> QED BY <1>1, <1>2, GuessFrame

LEMMA InitSafe == Init => GuessInv
<1> SUFFICES ASSUME Init PROVE GuessInv
  OBVIOUS
<1>1. /\ pc = "idle" /\ timer = 0 /\ wipe = "idle" /\ wrong = 0 /\ owed = 0 /\ overtaken = 0 /\ dropped = 0
      /\ \A i \in 1 .. LogSize : log[i].kind # "entry"
  BY DEF Init, Blank
<1>2. Entries(log) = 0
  <2>1. 0 \in 0 .. LogSize /\ (\A i \in 1 .. 0 : log[i].kind = "entry")
        /\ (0 < LogSize => log[0 + 1].kind # "entry")
    BY <1>1
  <2> QED BY <2>1, EntriesUnique
<1>3. Count(log) = 0
  BY <1>2 DEF Count
<1> QED BY <1>1, <1>2, <1>3
           DEF GuessInv, Running, Gapless, Slots, Counting, Delaying, Pending

LEMMA NextSafe == TypeInv /\ GuessInv /\ [Next]_vars => GuessInv'
<1> SUFFICES ASSUME TypeInv, GuessInv, [Next]_vars PROVE GuessInv'
  OBVIOUS
<1>1. CASE AuthTask
  BY <1>1, InitAndBeginDelaySafe, CheckSecretSafe, IncrementReadSafe,
     IncrementIndexSafe, IncrementWriteSafe, IncrementVerifySafe, CompareSafe,
     WrongSecretSafe, ClearReadSafe, ClearWriteSafe, OthersSafe
     DEF AuthTask
<1>2. CASE UNCHANGED vars
  BY <1>2, GuessFrame DEF vars
<1> QED BY <1>1, <1>2, DelayCallbackSafe, FingerprintMatchSafe, WipeReadSafe,
           WipeIndexSafe, WipeWriteSafe, FirmwareUpdateSafe, RebootSafe, OthersSafe
           DEF Next

\* Steps other than the two that erase the log.
LEMMA NoEraseSafe ==
    ASSUME TypeInv, GuessInv, EraseInv, [Next]_vars, ~InitAndBeginDelay, ~FirmwareUpdate
    PROVE  EraseInv'
<1>1. UNCHANGED <<header, updates>>
  BY DEF Next, AuthTask, vars, CheckSecret, IncrementRead, IncrementIndex, IncrementWrite,
         IncrementVerify, Compare, WrongSecret, ClearRead, ClearIndex, ClearWrite,
         ProvisionSecret, SetLimitResponse, DelayCallback, FingerprintMatch,
         Deauthenticate, RequestWipe, WipeSecret, WipeResponse, WipeRead, WipeIndex,
         WipeWrite, Reboot, Fault
<1>2. CASE Reboot \/ FingerprintMatch
  <2>1. (up' => up) /\ (~up => log' = log /\ UNCHANGED guessVars)
    BY <1>2 DEF Reboot, FingerprintMatch
  <2>2. UNCHANGED guessVars \/ Cleared
    BY <1>2 DEF Reboot, FingerprintMatch
  <2> QED BY <1>1, <2>1, <2>2 DEF EraseInv, Cleared
<1>3. CASE ~(Reboot \/ FingerprintMatch)
  <2>1. up' = up
    BY <1>3
       DEF Next, AuthTask, vars, CheckSecret, IncrementRead, IncrementIndex, IncrementWrite,
           IncrementVerify, Compare, WrongSecret, ClearRead, ClearIndex, ClearWrite,
           ProvisionSecret, SetLimitResponse, DelayCallback, Deauthenticate, RequestWipe,
           WipeSecret, WipeResponse, WipeRead, WipeIndex, WipeWrite
  <2>2. \/ pc # "idle" \/ wipe # "idle" \/ timer > 0
        \/ UNCHANGED <<log, guessVars>>
    BY <1>3
       DEF Next, AuthTask, vars, CheckSecret, IncrementRead, IncrementIndex, IncrementWrite,
           IncrementVerify, Compare, WrongSecret, ClearRead, ClearIndex, ClearWrite,
           ProvisionSecret, SetLimitResponse, DelayCallback, Deauthenticate, RequestWipe,
           WipeSecret, WipeResponse, WipeRead, WipeIndex, WipeWrite
  <2>3. up \/ UNCHANGED <<log, guessVars>>
    BY <2>2 DEF GuessInv, Running
  <2>4. \/ UNCHANGED <<dropped, lost>>
        \/ Cleared
        \/ Compare
    BY <1>3
       DEF Next, AuthTask, vars, CheckSecret, IncrementRead, IncrementIndex, IncrementWrite,
           IncrementVerify, WrongSecret, ClearRead, ClearIndex, ClearWrite,
           ProvisionSecret, SetLimitResponse, DelayCallback, Deauthenticate, RequestWipe,
           WipeSecret, WipeResponse, WipeRead, WipeIndex, WipeWrite
  <2>5. Compare => dropped' = dropped /\ (lost' => lost)
    <3>1. Compare => dropped' = dropped
      BY DEF Compare
    <3>2. Compare => UNCHANGED lost \/ lost' = (lost /\ Count(log) # cur)
      BY Zenon DEF Compare
    <3>3. UNCHANGED lost \/ lost' = (lost /\ Count(log) # cur) => (lost' => lost)
      BY Zenon
    <3> QED BY <3>1, <3>2, <3>3, Zenon
  <2>6. Cleared => dropped' = 0 /\ lost' = FALSE
    BY Zenon DEF Cleared
  <2>7. dropped' > 0 => updates > 0
    BY <2>4, <2>5, <2>6 DEF EraseInv
  <2>8. lost' => updates > 0
    BY <2>4, <2>5, <2>6 DEF EraseInv
  <2> QED BY <1>1, <2>1, <2>3, <2>7, <2>8 DEF EraseInv
<1> QED BY <1>2, <1>3

LEMMA NextErase == TypeInv /\ GuessInv /\ EraseInv /\ [Next]_vars => EraseInv'
<1> SUFFICES ASSUME TypeInv, GuessInv, EraseInv, [Next]_vars PROVE EraseInv'
  OBVIOUS
<1>1. CASE InitAndBeginDelay
  <2>1. header' = TRUE /\ updates' = updates
    BY <1>1 DEF InitAndBeginDelay
  <2>2. CASE header
    <3>1. UNCHANGED guessVars
      BY <1>1, <2>2 DEF InitAndBeginDelay
    <3> QED BY <2>1, <3>1 DEF EraseInv
  <2>3. CASE ~header
    <3>1. dropped' = dropped + Count(log) /\ lost' = (lost \/ owed > 0)
      BY <1>1, <2>3 DEF InitAndBeginDelay, Erased
    <3>2. updates \in Nat
      BY UnlockBounds DEF TypeInv, BoundsType
    <3>3. dropped' > 0 => updates' > 0
      BY <2>1, <2>3, <3>1, <3>2, Numbers DEF EraseInv
    <3>4. lost' => lost \/ owed > 0
      BY <3>1, Zenon
    <3>5. lost' => updates' > 0
      BY <2>1, <2>3, <3>2, <3>4 DEF EraseInv
    <3> QED BY <2>1, <3>3, <3>5 DEF EraseInv
  <2> QED BY <2>2, <2>3
<1>2. CASE FirmwareUpdate
  <2>1. updates' > 0
    BY <1>2, UnlockBounds DEF FirmwareUpdate, TypeInv, BoundsType
  <2> QED BY <2>1 DEF EraseInv
<1> QED BY <1>1, <1>2, NoEraseSafe

LEMMA Always == Spec => [](GuessInv /\ EraseInv)
<1>1. Init => EraseInv
  <2>1. ASSUME Init PROVE Count(log) = 0
    <3>1. \A i \in 1 .. LogSize : log[i].kind # "entry"
      BY <2>1 DEF Init, Blank
    <3>2. Entries(log) = 0
      <4>1. 0 \in 0 .. LogSize /\ (\A i \in 1 .. 0 : log[i].kind = "entry")
            /\ (0 < LogSize => log[0 + 1].kind # "entry")
        BY <3>1
      <4> QED BY <4>1, EntriesUnique
    <3> QED BY <3>2 DEF Count
  <2> QED BY <2>1 DEF Init, EraseInv
<1> QED BY <1>1, InitType, InitSafe, NextType, NextSafe, NextErase, PTL DEF Spec

\* Guesses are missing from the count only by what an erase took with it, and an
\* erase takes a count only after a firmware update was started:
\* retry_counter_write puts the new count into flash and reads it back before the
\* secret is compared, whatever restarts, failing writes, fingerprint matches,
\* wipes and served delays come in between (one less for a clear between the write
\* and the comparison).
THEOREM GuessesLostOnlyByErase == Spec => []GuessesCounted
<1>1. GuessInv /\ EraseInv => GuessesCounted
  BY DEF GuessInv, EraseInv, Counting, GuessesCounted
<1> QED BY <1>1, Always, PTL

\* A secret is compared only after the delay of the wrong guess before it was
\* served in full, unless the log that recorded it was erased since: begin_delay
\* starts it again after a restart for as long as delay_callback has not marked it
\* in the log, and a log without room for the mark has none for the next guess.
THEOREM DelaysLostOnlyByErase == Spec => []DelayWaitedOut
<1>1. GuessInv /\ EraseInv => DelayWaitedOut
  BY DEF GuessInv, EraseInv, Delaying, DelayWaitedOut
<1> QED BY <1>1, Always, PTL

=============================================================================
