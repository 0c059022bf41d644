------------------------------- MODULE IndexFs -------------------------------
(***************************************************************************)
(* The monotonic index file system (firmware/lib/indexfs): a counter with  *)
(* a flag, kept as a log of one-word entries that are only ever appended   *)
(* to flash.  Programming a flash word can clear bits and never sets one,  *)
(* so an append to a word that is not erased leaves the AND of both.       *)
(*                                                                         *)
(* A log is a function on 1 .. LogSize, the words after the three of the   *)
(* header that the scans look at.                                          *)
(***************************************************************************)
EXTENDS Integers, FiniteSets

CONSTANTS
    LogSize,    \* words scanned: fs->size is in bytes, the scans count words
    PageSize,   \* of these, the words in the page that indexfs_create erases
    MaxCount    \* UINT16_MAX, here at most 15: four bits of a count are kept

ASSUME LogAssumption ==
    /\ LogSize \in Nat /\ LogSize > 1
    /\ PageSize \in 1 .. LogSize
    /\ MaxCount \in 1 .. 15

\* A word is erased, an entry, or of a firmware image: an image word is taken not
\* to turn into an entry when one is programmed over it.  done is DELAY_COMPLETE
\* in the flags, clear is CLEAR_TRUE; the count of a cleared entry is never read.
Word == [kind : {"erased", "entry", "image"}, count : 0 .. MaxCount,
         clear : BOOLEAN, done : BOOLEAN]

Blank(kind) == [kind |-> kind, count |-> 0, clear |-> FALSE, done |-> FALSE]

Entry(count, clear, done) ==
    [kind |-> "entry", count |-> count, clear |-> clear, done |-> done]

\* The bit of x that weighs w.
Bit(x, w) == (x \div w) % 2

\* Bitwise AND of two counts.
BitAnd(x, y) == Bit(x, 1) * Bit(y, 1) + 2 * Bit(x, 2) * Bit(y, 2)
                    + 4 * Bit(x, 4) * Bit(y, 4) + 8 * Bit(x, 8) * Bit(y, 8)

\* mcu_flash_write_word of the entry e over the word w.
Program(w, e) ==
    CASE w.kind = "erased" -> e
      [] w.kind = "image"  -> w
      [] w.kind = "entry"  -> Entry(BitAnd(w.count, e.count), w.clear \/ e.clear,
                                    w.done \/ e.done)

\* How many entries there are before the first word that is none.
Entries(log) ==
    Cardinality({k \in 1 .. LogSize : \A i \in 1 .. k : log[i].kind = "entry"})

\* Mutant: a full log is not noticed.
CurrentIndexUnbounded(log) == Entries(log)

\* current_index: where the next entry goes, 0 when there is no room left.
CurrentIndex(log) == IF Entries(log) = LogSize THEN 0 ELSE Entries(log)

\* indexfs_count.
Count(log) ==
    IF Entries(log) = 0 \/ log[Entries(log)].clear THEN 0
    ELSE log[Entries(log)].count

\* indexfs_get_flag: DELAY_COMPLETE also when the log is empty or full.
GetFlag(log) == IF CurrentIndex(log) < 1 THEN TRUE ELSE log[CurrentIndex(log)].done

Append(log, index, entry) ==
    [log EXCEPT ![index + 1] = Program(@, entry)]

\* What indexfs_increment, indexfs_clear and indexfs_set_flag append: clear copies
\* the flags and set_flag the clear field of the word they write to, which
\* programming keeps anyway.
IncrementEntry(count) == Entry(count + 1, FALSE, FALSE)
ClearEntry == Entry(0, TRUE, FALSE)
FlagEntry(count) == Entry(count, FALSE, TRUE)

\* indexfs_create: a log without the header is erased, its first page only.
Create(log, header) ==
    IF header THEN log
    ELSE [i \in 1 .. LogSize |-> IF i <= PageSize THEN Blank("erased") ELSE log[i]]
==============================================================================
