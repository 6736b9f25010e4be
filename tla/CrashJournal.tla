---------------------------- MODULE CrashJournal ----------------------------
(***************************************************************************)
(* The request journal of crash_buffer.rs: a ring of bytes in a mapped     *)
(* file, with the write offset in its header.  write_line copies a line    *)
(* piece by piece and moves the offset last, so a process that is killed   *)
(* meanwhile leaves a torn line behind an old offset; a full ring lets a   *)
(* new line overwrite the oldest ones, mid-line where lengths do not       *)
(* divide the ring.                                                        *)
(*                                                                         *)
(* A cell of the ring stands for a run of bytes: the five fields of        *)
(* JournalEntry::to_line, with the id cut in two because a torn write can  *)
(* stop inside it.  The last cell, the flag, ends the line.  A process     *)
(* that is killed has stored its pieces in program order (MmapMut maps the *)
(* file shared).                                                           *)
(***************************************************************************)
EXTENDS Integers, FiniteSets, Sequences, SequencesExt

CONSTANTS
    Ids,        \* request ids
    RingSize,   \* cells of the ring (capacity - HEADER_SIZE)
    MaxLines    \* bound: lines written in a behaviour

J == 1
IdHigh == 2
IdLow == 3
Meta == 4     \* timestamp and mapping_count
Flag == 5     \* completed, and the newline
Width == 5

ASSUME JournalAssumption ==
    /\ RingSize \in Nat /\ RingSize >= Width
    /\ MaxLines \in Nat

VARIABLES
    ring,      \* the mapped bytes behind the header
    offset,    \* the header: where the next line goes
    writing,   \* the line a writer holds the mutex for: <<>>, or <<entry>>
    copied,    \* how many of its cells are in the ring
    begun,     \* requests that have written a start entry, or begun to
    live,      \* those of them that run in this process
    written,   \* history: the entries whose write_line returned
    torn,      \* history: the entries cut off by a crash since the last of them
    up,        \* the process runs
    found      \* what read_incomplete returned at the last start

vars == <<ring, offset, writing, copied, begun, live, written, torn, up, found>>

Entries == [id : Ids, completed : BOOLEAN]
Cells   == [field : 1..Width, entry : Entries]
NUL     == [field |-> 0]

TypeOK ==
    /\ ring \in [0..RingSize - 1 -> Cells \cup {NUL}]
    /\ offset \in 0..RingSize - 1
    /\ writing \in {<<>>} \cup {<<e>> : e \in Entries}
    /\ copied \in 0..Width
    /\ live \subseteq begun /\ begun \subseteq Ids
    /\ written \in Seq(Entries)
    /\ torn \subseteq Entries
    /\ up \in BOOLEAN
    /\ found \subseteq Ids \X Ids

Init ==
    /\ ring = [i \in 0..RingSize - 1 |-> NUL]
    /\ offset = 0
    /\ writing = <<>>
    /\ copied = 0
    /\ begun = {}
    /\ live = {}
    /\ written = <<>>
    /\ torn = {}
    /\ up = TRUE
    /\ found = {}

-----------------------------------------------------------------------------
(* read_contents and read_incomplete.                                      *)

\* The ring from the oldest byte on, without the NULs at its two ends.
Trimmed(s) ==
    LET inked == {i \in DOMAIN s : s[i] # NUL}
    IN  IF inked = {} THEN <<>>
        ELSE SubSeq(s, CHOOSE i \in inked : \A k \in inked : i <= k,
                       CHOOSE i \in inked : \A k \in inked : i >= k)

\* Mutant: the ring is read from its first byte, not from the oldest one.
ContentsUnrotated == Trimmed([i \in 1..RingSize |-> ring[i - 1]])

Contents ==
    Trimmed([i \in 1..RingSize |-> ring[(offset + i - 1) % RingSize]])

(* from_line on the line that ends at cell i: five fields in order, and    *)
(* nothing else since the newline before.  Nothing ties the fields to one  *)
(* another.                                                                *)
Parses(s, i) ==
    /\ i >= Width
    /\ \A k \in 1..Width : s[i - Width + k].field = k
    /\ i > Width => s[i - Width].field = Flag

ParsedId(s, i) == <<s[i - Flag + IdHigh].entry.id, s[i - Flag + IdLow].entry.id>>

LinesWith(s, done) ==
    {ParsedId(s, i) : i \in {k \in DOMAIN s :
        Parses(s, k) /\ s[k].entry.completed = done}}

ReadIncomplete == LinesWith(Contents, FALSE) \ LinesWith(Contents, TRUE)

-----------------------------------------------------------------------------
\* Mutant: the offset is not wrapped.
BehindUnwrapped == offset + Width

(* Where the header points once the line is in the ring.                   *)
Behind == (offset + Width) % RingSize

(* write_line takes the mutex and reads the offset.                        *)
Lock(e) ==
    /\ up
    /\ writing = <<>>
    /\ Len(written) < MaxLines
    /\ writing' = <<e>>
    /\ copied' = 0
    /\ UNCHANGED <<ring, offset, written, torn, up, found>>

(* The start entry of a request, before it is forwarded.                   *)
WriteStart(r) ==
    /\ r \notin begun
    /\ Lock([id |-> r, completed |-> FALSE])
    /\ begun' = begun \cup {r}
    /\ live' = live \cup {r}

(* A completion entry of a request of this process.  A stream that goes on *)
(* after [DONE] writes it again.                                           *)
WriteCompletion(r) ==
    /\ r \in live
    /\ Lock([id |-> r, completed |-> TRUE])
    /\ UNCHANGED <<begun, live>>

(* One piece of copy_from_slice, wrapping at the end of the ring.          *)
CopyCell ==
    /\ writing # <<>>
    /\ copied < Width
    /\ ring' = [ring EXCEPT ![(offset + copied) % RingSize] =
                  [field |-> copied + 1, entry |-> writing[1]]]
    /\ copied' = copied + 1
    /\ UNCHANGED <<offset, writing, begun, live, written, torn, up, found>>

(* The header is moved behind the line and the mutex released.             *)
MoveOffset ==
    /\ writing # <<>>
    /\ copied = Width
    /\ offset' = Behind
    /\ written' = Append(written, writing[1])
    /\ torn' = {}
    /\ writing' = <<>>
    /\ copied' = 0
    /\ UNCHANGED <<ring, begun, live, up, found>>

(* SIGKILL: the mapped bytes stay as they are.                             *)
Crash ==
    /\ up
    /\ up' = FALSE
    /\ torn' = torn \cup ToSet(writing)
    /\ writing' = <<>>
    /\ copied' = 0
    /\ live' = {}
    /\ UNCHANGED <<ring, offset, begun, written, found>>

(* The next start opens the file as it is and reads it.                    *)
Reopen ==
    /\ ~up
    /\ up' = TRUE
    /\ found' = ReadIncomplete
    /\ UNCHANGED <<ring, offset, writing, copied, begun, live, written, torn>>

Next ==
    \/ \E r \in Ids : WriteStart(r) \/ WriteCompletion(r)
    \/ CopyCell
    \/ MoveOffset
    \/ Crash
    \/ Reopen

Spec == Init /\ [][Next]_vars
-----------------------------------------------------------------------------
Restart == ~up /\ up'

Start(r)      == [id |-> r, completed |-> FALSE]
Completion(r) == [id |-> r, completed |-> TRUE]

(* A request whose completion entry was written is not reported at the     *)
(* next start, however often the ring has wrapped (crash-recovery.md:214   *)
(* tells operators to expect it): its start entry is the older one and is  *)
(* overwritten first.  The exception is a request that was writing when    *)
(* the process died, a stream that completed before and flushed again: the *)
(* torn entry may join with the rest of an old start entry.                *)
NoFalseAccusation ==
    \A r \in Ids :
        Completion(r) \in ToSet(written) /\ {Start(r), Completion(r)} \cap torn = {}
        => <<r, r>> \notin found'

(* The lines behind the first that a tear does not reach: the torn line    *)
(* takes the room of one, and its end that of the one behind it.           *)
Safe(p) == p > 1 /\ (Len(written) - p + 2) * Width <= RingSize

Lost(r) == Start(r) \in ToSet(written) /\ Completion(r) \notin ToSet(written) \cup torn

(* Every request that was under way is reported at the next start, while   *)
(* the ring has room for its entry and one more line.                      *)
RecentLossIsFound ==
    \A r \in Ids :
        Lost(r) /\ (\E p \in DOMAIN written : written[p] = Start(r) /\ Safe(p))
        => <<r, r>> \in found'

(* What a restart tells of the requests before it, together.               *)
RestartReportIsTrue == [][Restart => NoFalseAccusation /\ RecentLossIsFound]_vars

(* crash-recovery.md:146: "A crash between these two lines leaves only the *)
(* start entry - this is an incomplete entry", of which every start warns. *)
(* In a ring that has not even wrapped, a torn line hides the first entry. *)
EveryLossIsFound ==
    [][Restart => \A r \in Ids :
           Lost(r) /\ Len(written) * Width <= RingSize => <<r, r>> \in found']_vars
=============================================================================
