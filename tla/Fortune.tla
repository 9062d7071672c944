------------------------------ MODULE Fortune -------------------------------
(***************************************************************************)
(* The fortune file (lab-module/task-03/fortune.c): a pot of cookies, each *)
(* ended by a null byte, that writes fill and reads go round, one string   *)
(* per open.  A write may hold any bytes, null bytes in the middle too: it *)
(* is then read in as many pieces as it has null bytes.                    *)
(*                                                                         *)
(* The file can be used from proc_create on, that is before md_init sets   *)
(* the indices to 0 a last time.  Calls on the file are one step each: the *)
(* module has no lock, and nothing is said of calls that overlap.          *)
(* remove_proc_entry (external) lets no new call in and waits for the ones *)
(* under way.  A store outside the pot (Oops) ends the model.              *)
(***************************************************************************)
EXTENDS Naturals, SequencesExt

CONSTANTS
    SIZE,      \* COOKIE_POT_SIZE
    Letters    \* the bytes other than 0

FortuneAssumption == SIZE \in Nat \ {0} /\ Letters \subseteq Nat \ {0}

Bytes == Letters \cup {0}

VARIABLES
    module,     \* the calls md_init has made, or Unloaded or Failed
    entries,    \* what the module has in /proc and in memory
    cookiePot,  \* the bytes, 0 being the null byte
    readInd, writeInd,
    oops,       \* a store outside the pot
    written,    \* history: all that writes have put into the pot, one after the other
    heard,      \* history: all that reads have returned in the present round
    got         \* history: what the last read returned

vars == <<module, entries, cookiePot, readInd, writeInd, oops, written, heard, got>>
calls == <<cookiePot, readInd, writeInd, oops, written, heard, got>>

Steps == <<"pot", "file", "dir", "link">>
Unloaded == 5
Failed == 6

TypeOK ==
    /\ module \in 0 .. Len(Steps) \cup {Unloaded, Failed}
    /\ entries \subseteq ToSet(Steps)
    /\ cookiePot \in [1 .. SIZE -> Bytes]
    /\ readInd \in 0 .. SIZE /\ writeInd \in 0 .. SIZE
    /\ oops \in BOOLEAN
    /\ written \in Seq(Bytes) /\ heard \in Seq(Bytes) /\ got \in Seq(Bytes)

Init ==
    /\ module = 0
    /\ entries = {}
    /\ cookiePot = [k \in 1 .. SIZE |-> 0]
    /\ readInd = 0 /\ writeInd = 0
    /\ oops = FALSE
    /\ written = <<>> /\ heard = <<>> /\ got = <<>>

-----------------------------------------------------------------------------
(* md_init and md_exit *)

\* vmalloc, proc_create, proc_mkdir, proc_symlink.
LoadStep ==
    /\ ~oops /\ module < Len(Steps)
    /\ module' = module + 1
    /\ entries' = entries \cup {Steps[module + 1]}
    /\ IF module + 1 = Len(Steps)
       THEN readInd' = 0 /\ writeInd' = 0 /\ written' = <<>> /\ heard' = <<>>
       ELSE UNCHANGED <<readInd, writeInd, written, heard>>
    /\ UNCHANGED <<cookiePot, oops, got>>

freeMemory == entries' = entries \ {"file", "dir", "link", "pot"}

LoadFails ==
    /\ ~oops /\ module < Len(Steps)
    /\ module' = Failed
    /\ freeMemory
    /\ UNCHANGED calls

md_exit ==
    /\ ~oops /\ module = Len(Steps)
    /\ module' = Unloaded
    /\ freeMemory
    /\ UNCHANGED calls

-----------------------------------------------------------------------------
(* fortuneWrite *)

Usable == ~oops /\ "file" \in entries

\* A write that passes the length check: one byte more than there is room for.
Accepted(len) == len <= SIZE - writeInd + 1

\* The last byte of a write becomes the null byte.
Cookie(bytes) == [bytes EXCEPT ![Len(bytes)] = 0]

\* The pot with the bytes at the write index.
Filled(bytes) ==
    [k \in 1 .. SIZE |-> IF k \in writeInd + 1 .. writeInd + Len(bytes)
                         THEN bytes[k - writeInd] ELSE cookiePot[k]]

fortuneWrite(bytes) ==
    /\ Usable /\ Len(bytes) > 0
    /\ Accepted(Len(bytes)) /\ writeInd + Len(bytes) <= SIZE
    /\ cookiePot' = Filled(Cookie(bytes))
    /\ writeInd' = writeInd + Len(bytes)
    /\ written' = written \o Cookie(bytes)
    /\ UNCHANGED <<module, entries, readInd, oops, heard, got>>

\* copy_from_user fails: it has copied a part and filled up the rest with zeros, and the
\* write index stays.
WriteFails(bytes) ==
    /\ Usable
    /\ Accepted(Len(bytes)) /\ writeInd + Len(bytes) <= SIZE
    /\ cookiePot' = Filled(bytes)
    /\ UNCHANGED <<module, entries, readInd, writeInd, oops, written, heard, got>>

\* The byte too many, and the null byte of an empty first write, which goes to the
\* byte before the pot.
WriteOutside(len) ==
    /\ Usable /\ Accepted(len)
    /\ writeInd + len > SIZE \/ writeInd + len = 0
    /\ oops' = TRUE
    /\ UNCHANGED <<module, entries, cookiePot, readInd, writeInd, written, heard, got>>

-----------------------------------------------------------------------------
(* fortuneRead *)

\* The index a read starts at.
ReadStart == IF readInd >= writeInd THEN 0 ELSE readInd

\* "%s\n": the bytes up to a null byte; the line end counts for the null byte.
StringAt(from) ==
    LET ends == {k \in from + 1 .. SIZE : cookiePot[k] = 0}
        end  == CHOOSE k \in ends : \A j \in ends : k <= j
    IN  SubSeq(cookiePot, from + 1, end)

\* A slip: the line end is not counted.
AdvanceShort(str) == readInd' = ReadStart + Len(str) - 1

\* A slip: the line end and the null byte are both counted.
AdvanceLong(str) == readInd' = ReadStart + Len(str) + 1

Advance(str) == readInd' = ReadStart + Len(str)

\* What this round has returned so far: nothing, if the last read ended one.
Round == IF heard = written THEN <<>> ELSE heard

fortuneRead ==
    /\ Usable /\ writeInd > 0
    /\ Advance(StringAt(ReadStart))
    /\ got' = StringAt(ReadStart)
    /\ heard' = Round \o got'
    /\ UNCHANGED <<module, entries, cookiePot, writeInd, oops, written>>

\* copy_to_user fails: only the return to the first cookie has happened.
ReadFails ==
    /\ Usable /\ writeInd > 0
    /\ readInd' = ReadStart
    /\ heard' = Round
    /\ UNCHANGED <<module, entries, cookiePot, writeInd, oops, written, got>>

Next ==
    \/ LoadStep \/ LoadFails \/ md_exit
    \/ fortuneRead \/ ReadFails
    \/ \E len \in 0 .. SIZE + 1 :
          \/ WriteOutside(len)
          \/ \E bytes \in [1 .. len -> Bytes] : fortuneWrite(bytes) \/ WriteFails(bytes)

Spec == Init /\ [][Next]_vars

-----------------------------------------------------------------------------
(* Properties *)

\* Reads go round the pot: put one after the other, what the reads of a round have
\* returned is the beginning of what was written, whatever bytes that is and whatever
\* writes, failed copies and the late reset of md_init come in between; each read
\* returns one string with its null byte, and the index stands behind a null byte.
ReadsWholeCookie ==
    /\ IsPrefix(heard, written)
    /\ \A k \in 1 .. Len(got) : got[k] = 0 <=> k = Len(got)
    /\ readInd > 0 => cookiePot[readInd] = 0

\* A module that is not loaded, or could not be, has nothing left behind.
NothingLeftBehind == module \in {0, Unloaded, Failed} => entries = {}
=============================================================================
