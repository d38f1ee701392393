------------------------------ MODULE Replier ------------------------------
(***************************************************************************)
(* The replier buffer of the accountant (src/src/accountant/replier.go).   *)
(* A vertex whose parent is not in the DAG yet is memorised in `members';  *)
(* a ticker goroutine publishes one memory per tick on the channel `pub',  *)
(* from which the leaf subscriber of the accounting book replays it.       *)
(*                                                                         *)
(* `members' is a plain slice.  insert runs under the lock of the          *)
(* accounting book, getNext runs in the ticker goroutine without it, so    *)
(* the two may overlap.                                                    *)
(***************************************************************************)
EXTENDS Integers, Sequences, FiniteSetsExt, Functions

CONSTANTS
  Vertex,         \* hashes of vertices
  CreatedAt,      \* creation time of the vertex with a given hash
  MaxArraySize,   \* maxArraySize, capacity of members and of pub
  MaxRepeats      \* maxRepeats, how often a memory may be memorised again

ASSUME ReplierAssumption ==
  /\ MaxArraySize \in Nat \ {0}
  /\ MaxRepeats \in Nat
  /\ CreatedAt \in [Vertex -> Nat]

VARIABLES
  members,   \* the memories waiting for a tick
  pub        \* the published memories not consumed yet; the memory a blocked
             \* ticker holds in its hand counts as the last one

replierVars == <<members, pub>>

(* The last member of a sequence, and all the others. *)
Last(s) == s[Len(s)]
Front(s) == SubSeq(s, 1, Len(s) - 1)

Memory == [vrx : Vertex, repeated : 0..(MaxRepeats + 1)]

newMemory(v) == [vrx |-> v, repeated |-> 0]

ReplierTypeOK ==
  /\ members \in Seq(Memory)
  /\ Len(members) <= MaxArraySize
  /\ pub \in Seq(Memory)
  /\ Len(pub) <= MaxArraySize + 1

ReplierInit == members = <<>> /\ pub = <<>>

-----------------------------------------------------------------------------

(* The comparison function of the sort: both sides read the creation time  *)
(* of the same memory, so no memory is ever before another one.            *)
Before(a, b) == CreatedAt[a.vrx] < CreatedAt[a.vrx]

(* Index of the memory a stable sort of ms puts first. *)
FirstIndex(ms) ==
  Min({i \in DOMAIN ms : \A j \in DOMAIN ms : ~ Before(ms[j], ms[i])})

Without(ms, i) == SubSeq(ms, 1, i - 1) \o SubSeq(ms, i + 1, Len(ms))

CanPublish == members # <<>> /\ Len(pub) <= MaxArraySize

Published == Append(pub, members[FirstIndex(members)])

(* One tick of run: getNext and the send on pub. *)
Tick ==
  /\ CanPublish
  /\ pub' = Published
  /\ members' = Without(members, FirstIndex(members))

\* Mutant of CanInsert: the size of the buffer is not looked at.
CanInsertUnbounded(m) == m.repeated <= MaxRepeats

CanInsert(m) == Len(members) < MaxArraySize /\ m.repeated <= MaxRepeats

Again(m) == [m EXCEPT !.repeated = @ + 1]

(* insert, when no tick overlaps with it. *)
InsertAlone(m) ==
  /\ CanInsert(m)
  /\ members' = Append(members, Again(m))
  /\ UNCHANGED pub

(* insert overlaps with a tick.  Both read the slice before either writes   *)
(* it back, and its start and its length are separate words: the writes of  *)
(* insert may win, so that the published memory stays; those of the tick,   *)
(* so that the inserted memory is lost; or one word of each.                *)
InsertRacesTick(m) ==
  /\ CanInsert(m)
  /\ CanPublish
  /\ pub' = Published
  /\ members' \in {Append(members, Again(m)),
                   Without(members, FirstIndex(members)),
                   Append(Without(members, FirstIndex(members)), Again(m)),
                   Front(members)}

Insert(m) == InsertAlone(m) \/ InsertRacesTick(m)

=============================================================================
