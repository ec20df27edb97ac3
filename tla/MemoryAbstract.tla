--------------------------- MODULE MemoryAbstract ---------------------------
(***************************************************************************)
(* What the memory layer promises its caller (spec sections 4.3 and 4.4),  *)
(* with contexts, kinds, threads and the driver left out.  A memory object *)
(* is allocated with a positive element count and unwritten contents,      *)
(* written as a whole, filled by a copy from another object of the same    *)
(* element count, and released.  Each operation is one atomic assignment   *)
(* to the contents of one object, and no other object changes.             *)
(***************************************************************************)
EXTENDS Naturals

CONSTANTS
  Objs,      \* memory objects
  Values,    \* contents an object can be written with
  Uninit,    \* contents of an object allocated and never written
  Absent,    \* contents of an object that does not exist
  MaxLen     \* largest element count

VARIABLES
  contents,  \* [Objs -> Values \cup {Uninit, Absent}]
  size       \* [Objs -> 0..MaxLen]: element count, 0 when absent

absvars == <<contents, size>>

Exists(o) == contents[o] # Absent

(* The objects present at the start hold written contents.                 *)
Init ==
  /\ contents \in [Objs -> Values \cup {Absent}]
  /\ size \in [Objs -> 0..MaxLen]
  /\ \A o \in Objs : Exists(o) <=> size[o] # 0

Alloc(o, n) ==
  /\ ~Exists(o) /\ n \in 1..MaxLen
  /\ contents' = [contents EXCEPT ![o] = Uninit]
  /\ size' = [size EXCEPT ![o] = n]

Write(o, v) ==
  /\ Exists(o) /\ v \in Values
  /\ contents' = [contents EXCEPT ![o] = v]
  /\ UNCHANGED size

Copy(d, s) ==
  /\ d # s /\ Exists(d) /\ Exists(s) /\ size[d] = size[s]
  /\ contents' = [contents EXCEPT ![d] = contents[s]]
  /\ UNCHANGED size

Free(o) ==
  /\ Exists(o)
  /\ contents' = [contents EXCEPT ![o] = Absent]
  /\ size' = [size EXCEPT ![o] = 0]

Next ==
  \/ \E o \in Objs, n \in 1..MaxLen : Alloc(o, n)
  \/ \E o \in Objs, v \in Values : Write(o, v)
  \/ \E d, s \in Objs : Copy(d, s)
  \/ \E o \in Objs : Free(o)

Spec == Init /\ [][Next]_absvars

=============================================================================
