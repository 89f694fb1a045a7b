-------------------------------- MODULE Heap --------------------------------
(***************************************************************************)
(* The walk over the tag stream of a front panel or block diagram heap     *)
(* (internal/codecs/heap, Walk).  The stream is a list of entries, each of *)
(* which opens a scope, closes one or is a leaf; the walk attaches every   *)
(* entry to the scope it stands in and yields a flat list and a tree.      *)
(* The two scope bits have a fourth value, which the code treats as a leaf *)
(* everywhere (scopeString), and so does the model.                        *)
(* What an entry holds besides its scope is the reader's business (module  *)
(* Wires).  Positions count from one, and 0 stands for the code's nil      *)
(* parent.                                                                 *)
(***************************************************************************)
EXTENDS Naturals, Sequences, FiniteSets

CONSTANTS Entries, \* decoded entries
          Broken,  \* an entry that does not decode: cut off, or of size class 5
          Streams  \* the streams to walk

ASSUME EntriesAssumption == \A e \in Entries : e.scope \in {"open", "leaf", "close"}
ASSUME StreamsAssumption == Streams \subseteq Seq(Entries \cup {Broken})

VARIABLES
  stream,  \* what is being walked
  flat,    \* the entries walked so far
  up,      \* of each, the entry it is attached to
  down,    \* of each, its children
  roots,   \* the entries attached to none
  cur,     \* the entry whose scope the walk is in (the code's parent)
  status   \* "walking", "done" or "failed"

vars == << stream, flat, up, down, roots, cur, status >>

Init ==
  /\ stream \in Streams
  /\ flat = << >> /\ up = << >> /\ down = << >> /\ roots = << >>
  /\ cur = 0
  /\ status = "walking"

Upcoming == stream[Len(flat) + 1]

\* Mutant of Above: the scope is never left.
StaysInside(e) == cur

\* A closing entry leaves the scope before it is attached, so it stands beside
\* the entry it closes; with no scope open it is an ordinary root.
Above(e) == IF e.scope = "close" /\ cur # 0 THEN up[cur] ELSE cur

\* Mutant of Attach: attached to the scope the walk was in, not the one it is in now.
AttachEarly(n, p) ==
  /\ down' = Append([i \in 1 .. Len(down) |->
                       IF i = cur THEN Append(down[i], n) ELSE down[i]], << >>)
  /\ roots' = IF p = 0 THEN Append(roots, n) ELSE roots

\* The node n is attached to p.
Attach(n, p) ==
  /\ down' = Append([i \in 1 .. Len(down) |->
                       IF i = p THEN Append(down[i], n) ELSE down[i]], << >>)
  /\ roots' = IF p = 0 THEN Append(roots, n) ELSE roots

Entry ==
  /\ status = "walking" /\ Len(flat) < Len(stream)
  /\ Upcoming # Broken
  /\ flat' = Append(flat, Upcoming)
  /\ up' = Append(up, Above(Upcoming))
  /\ Attach(Len(flat) + 1, Above(Upcoming))
  /\ cur' = IF Upcoming.scope = "open" THEN Len(flat) + 1 ELSE Above(Upcoming)
  /\ UNCHANGED << stream, status >>

\* One bad entry, and nothing of the tree is returned.
Fail ==
  /\ status = "walking" /\ Len(flat) < Len(stream)
  /\ Upcoming = Broken
  /\ status' = "failed"
  /\ flat' = << >> /\ up' = << >> /\ down' = << >> /\ roots' = << >> /\ cur' = 0
  /\ UNCHANGED stream

\* Scopes that are still open are no error.
Finish ==
  /\ status = "walking" /\ Len(flat) = Len(stream)
  /\ status' = "done"
  /\ UNCHANGED << stream, flat, up, down, roots, cur >>

Next == Entry \/ Fail \/ Finish

Spec == Init /\ [][Next]_vars

-----------------------------------------------------------------------------
(* What the walk guarantees. *)

Indices == 1 .. Len(flat)

Scoped(s, i, j) == {k \in i .. j : flat[k].scope = s}

\* Entry j is an open scope when entry i is attached: up to i nothing closed it.
Encloses(j, i) ==
  /\ j < i /\ flat[j].scope = "open"
  /\ \A k \in j + 1 .. i :
       Cardinality(Scoped("close", j + 1, k)) <= Cardinality(Scoped("open", j + 1, k))

\* The tree is the nesting of the brackets in the stream: every entry is attached
\* to the innermost scope that is open at its place.  Closing entries with
\* nothing to close change nothing for what comes after them.
TreeIsNesting ==
  \A i \in Indices :
    LET around == {j \in Indices : Encloses(j, i)}
    IN  IF around = {} THEN up[i] = 0
        ELSE up[i] \in around /\ \A j \in around : j <= up[i]

\* Parents, children and roots say the same, and each list is in stream order:
\* an entry is in exactly one list, that of its parent or that of the roots.
LinksAgree ==
  /\ Len(up) = Len(flat) /\ Len(down) = Len(flat)
  /\ \A i \in Indices :
       /\ up[i] < i
       /\ up[i] # 0 => flat[up[i]].scope = "open"
  /\ \A p \in Indices, i \in Indices :
       up[i] = p <=> \E c \in 1 .. Len(down[p]) : down[p][c] = i
  /\ \A i \in Indices : up[i] = 0 <=> \E c \in 1 .. Len(roots) : roots[c] = i
  /\ \A p \in Indices : \A c, d \in 1 .. Len(down[p]) : c < d => down[p][c] < down[p][d]
  /\ \A c, d \in 1 .. Len(roots) : c < d => roots[c] < roots[d]

=============================================================================
