-------------------------------- MODULE Cli ---------------------------------
(***************************************************************************)
(* The commands of cmd/lvrsrc that write a file: rewrite, set-meta and     *)
(* repair, one after the other on the same directory.  A command opens its *)
(* input, works in memory, truncates its output and fills it, and may be   *)
(* killed or fail to write between any two of these steps.  Its output may *)
(* be its input.                                                           *)
(***************************************************************************)
EXTENDS Repair

CONSTANTS
  Paths,
  InitFiles, \* what the paths may hold at first
  Commands,  \* the commands that may be given
  MaxTail,   \* bound on the bytes behind the section table
  NoFile     \* nothing in memory

\* A path without a file, and a truncated file: its header, if there, points
\* behind its end.  In an image the header is a natural number.
Absent == [hdr |-> -1]
Torn == [hdr |-> -2]

Verbs == {"rewrite", "set-meta", "repair"}

\* Only set-meta has flags for edits, for one description and for one name.
ASSUME CommandsAssumption ==
  \A c \in Commands :
    /\ c.verb \in Verbs /\ c.in \in Paths /\ c.out \in Paths
    /\ c.verb # "set-meta" => c.descs = {} /\ c.names = {}
    /\ c.descs \subseteq Description /\ \A d, e \in c.descs : d = e
    /\ c.names \subseteq Seq(Byte) /\ \A m, n \in c.names : m = n

IsDirectory(F) ==
  /\ F = [p \in Paths |-> F[p]]
  /\ \A p \in Paths :
       F[p] \notin {Absent, Torn} => IsImage(F[p]) /\ SpareIsFree(F[p])

ASSUME InitFilesAssumption == \A F \in InitFiles : IsDirectory(F)

VARIABLES
  fs,     \* path -> image, Torn or Absent
  cmd,    \* the command that runs, or the last one
  pc,     \* the step it is at, "exited" when it has ended
  mem,    \* the file in memory
  exit,   \* "ok", or where the command failed
  before  \* fs when the command started

vars == << fs, cmd, pc, mem, exit, before >>

Init ==
  /\ fs \in InitFiles
  /\ before = fs
  /\ cmd \in Commands
  /\ pc = "open"
  /\ mem = NoFile
  /\ exit = "ok"

Start(c) ==
  /\ pc = "exited"
  /\ cmd' = c /\ pc' = "open" /\ exit' = "ok" /\ before' = fs
  /\ UNCHANGED << fs, mem >>

Exit(status) ==
  /\ pc' = "exited" /\ exit' = status /\ mem' = NoFile
  /\ UNCHANGED << cmd, before >>

Goto(step, f) ==
  /\ pc' = step /\ mem' = f
  /\ UNCHANGED << cmd, before, exit >>

Fill(content) == fs' = [fs EXCEPT ![cmd.out] = content]

-----------------------------------------------------------------------------
(***************************************************************************)
(* lvrsrc.Open on the input.                                               *)
(***************************************************************************)

OpenFails(path, strict) ==
  fs[path] \notin {Absent, Torn} => ParseFails(fs[path], strict)

FirstStep ==
  CASE cmd.verb = "rewrite"  -> "create"
    [] cmd.verb = "set-meta" -> "describe"
    [] cmd.verb = "repair"   -> "mend"

\* repair opens leniently whatever --strict says.
OpenInput ==
  /\ pc = "open"
  /\ UNCHANGED fs
  /\ LET strict == cmd.verb # "repair" /\ cmd.strict
     IN  \/ OpenFails(cmd.in, strict) /\ Exit("open")
         \/ ~OpenFails(cmd.in, strict) /\ Goto(FirstStep, Parse(fs[cmd.in]))

-----------------------------------------------------------------------------
(***************************************************************************)
(* rewrite: the output is created before the file is serialized, and an    *)
(* error of closing it is dropped.                                         *)
(***************************************************************************)

Create ==
  /\ pc = "create"
  /\ \/ UNCHANGED fs /\ Exit("create")
     \/ Fill(Torn) /\ Goto("encode", mem)

EncodeFails ==
  IF cmd.canonical THEN SerializeCanonicalFails(mem) ELSE SerializeFails(mem)
Encoded == IF cmd.canonical THEN SerializeCanonical(mem) ELSE Serialize(mem)

EncodeAndCopy ==
  /\ pc = "encode"
  /\ \/ EncodeFails /\ UNCHANGED fs /\ Exit("serialize")
     \/ ~EncodeFails /\ Fill(Encoded) /\ Exit("ok")
     \/ ~EncodeFails /\ UNCHANGED fs /\ Exit("write")
     \/ ~EncodeFails /\ UNCHANGED fs /\ Exit("ok") \* lost when it was closed

-----------------------------------------------------------------------------
(***************************************************************************)
(* set-meta: the edits the flags ask for, the description first.           *)
(***************************************************************************)

\* One edit: refused at once, refused by the gate, or done.
Edit(refusal, after, next) ==
  \/ refusal # "none" /\ Exit("edit")
  \/ refusal = "none" /\ GateRejects(mem, after) /\ Exit("edit")
  \/ refusal = "none" /\ ~GateRejects(mem, after) /\ Goto(next, after)

SetDescription ==
  /\ pc = "describe"
  /\ UNCHANGED fs
  /\ \/ cmd.descs = {} /\ Goto("rename", mem)
     \/ \E d \in cmd.descs :
          Edit(DescriptionRefusal(mem, d, cmd.strict), DescriptionEdited(mem, d), "rename")

SetName ==
  /\ pc = "rename"
  /\ UNCHANGED fs
  /\ \/ cmd.names = {} /\ Goto("save", mem)
     \/ \E n \in cmd.names :
          Edit(NameRefusal(mem, n), NameEdited(mem, n), "save")

-----------------------------------------------------------------------------
(***************************************************************************)
(* repair, and what it shares with set-meta: WriteToFile serializes, then  *)
(* truncates and fills the output; the output is opened and validated.     *)
(***************************************************************************)

Mend ==
  /\ pc = "mend"
  /\ UNCHANGED fs
  /\ \/ RepairRefuses(mem) /\ Exit("unrepairable")
     \/ ~RepairRefuses(mem) /\ Goto("save", Repaired(mem))

\* Mutant of SaveRefused: the output is truncated whatever serializing says.
SaveTruncatesFirst == SerializeFails(mem) /\ Fill(Torn) /\ Exit("serialize")
SaveRefused == SerializeFails(mem) /\ UNCHANGED fs /\ Exit("serialize")

Save ==
  /\ pc = "save"
  /\ \/ SaveRefused
     \/ ~SerializeFails(mem) /\ UNCHANGED fs /\ Exit("write")
     \/ ~SerializeFails(mem) /\ Fill(Torn) /\ Goto("fill", mem)

WriteOutput ==
  /\ pc = "fill"
  /\ \/ UNCHANGED fs /\ Exit("write")
     \/ Fill(Serialize(mem)) /\ Goto("check", mem)

PostWriteValidate ==
  /\ pc = "check"
  /\ UNCHANGED fs
  /\ LET bad == ~OpenFails(cmd.out, cmd.verb = "repair" \/ cmd.strict) =>
                   ErrorCodes(Parse(fs[cmd.out])) # {}
     IN  (bad /\ Exit("validate")) \/ (~bad /\ Exit("ok"))

-----------------------------------------------------------------------------
Crash ==
  /\ pc # "exited"
  /\ UNCHANGED fs
  /\ Exit("crash")

Step ==
  \/ OpenInput \/ Create \/ EncodeAndCopy \/ SetDescription \/ SetName
  \/ Mend \/ Save \/ WriteOutput \/ PostWriteValidate

Bounded ==
  \A p \in Paths : fs[p] \notin {Absent, Torn} => Len(fs[p].tail) <= MaxTail

Next ==
  \/ Bounded /\ \E c \in Commands : Start(c)
  \/ Step
  \/ Crash

Spec == Init /\ [][Next]_vars

-----------------------------------------------------------------------------
(***************************************************************************)
(* What a command promises about the files it leaves.                      *)
(***************************************************************************)

Ended(verbs) == pc = "exited" /\ cmd.verb \in verbs

\* Section s of file f is in file g as it was, but for what was asked for.  A
\* name f does not hold is no name to keep.
Kept(f, g, s) ==
  /\ s \in DOMAIN g.sec
  /\ g.sec[s].type = f.sec[s].type /\ g.sec[s].index = f.sec[s].index
  /\ \/ g.sec[s].payload = f.sec[s].payload
     \/ f.sec[s].type = "STRG" /\ cmd.descs # {}
  /\ \/ ResolvedName(g, s) = ResolvedName(f, s)
     \/ f.sec[s].type = "LVSR" /\ cmd.names # {}
     \/ s \in Named(f) /\ f.sec[s].nameOff \notin DOMAIN f.names

\* g is f with the edits of the command, and nothing else changed.
Carries(f, g) ==
  /\ g.hdr = f.hdr
  /\ \A s \in DOMAIN f.sec : Kept(f, g, s)
  /\ \A s \in DOMAIN g.sec \ DOMAIN f.sec : cmd.descs # {} /\ g.sec[s].type = "STRG"
  /\ \A d \in cmd.descs :
       \E s \in OfType(g, "STRG") : g.sec[s].payload = Encode(d)
  /\ \A n \in cmd.names : \A s \in OfType(g, "LVSR") : ResolvedName(g, s) = n

Delivered == OpenFails(cmd.out, TRUE) \/ Carries(Parse(before[cmd.in]), Parse(fs[cmd.out]))

\* A command that exits with 0 has left, at its output, its input with the
\* edits asked for, readable by a strict parser; only rewrite, which does not
\* look at its output again, may have lost it on closing.
SuccessIsFaithful ==
  Ended(Verbs) /\ exit = "ok" =>
    /\ Delivered
    /\ OpenFails(cmd.out, TRUE) => cmd.verb = "rewrite" /\ fs[cmd.out] = Torn

\* set-meta and repair check before they touch a file: what they refuse leaves
\* every file as it was, their input too when it is also the output.  For
\* rewrite this holds of a failed open only.
RefusalLeavesFiles ==
  /\ Ended({"set-meta", "repair"}) =>
       (exit \in {"open", "edit", "unrepairable", "serialize"} => fs = before)
  /\ Ended({"rewrite"}) => (exit \in {"open", "create"} => fs = before)

Damage(path) == ErrorCodes(Parse(before[path]))

\* "it does not guess missing names or payloads, and it only succeeds if the
\* written output re-parses strictly with zero validation errors"
\* (README.md:133): repair mends differing headers and overlapping payloads,
\* all of them unless it is disturbed, and nothing else.
RepairMendsWhatItCan ==
  Ended({"repair"}) /\ exit \notin {"open", "write", "crash"} =>
    (exit = "ok" <=> /\ Damage(cmd.in) # {}
                     /\ Damage(cmd.in) \subseteq
                          {"header.mismatch", "section.payload.overlap"})

-----------------------------------------------------------------------------
(***************************************************************************)
(* A statement of the documents the code does not keep.                    *)
(***************************************************************************)

\* "unknown sections are preserved byte-for-byte unless a mode explicitly
\* allows canonicalization" (docs/safety-model.md:9-10): a preserving rewrite
\* that is refused leaves the sections of its input where they were.
RefusedRewriteKeepsInput ==
  Ended({"rewrite"}) /\ ~cmd.canonical /\ exit = "serialize" =>
    /\ ~OpenFails(cmd.in, FALSE)
    /\ Carries(Parse(before[cmd.in]), Parse(fs[cmd.in]))

=============================================================================
