------------------------------- MODULE MCCli --------------------------------
(***************************************************************************)
(* Cli on two paths: the input holds a VI with one damage or several, the  *)
(* output is a second path or the input itself.                            *)
(***************************************************************************)
EXTENDS Cli, TLC

CONSTANTS vi, a, spare \* section identities

McSections == {vi, a, spare}
McOtherTypes == << "bad1" >>
McUnprintable == {"bad1"}
McPaths == {"x", "y"}

P(len, val, issues) == [len |-> len, val |-> val, strg |-> issues]
At(off, payload) == [off |-> off, payload |-> payload]
Desc(t, n, d) == [type |-> t, index |-> 0, nameOff |-> n, dataOff |-> d]

\* a has the name at o; its type is ta and its region begins at da, inside that
\* of vi or behind it.
Image(second, ta, o, da) ==
  [ hdr |-> 1, hdr2 |-> second, blocks |-> << << a >>, << vi >> >>,
    sec |-> (vi :> Desc("LVSR", 0, 0)) @@ (a :> Desc(ta, o, da)),
    data |-> { At(0, P(4, 6, {"overruns"})), At(4, P(4, 2, {})),
               At(8, P(0, 1, {"short"})) },
    tail |-> << 1, 1, 1, 2 >>, slack |-> << >> ]

Images ==
  {Image(h, t, o, d) : h \in {1, 2}, t \in {"ICON", "STRG", "bad1"},
                       o \in {0, 2, 4, NoNameOffset}, d \in {4, 8}}

McFiles == {[p \in McPaths |-> IF p = "x" THEN i ELSE Absent] : i \in Images}

Rewrite(out, strict, canonical) ==
  [ verb |-> "rewrite", in |-> "x", out |-> out, strict |-> strict,
    canonical |-> canonical, descs |-> {}, names |-> {} ]
SetMeta(out, strict, descs, names) ==
  [ verb |-> "set-meta", in |-> "x", out |-> out, strict |-> strict,
    canonical |-> FALSE, descs |-> descs, names |-> names ]
RepairTo(out) ==
  [ verb |-> "repair", in |-> "x", out |-> out, strict |-> FALSE,
    canonical |-> FALSE, descs |-> {}, names |-> {} ]

Plain == [len |-> 1, val |-> 5, control |-> FALSE]
Control == [len |-> 1, val |-> 4, control |-> TRUE]

McCommands ==
  {Rewrite("x", FALSE, c) : c \in BOOLEAN} \cup {Rewrite("y", TRUE, FALSE)}
  \cup {RepairTo(o) : o \in McPaths}
  \cup {SetMeta("x", s, {Plain}, {<< 2, 2 >>}) : s \in BOOLEAN}
  \cup {SetMeta("y", s, {Control}, {}) : s \in BOOLEAN}
  \cup {SetMeta("x", FALSE, {}, {n}) : n \in {<< 3 >>, << 1, 1, 1, 1 >>}}

=============================================================================
