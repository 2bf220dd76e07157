--------------------------- MODULE MCProgramEntry ---------------------------
(* Model-checking instances of ProgramEntry.                               *)
EXTENDS ProgramEntry

\* Lines of at most three flags, with a host in front, among them or at the end.  What
\* an offline mode ignores is left out, and the two flags of a diff come together only
\* on their own.
Offline == Reading \cup {"infer-backup-structure-dir"}

FlagLines ==
  {SetToSeq(S) : S \in {T \in SUBSET Flags :
     /\ Cardinality(T) <= 3 /\ ~(DiffFlags \subseteq T)
     /\ T \cap Offline = {} \/ T \cap (Passwords \cup {"user"}) = {}}}
    \cup {<<"diff-backup-base", "diff-backup-candidate", "scan-cidr">>}

MCCommandLines ==
  FlagLines
    \cup {<<"positional">> \o l : l \in FlagLines}
    \cup {l \o <<"positional">> : l \in FlagLines}
    \cup {InsertAt(l, 2, "positional") : l \in {k \in FlagLines : Len(k) = 2}}
    \cup {<<"diff-backup-base", "diff-backup-candidate">>, <<"unknown">>,
          <<"user", "help">>, <<"positional", "user", "positional", "help">>}

\* A host between two flags.
SplitLines == {<<f, "positional", "config-file">> : f \in Passwords \cup {"user"}}

MCRanges ==
  [addr : 0..15, bits : 0..4, max : {1, 3, 17}, valid : {TRUE}]
    \cup [addr : {0}, bits : {0}, max : {1}, valid : {FALSE}]

\* Known ranges overlapping, adjacent and beyond the files.
MCKnown == {Run(0, 1), Run(4, 2), Run(5, 1), Run(1, 1), Run(7, 3)}

Contents(sizes, values) ==
  UNION {[size : {n}, byte : [0..(n - 1) -> values]] : n \in sizes}

Entry(data, named) == [kind |-> "regular", bin |-> TRUE, named |-> named, data |-> data]

Small == [size |-> 1, byte |-> <<>>]

\* Three backups of a few bytes each, and directories with other things in them.
MCLibraries ==
  [files : {<<Entry(b, FALSE), Entry(s, FALSE), Entry(t, FALSE)>> :
              b \in [size : 0..6, byte : {<<>>}], s \in Contents(0..4, {0, 1}),
              t \in Contents(2..5, {0, 1})},
   baseline : {0}]
  \cup
  [files : [1..3 -> [kind : {"regular", "other"}, bin : BOOLEAN, named : BOOLEAN,
                     data : {Small, Unreadable}]], baseline : {-1, 0, 2, 3}]

\* Two backups: one with little in it, one with every field set, a password included.
Plain == (0 :> 35) @@ (1 :> 137) @@ (2 :> 35) @@ (3 :> 137)

Text == [k \in 1..8 |-> Xor(96 + k, Key[k])]

Configured ==
  Plain @@ [i \in Offset(PasswordSlot) |-> Text[i - PasswordSlot.offset + 1]]
    @@ [i \in (5..16) \cup (23..25) \cup {VLANNameAt} |-> 97]
    @@ [i \in {PriorityAt(p) : p \in SwitchPorts} |-> 2]
    @@ [i \in {MirrorDestination, PortVLANModeB, LoopPreventionFlag, IGMPFlag, QoSModeSigA,
               QoSModeSigB, LEDFlag, MatrixAt(1), MatrixAt(8)} |-> 6]

Places ==
  {1, 5, 8, 13, 16, 23, 24, 54, 73, 75, 80, 93, 97, 217, 300, MirrorDestination, MatrixAt(1),
   MatrixAt(2),
   PortVLANModeA, PortIDAt(1), PortIDAt(8), VLANNameAt, VLANNameAt + 31, PriorityAt(1), PriorityAt(2),
   LoopPreventionFlag, LoopPreventionMode, IGMPFlag, IGMPReportSuppFlag, QoSModeSigA, QoSModeSigC, LEDFlag}

Edits == {<<>>} \cup {i :> v : i \in Places, v \in {0, 6, 32, 97}}
           \cup {(i :> 6) @@ (j :> 97) : i \in Places, j \in Places}

Data(size, bytes) == [size |-> size, byte |-> bytes]

MCPairs ==
  {[base |-> Data(2249, b), candidate |-> Data(2249, e @@ b)] :
     b \in {Plain, Configured}, e \in Edits}
  \cup {[base |-> Data(n, Configured), candidate |-> Data(m, (i :> 32) @@ Configured)] :
          n \in {1222, 2048, 2249}, m \in {1221, 1222, 2048, 2110, 2249}, i \in Places}
  \cup {[base |-> Unreadable, candidate |-> Data(2249, Plain)]}

MCFiles ==
  {Unreadable, Data(1221, Plain), Data(2249, <<>>), Data(1222, Plain), Data(2249, Configured)}
=============================================================================
