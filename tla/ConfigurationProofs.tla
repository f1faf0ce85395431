------------------------- MODULE ConfigurationProofs ------------------------
(***************************************************************************)
(* Three invariants of the options, for every command line, file,          *)
(* schedule and number of disks: no string is shared, a playback has the   *)
(* sizes of one recording, and packets fit in the buffers allocated for    *)
(* the defaults.  set_from_root and the search of the disks are folds;     *)
(* LeftFolds unfolds them turn by turn, and what one turn preserves all of *)
(* them do.  The lemmas say what a turn may do whichever arm of a CASE is  *)
(* taken, so they do not depend on how overlapping arms are resolved.      *)
(***************************************************************************)
EXTENDS Configuration, Inductions, TLAPS

-----------------------------------------------------------------------------
(* Options, passes and the settings: set_from_root keeps the strings apart  *)

\* Options of flags b, numbers n and strings s; a pass of set_from_root.
OptOf(b, n, s) == [optbits |-> b, num |-> n, str |-> s]
PassOf(o, h, c, f, r) == [opt |-> o, heap |-> h, cfg |-> c, filesize |-> f, result |-> r]

\* Options and passes as the code has them: records of these fields.
IsOpt(o) == \E b, n, s : /\ o = OptOf(b, n, s)
                         /\ n = [x \in Numbers |-> n[x]] /\ s = [x \in Strings |-> s[x]]
IsPass(p) == \E o, h, c, f, r : p = PassOf(o, h, c, f, r) /\ IsOpt(o)

\* Options whose flags are assigned are options, with their other fields.
LEMMA OptBits ==
  ASSUME NEW o, IsOpt(o), NEW v
  PROVE  LET q == [o EXCEPT !.optbits = v] IN
         IsOpt(q) /\ q.optbits = v /\ q.num = o.num /\ q.str = o.str
<1>1. PICK b, n, s : o = OptOf(b, n, s) /\ n = [y \in Numbers |-> n[y]] /\ s = [y \in Strings |-> s[y]]
  BY DEF IsOpt
<1>2. [o EXCEPT !.optbits = v] = OptOf(v, n, s)
  BY <1>1 DEF OptOf
<1>3. IsOpt(OptOf(v, n, s))
  BY <1>1 DEF IsOpt
<1>4. /\ OptOf(v, n, s).optbits = v /\ OptOf(v, n, s).num = o.num
      /\ OptOf(v, n, s).str = o.str
  BY <1>1 DEF OptOf
<1> QED BY <1>2, <1>3, <1>4

\* Options whose numbers are replaced are options, with their other fields.
LEMMA OptNum ==
  ASSUME NEW o, IsOpt(o), NEW m, m = [y \in Numbers |-> m[y]]
  PROVE  LET q == [o EXCEPT !.num = m] IN
         IsOpt(q) /\ q.optbits = o.optbits /\ q.str = o.str /\ q.num = m
<1>1. PICK b, n, s : o = OptOf(b, n, s) /\ n = [y \in Numbers |-> n[y]] /\ s = [y \in Strings |-> s[y]]
  BY DEF IsOpt
<1>3. [o EXCEPT !.num = m] = OptOf(b, m, s)
  BY <1>1 DEF OptOf
<1>4. IsOpt(OptOf(b, m, s))
  BY <1>1 DEF IsOpt
<1>5. /\ OptOf(b, m, s).optbits = o.optbits /\ OptOf(b, m, s).num = m
      /\ OptOf(b, m, s).str = o.str
  BY <1>1 DEF OptOf
<1> QED BY <1>3, <1>4, <1>5

\* Options whose strings are replaced are options, with their other fields.
LEMMA OptStr ==
  ASSUME NEW o, IsOpt(o), NEW m, m = [y \in Strings |-> m[y]]
  PROVE  LET q == [o EXCEPT !.str = m] IN
         IsOpt(q) /\ q.optbits = o.optbits /\ q.num = o.num /\ q.str = m
<1>1. PICK b, n, s : o = OptOf(b, n, s) /\ n = [y \in Numbers |-> n[y]] /\ s = [y \in Strings |-> s[y]]
  BY DEF IsOpt
<1>3. [o EXCEPT !.str = m] = OptOf(b, n, m)
  BY <1>1 DEF OptOf
<1>4. IsOpt(OptOf(b, n, m))
  BY <1>1 DEF IsOpt
<1>5. /\ OptOf(b, n, m).optbits = o.optbits /\ OptOf(b, n, m).str = m
      /\ OptOf(b, n, m).num = o.num
  BY <1>1 DEF OptOf
<1> QED BY <1>3, <1>4, <1>5

\* The strings and the numbers of options are functions.
LEMMA OptFunctions ==
  ASSUME NEW o, IsOpt(o)
  PROVE  o.num = [y \in Numbers |-> o.num[y]] /\ o.str = [y \in Strings |-> o.str[y]]
BY DEF IsOpt, OptOf

\* The fields of a pass.
LEMMA PassHas ==
  ASSUME NEW o, IsOpt(o), NEW h, NEW c, NEW f, NEW r
  PROVE  LET p == PassOf(o, h, c, f, r) IN
         /\ IsPass(p)
         /\ p.opt = o /\ p.heap = h /\ p.cfg = c /\ p.filesize = f /\ p.result = r
<1>1. IsPass(PassOf(o, h, c, f, r))
  BY DEF IsPass
<1> QED BY <1>1 DEF PassOf

\* The opt of a pass is options.
LEMMA OptOfPass ==
  ASSUME NEW p, IsPass(p)
  PROVE  IsOpt(p.opt)
<1>1. PICK o, h, c, f, r : p = PassOf(o, h, c, f, r) /\ IsOpt(o)
  BY DEF IsPass
<1> QED BY <1>1, PassHas

\* A pass that gets other options is a pass, with its other fields.
LEMMA PutOpt ==
  ASSUME NEW p, IsPass(p), NEW v, IsOpt(v)
  PROVE  LET q == [p EXCEPT !.opt = v] IN
         /\ IsPass(q) /\ q.opt = v /\ q.heap = p.heap /\ q.cfg = p.cfg
         /\ q.filesize = p.filesize /\ q.result = p.result
<1>1. PICK o, h, c, f, r : p = PassOf(o, h, c, f, r) /\ IsOpt(o)
  BY DEF IsPass
<1>2. [p EXCEPT !.opt = v] = PassOf(v, h, c, f, r)
  BY <1>1 DEF PassOf
<1> DEFINE q == PassOf(v, h, c, f, r)
<1>3. IsPass(q)
  BY <1>1, PassHas
<1>4. q.opt = v /\ q.heap = h /\ q.cfg = c /\ q.filesize = f /\ q.result = r
  BY <1>1, PassHas
<1>5. p.opt = o /\ p.heap = h /\ p.cfg = c /\ p.filesize = f /\ p.result = r
  BY <1>1, PassHas
<1> QED BY <1>2, <1>3, <1>4, <1>5

\* A pass that gets another heap is a pass, with its other fields.
LEMMA PutHeap ==
  ASSUME NEW p, IsPass(p), NEW v
  PROVE  LET q == [p EXCEPT !.heap = v] IN
         /\ IsPass(q) /\ q.heap = v /\ q.opt = p.opt /\ q.cfg = p.cfg
         /\ q.filesize = p.filesize /\ q.result = p.result
<1>1. PICK o, h, c, f, r : p = PassOf(o, h, c, f, r) /\ IsOpt(o)
  BY DEF IsPass
<1>2. [p EXCEPT !.heap = v] = PassOf(o, v, c, f, r)
  BY <1>1 DEF PassOf
<1> DEFINE q == PassOf(o, v, c, f, r)
<1>3. IsPass(q)
  BY <1>1, PassHas
<1>4. q.opt = o /\ q.heap = v /\ q.cfg = c /\ q.filesize = f /\ q.result = r
  BY <1>1, PassHas
<1>5. p.opt = o /\ p.heap = h /\ p.cfg = c /\ p.filesize = f /\ p.result = r
  BY <1>1, PassHas
<1> QED BY <1>2, <1>3, <1>4, <1>5

\* A pass that gets another configuration is a pass, with its other fields.
LEMMA PutCfg ==
  ASSUME NEW p, IsPass(p), NEW v
  PROVE  LET q == [p EXCEPT !.cfg = v] IN
         /\ IsPass(q) /\ q.cfg = v /\ q.opt = p.opt /\ q.heap = p.heap
         /\ q.filesize = p.filesize /\ q.result = p.result
<1>1. PICK o, h, c, f, r : p = PassOf(o, h, c, f, r) /\ IsOpt(o)
  BY DEF IsPass
<1>2. [p EXCEPT !.cfg = v] = PassOf(o, h, v, f, r)
  BY <1>1 DEF PassOf
<1> DEFINE q == PassOf(o, h, v, f, r)
<1>3. IsPass(q)
  BY <1>1, PassHas
<1>4. q.opt = o /\ q.heap = h /\ q.cfg = v /\ q.filesize = f /\ q.result = r
  BY <1>1, PassHas
<1>5. p.opt = o /\ p.heap = h /\ p.cfg = c /\ p.filesize = f /\ p.result = r
  BY <1>1, PassHas
<1> QED BY <1>2, <1>3, <1>4, <1>5

\* A pass that gets another filesize is a pass, with its other fields.
LEMMA PutSize ==
  ASSUME NEW p, IsPass(p), NEW v
  PROVE  LET q == [p EXCEPT !.filesize = v] IN
         /\ IsPass(q) /\ q.filesize = v /\ q.opt = p.opt /\ q.heap = p.heap
         /\ q.cfg = p.cfg /\ q.result = p.result
<1>1. PICK o, h, c, f, r : p = PassOf(o, h, c, f, r) /\ IsOpt(o)
  BY DEF IsPass
<1>2. [p EXCEPT !.filesize = v] = PassOf(o, h, c, v, r)
  BY <1>1 DEF PassOf
<1> DEFINE q == PassOf(o, h, c, v, r)
<1>3. IsPass(q)
  BY <1>1, PassHas
<1>4. q.opt = o /\ q.heap = h /\ q.cfg = c /\ q.filesize = v /\ q.result = r
  BY <1>1, PassHas
<1>5. p.opt = o /\ p.heap = h /\ p.cfg = c /\ p.filesize = f /\ p.result = r
  BY <1>1, PassHas
<1> QED BY <1>2, <1>3, <1>4, <1>5

\* A pass that gets another result is a pass, with its other fields.
LEMMA PutResult ==
  ASSUME NEW p, IsPass(p), NEW v
  PROVE  LET q == [p EXCEPT !.result = v] IN
         /\ IsPass(q) /\ q.result = v /\ q.opt = p.opt /\ q.heap = p.heap
         /\ q.cfg = p.cfg /\ q.filesize = p.filesize
<1>1. PICK o, h, c, f, r : p = PassOf(o, h, c, f, r) /\ IsOpt(o)
  BY DEF IsPass
<1>2. [p EXCEPT !.result = v] = PassOf(o, h, c, f, v)
  BY <1>1 DEF PassOf
<1> DEFINE q == PassOf(o, h, c, f, v)
<1>3. IsPass(q)
  BY <1>1, PassHas
<1>4. q.opt = o /\ q.heap = h /\ q.cfg = c /\ q.filesize = f /\ q.result = v
  BY <1>1, PassHas
<1>5. p.opt = o /\ p.heap = h /\ p.cfg = c /\ p.filesize = f /\ p.result = r
  BY <1>1, PassHas
<1> QED BY <1>2, <1>3, <1>4, <1>5

\* A sequence, of whatever values.
IsSeq(h) == \E S : h \in Seq(S)

\* Append lengthens a sequence by one.
LEMMA Lengthens ==
  ASSUME NEW h, IsSeq(h), NEW v
  PROVE  IsSeq(Append(h, v)) /\ Len(Append(h, v)) = Len(h) + 1 /\ Len(h) \in Nat
<1>1. PICK S : h \in Seq(S)
  BY DEF IsSeq
<1>2. h \in Seq(S \cup {v}) /\ v \in S \cup {v}
  BY <1>1
<1>3. Append(h, v) \in Seq(S \cup {v}) /\ Len(Append(h, v)) = Len(h) + 1 /\ Len(h) \in Nat
  BY <1>2
<1> QED
  BY <1>3 DEF IsSeq

\* Assigning to an index leaves a sequence of the same length.
LEMMA Overwrites ==
  ASSUME NEW h, IsSeq(h), NEW v, NEW k
  PROVE  IsSeq([h EXCEPT ![k] = v]) /\ Len([h EXCEPT ![k] = v]) = Len(h)
<1>1. PICK S : h \in Seq(S)
  BY DEF IsSeq
<1>2. h \in [1..Len(h) -> S \cup {v}] /\ Len(h) \in Nat
  BY <1>1
<1> DEFINE g == [h EXCEPT ![k] = v]
<1>3. g \in [1..Len(h) -> S \cup {v}]
  BY <1>2
<1>4. g \in Seq(S \cup {v}) /\ Len(g) = Len(h)
  BY <1>2, <1>3
<1> QED
  BY <1>4 DEF IsSeq

\* The pass goes on with the same strings, and with the same numbers but for one.
Keeps(p, q, field, mode) ==
  /\ IsPass(q) /\ q.opt.str = p.opt.str /\ q.heap = p.heap
  /\ \A x \in Numbers \ {field} : q.opt.num[x] = p.opt.num[x]
  /\ mode # "write" => q.cfg = p.cfg

\* A pass that keeps its options and its heap keeps all that Keeps asks for.
LEMMA KeptIf ==
  ASSUME NEW p, NEW q, NEW field, NEW mode, IsPass(q), q.opt = p.opt, q.heap = p.heap,
         mode # "write" => q.cfg = p.cfg
  PROVE  Keeps(p, q, field, mode)
BY DEF Keeps

\* A pass whose options change in one number keeps the others.
LEMMA OptPut ==
  ASSUME NEW p, IsPass(p), NEW field, NEW mode, NEW o, IsOpt(o), o.str = p.opt.str,
         \A x \in Numbers \ {field} : o.num[x] = p.opt.num[x]
  PROVE  Keeps(p, [p EXCEPT !.opt = o], field, mode)
<1> DEFINE q == [p EXCEPT !.opt = o]
<1>1. IsPass(q) /\ q.opt = o /\ q.heap = p.heap /\ q.cfg = p.cfg
  BY PutOpt
<1> SUFFICES Keeps(p, q, field, mode)
  OBVIOUS
<1> HIDE DEF q
<1> QED BY <1>1 DEF Keeps

\* The assignments of the macros of set_from_root: all keep the strings.
LEMMA KeepsAll ==
  ASSUME NEW p, IsPass(p), NEW i, NEW field, NEW mode, NEW v, NEW a
  PROVE  /\ Keeps(p, p, field, mode) /\ Keeps(p, Failed(p), field, mode)
         /\ Keeps(p, Written(p, i, v), field, "write")
         /\ Keeps(p, [p EXCEPT !.filesize = v], field, mode)
         /\ Keeps(p, [p EXCEPT !.result = v], field, mode)
         /\ Keeps(p, Flags(p, a, v), field, mode) /\ Keeps(p, Failed(Flags(p, a, v)), field, mode)
         /\ Keeps(p, [p EXCEPT !.opt.num[field] = v], field, mode)
<1>1. Keeps(p, p, field, mode)
  BY DEF Keeps
<1>2. Keeps(p, Written(p, i, v), field, "write")
  <2> DEFINE q == [p EXCEPT !.cfg = [p.cfg EXCEPT ![i] = [p.cfg[i] EXCEPT !.value = v]]]
  <2>1. Written(p, i, v) = q
    BY DEF Written
  <2>2. IsPass(q) /\ q.opt = p.opt /\ q.heap = p.heap
    BY PutCfg
  <2> HIDE DEF q
  <2> QED BY <2>1, <2>2 DEF Keeps
<1>3. Keeps(p, [p EXCEPT !.filesize = v], field, mode)
  <2> DEFINE q == [p EXCEPT !.filesize = v]
  <2>2. IsPass(q) /\ q.opt = p.opt /\ q.heap = p.heap /\ q.cfg = p.cfg
    BY PutSize
  <2> QED BY <2>2, KeptIf
<1>4. \A r : Keeps(p, [p EXCEPT !.result = r], field, mode)
  <2> TAKE r
  <2> DEFINE q == [p EXCEPT !.result = r]
  <2>2. IsPass(q) /\ q.opt = p.opt /\ q.heap = p.heap /\ q.cfg = p.cfg
    BY PutResult
  <2> QED BY <2>2, KeptIf
<1>5. IsPass(Flags(p, a, v)) /\ Keeps(p, Flags(p, a, v), field, mode)
  <2> DEFINE bits == (p.opt.optbits \ a) \cup v
             o == [p.opt EXCEPT !.optbits = bits]
  <2>1. Flags(p, a, v) = [p EXCEPT !.opt = o]
    BY DEF Flags
  <2>2. IsOpt(o) /\ o.num = p.opt.num /\ o.str = p.opt.str
    BY OptBits, OptOfPass
  <2> HIDE DEF o
  <2>3. IsPass([p EXCEPT !.opt = o]) /\ Keeps(p, [p EXCEPT !.opt = o], field, mode)
    BY <2>2, OptPut, PutOpt
  <2> QED BY <2>1, <2>3
<1>6. Keeps(p, Failed(p), field, mode)
  BY <1>4 DEF Failed
<1>7. Keeps(p, Failed(Flags(p, a, v)), field, mode)
  <2> DEFINE g == Flags(p, a, v)
             q == [g EXCEPT !.result = "error"]
  <2>1. Failed(g) = q
    BY DEF Failed
  <2> HIDE DEF g
  <2>2. IsPass(q) /\ q.opt = g.opt /\ q.heap = g.heap /\ q.cfg = g.cfg
    BY <1>5, PutResult DEF g
  <2> HIDE DEF q
  <2>3. Keeps(p, q, field, mode)
    BY <1>5, <2>2 DEF Keeps, g
  <2> QED BY <2>1, <2>3 DEF g
<1>8. Keeps(p, [p EXCEPT !.opt.num[field] = v], field, mode)
  <2> DEFINE m == [p.opt.num EXCEPT ![field] = v]
             o == [p.opt EXCEPT !.num = m]
  <2>1. [p EXCEPT !.opt.num[field] = v] = [p EXCEPT !.opt = o]
    OBVIOUS
  <2>2. IsOpt(p.opt)
    BY OptOfPass
  <2>3. m = [y \in Numbers |-> m[y]] /\ \A x \in Numbers \ {field} : m[x] = p.opt.num[x]
    <3>1. p.opt.num = [y \in Numbers |-> p.opt.num[y]]
      BY <2>2, OptFunctions
    <3> QED BY <3>1
  <2> HIDE DEF m
  <2>4. IsOpt(o) /\ o.str = p.opt.str /\ o.num = m
    BY <2>2, <2>3, OptNum
  <2> HIDE DEF o
  <2>5. Keeps(p, [p EXCEPT !.opt = o], field, mode)
    BY <2>3, <2>4, OptPut
  <2> QED BY <2>1, <2>5
<1> QED BY <1>1, <1>2, <1>3, <1>4, <1>5, <1>6, <1>7, <1>8

\* A turn of a number setting changes that number only.
LEMMA NumberKept ==
  ASSUME NEW p, IsPass(p), NEW i, NEW mode, NEW field, NEW type
  PROVE  Keeps(p, FullNumber(p, i, mode, field, type), field, mode)
<1> DEFINE q == FullNumber(p, i, mode, field, type)
           put == [p EXCEPT !.opt.num[field] = p.cfg[i].value]
<1>1. \/ q = Failed(p) \/ q = p \/ q = put
      \/ mode = "write" /\ q = Written(p, i, p.opt.num[field])
  BY DEF FullNumber
<1>2. Keeps(p, Failed(p), field, mode) /\ Keeps(p, p, field, mode)
  BY KeepsAll
<1>3. Keeps(p, Written(p, i, p.opt.num[field]), field, "write")
  BY KeepsAll
<1>4. Keeps(p, put, field, mode)
  BY KeepsAll
<1> HIDE DEF put, q
<1>5. Keeps(p, q, field, mode)
  BY <1>1, <1>2, <1>3, <1>4
<1> QED BY <1>5 DEF q

\* A turn of a setting that is no number and no string changes no number.
LEMMA OthersKept ==
  ASSUME NEW p, IsPass(p), NEW i, NEW mode, NEW field, NEW flag, NEW locker, NEW flags
  PROVE  /\ Keeps(p, FullBoolean(p, i, mode, flag), field, mode)
         /\ Keeps(p, Choice(p, i, mode, locker, flags), field, mode)
         /\ Keeps(p, LogFile(p, i), field, mode)
         /\ Keeps(p, Record(p, i, mode), field, mode)
         /\ Keeps(p, Optbits(p, i, mode), field, mode)
         /\ Keeps(p, FileSize(p, i, mode), field, mode)
<1> DEFINE s == p.cfg[i]
<1>1. Keeps(p, p, field, mode) /\ Keeps(p, Failed(p), field, mode)
  BY KeepsAll
<1>2. \A a, v : Keeps(p, Flags(p, a, v), field, mode) /\ Keeps(p, Failed(Flags(p, a, v)), field, mode)
  BY KeepsAll
<1>3. \A v : mode = "write" => Keeps(p, Written(p, i, v), field, mode)
  BY KeepsAll
<1>4. Keeps(p, [p EXCEPT !.filesize = s.value], field, mode)
  BY KeepsAll
<1>5. Keeps(p, FullBoolean(p, i, mode, flag), field, mode)
  BY <1>1, <1>2, <1>3 DEF FullBoolean
<1>6. Keeps(p, Choice(p, i, mode, locker, flags), field, mode)
  BY <1>1, <1>2, <1>3 DEF Choice
<1>7. Keeps(p, LogFile(p, i), field, mode)
  BY <1>1 DEF LogFile
<1>8. Keeps(p, Record(p, i, mode), field, mode)
  BY <1>1, <1>2, <1>3 DEF Record
<1>9. Keeps(p, Optbits(p, i, mode), field, mode)
  <2> DEFINE o == [p.opt EXCEPT !.optbits = s.value]
             put == [p EXCEPT !.opt.optbits = s.value]
  <2>1. put = [p EXCEPT !.opt = o]
    OBVIOUS
  <2>2. IsOpt(o) /\ o.num = p.opt.num /\ o.str = p.opt.str
    BY OptBits, OptOfPass
  <2>3. \/ Optbits(p, i, mode) \in {Failed(p), p, put}
        \/ mode = "write" /\ Optbits(p, i, mode) = Written(p, i, p.opt.optbits)
    BY DEF Optbits
  <2> HIDE DEF o, put
  <2>4. Keeps(p, put, field, mode)
    BY <2>1, <2>2, OptPut
  <2> QED BY <1>1, <1>3, <2>3, <2>4
<1>10. Keeps(p, FileSize(p, i, mode), field, mode)
  <2> DEFINE put == [p EXCEPT !.filesize = s.value]
  <2>1. \/ FileSize(p, i, mode) \in {Failed(p), put}
        \/ mode = "write" /\ \E v : FileSize(p, i, mode) = Written(p, i, v)
    BY DEF FileSize
  <2> HIDE DEF put
  <2> QED BY <1>1, <1>3, <1>4, <2>1 DEF put
<1> QED BY <1>5, <1>6, <1>7, <1>8, <1>9, <1>10

\* A turn of "filesizemb" changes the filesize only.
LEMMA SizeMbKept ==
  ASSUME NEW p, IsPass(p), NEW i, NEW mode
  PROVE  Keeps(p, FileSizeMb(p, i, mode), "filesize", mode)
<1> DEFINE put == [p EXCEPT !.opt.num["filesize"] = p.cfg[i].value * Meg]
<1>1. Keeps(p, Failed(p), "filesize", mode) /\ Keeps(p, put, "filesize", mode)
  BY KeepsAll
<1>2. \A v : mode = "write" => Keeps(p, Written(p, i, v), "filesize", mode)
  BY KeepsAll
<1>3. \/ FileSizeMb(p, i, mode) \in {Failed(p), put}
      \/ mode = "write" /\ \E v : FileSizeMb(p, i, mode) = Written(p, i, v)
  BY DEF FileSizeMb
<1> HIDE DEF put
<1> QED BY <1>1, <1>2, <1>3

\* The numbers the theorems are about.
Tracked == {"total_packets", "packet_size", "offset", "filesize"}

\* The settings that assign them: the others leave them as they are.
Sets(name, x) ==
  \/ x = "filesize" /\ name = "filesizemb"
  \/ x = "packet_size" /\ name = "buf_elem_size"
  \/ x # "filesize" /\ x = name

\* What a turn of the loop does to the strings, and to the tracked numbers.
Turn(p, q, name, mode) ==
  /\ IsPass(q) /\ IsSeq(q.heap)
  /\ \/ q.opt.str = p.opt.str /\ Len(q.heap) = Len(p.heap)
     \/ \E f \in Strings :
          /\ p.opt.str[f] = NULL /\ q.opt.str[f] = Len(p.heap) + 1
          /\ \A g \in Strings \ {f} : q.opt.str[g] = p.opt.str[g]
          /\ Len(q.heap) = Len(p.heap) + 1
  /\ mode # "write" => q.cfg = p.cfg
  /\ \A x \in Tracked : Sets(name, x) \/ q.opt.num[x] = p.opt.num[x]
  /\ name \notin StringSettings => q.opt.str = p.opt.str

\* What keeps all the strings is a turn of the loop.
LEMMA KeepsTurns ==
  ASSUME NEW p, IsSeq(p.heap), NEW q, NEW field, NEW mode, NEW name, Keeps(p, q, field, mode),
         field \notin Tracked \/ Sets(name, field)
  PROVE  Turn(p, q, name, mode)
<1>1. Tracked \subseteq Numbers
  BY DEF Tracked, Numbers, Int64Settings, IntSettings
<1>2. \A x \in Tracked : Sets(name, x) \/ q.opt.num[x] = p.opt.num[x]
  <2> TAKE x \in Tracked
  <2>1. x # field \/ Sets(name, x)
    OBVIOUS
  <2>2. x \in Numbers
    BY <1>1
  <2> QED BY <2>1, <2>2 DEF Keeps
<1> QED BY <1>2 DEF Keeps, Turn

\* A number that is not tracked.
LEMMA Port == "port" \notin Tracked
BY DEF Tracked

\* The number of packets is tracked, and set by its own name only.
LEMMA Totals ==
  "total_packets" \in Tracked /\ \A name : Sets(name, "total_packets") <=> name = "total_packets"
BY DEF Tracked, Sets

\* A string setting allocates one string or overwrites the one there is: strdup and strcpy of
\* CFG_FULL_STR.
LEMMA StringTurns ==
  ASSUME NEW p, IsPass(p), IsSeq(p.heap), NEW i, NEW mode, NEW name \in StringSettings
  PROVE  Turn(p, FullString(p, i, mode, name), name, mode)
<1> DEFINE f == name
           s == p.cfg[i]
           at == p.opt.str[f]
           new == [p EXCEPT !.heap = Append(@, s.value), !.opt.str[f] = Len(p.heap) + 1]
           over == [p EXCEPT !.heap[at] = s.value]
           fault == [p EXCEPT !.result = "fault"]
           written == Written(p, i, IF at = NULL THEN "" ELSE p.heap[at])
           failed == IF s.value # p.heap[at] THEN Failed(p) ELSE p
           q == FullString(p, i, mode, f)
<1> HIDE DEF f
<1>0. f \in Strings /\ f = name
  BY DEF f, Strings
<1>1. \/ q \in {Failed(p), p, fault, over}
      \/ mode = "write" /\ q = written
      \/ at = NULL /\ q = new
  <2>1. q = CASE s.type # "string" -> Failed(p)
              [] mode = "check" /\ at = NULL -> fault
              [] mode = "check" -> failed
              [] mode = "write" -> written
              [] at = NULL -> new
              [] OTHER -> over
    BY DEF FullString, f
  <2>2. failed \in {p, Failed(p)}
    OBVIOUS
  <2> HIDE DEF q, fault, failed, written, new, over, at, s
  <2> QED BY <2>1, <2>2
<1>2. Turn(p, Failed(p), name, mode) /\ Turn(p, p, name, mode)
  <2>1. Keeps(p, Failed(p), "port", mode) /\ Keeps(p, p, "port", mode)
    BY KeepsAll
  <2> QED BY <2>1, Port, KeepsTurns
<1>3. Turn(p, [p EXCEPT !.result = "fault"], name, mode)
  <2>1. Keeps(p, [p EXCEPT !.result = "fault"], "port", mode)
    BY KeepsAll
  <2> QED BY <2>1, Port, KeepsTurns
<1>4. ASSUME NEW v PROVE Turn(p, Written(p, i, v), name, "write")
  <2>1. Keeps(p, Written(p, i, v), "port", "write")
    BY KeepsAll
  <2> QED BY <2>1, Port, KeepsTurns
<1>5. ASSUME at = NULL PROVE Turn(p, new, name, mode)
  <2> DEFINE m == [p.opt.str EXCEPT ![f] = Len(p.heap) + 1]
             o == [p.opt EXCEPT !.str = m]
             h == Append(p.heap, s.value)
             first == [p EXCEPT !.heap = h]
             r == [first EXCEPT !.opt = o]
  <2>1. new = r
    <3>1. first.opt = p.opt
      BY PutHeap
    <3>2. new = [first EXCEPT !.opt.str[f] = Len(p.heap) + 1]
      OBVIOUS
    <3>3. [first EXCEPT !.opt.str[f] = Len(p.heap) + 1]
            = [first EXCEPT !.opt = [first.opt EXCEPT !.str = [first.opt.str EXCEPT ![f] = Len(p.heap) + 1]]]
      OBVIOUS
    <3>4. [first.opt EXCEPT !.str = [first.opt.str EXCEPT ![f] = Len(p.heap) + 1]] = o
      <4> HIDE DEF first
      <4> QED BY <3>1
    <3> HIDE DEF new, first, o
    <3> QED BY <3>2, <3>3, <3>4
  <2>2. IsOpt(p.opt) /\ IsPass(first) /\ first.heap = h /\ first.cfg = p.cfg
    BY OptOfPass, PutHeap
  <2>3. p.opt.str = [y \in Strings |-> p.opt.str[y]]
    BY <2>2, OptFunctions
  <2>4. m = [y \in Strings |-> m[y]] /\ m[f] = Len(p.heap) + 1 /\ \A g \in Strings \ {f} : m[g] = p.opt.str[g]
    BY <1>0, <2>3
  <2> HIDE DEF m
  <2>5. IsOpt(o) /\ o.num = p.opt.num /\ o.str = m
    BY <2>2, <2>4, OptStr
  <2> HIDE DEF o, first
  <2>6. IsPass(r) /\ r.opt = o /\ r.heap = h /\ r.cfg = p.cfg
    BY <2>2, <2>5, PutOpt
  <2>7. IsSeq(h) /\ Len(h) = Len(p.heap) + 1
    BY Lengthens
  <2> HIDE DEF r, h
  <2>8. Turn(p, r, name, mode)
    BY <1>0, <1>5, <2>4, <2>5, <2>6, <2>7 DEF Turn
  <2> QED BY <2>1, <2>8
<1>6. Turn(p, over, name, mode)
  <2> DEFINE h == [p.heap EXCEPT ![at] = s.value]
             r == [p EXCEPT !.heap = h]
  <2>1. over = r
    OBVIOUS
  <2>2. IsSeq(h) /\ Len(h) = Len(p.heap)
    BY Overwrites
  <2> HIDE DEF h
  <2>3. IsPass(r) /\ r.heap = h /\ r.opt = p.opt /\ r.cfg = p.cfg
    BY PutHeap
  <2> HIDE DEF r
  <2>4. Turn(p, r, name, mode)
    BY <2>2, <2>3 DEF Turn
  <2> QED BY <2>1, <2>4
<1>7. Turn(p, fault, name, mode) /\ Turn(p, written, name, "write")
  <2>1. Turn(p, fault, name, mode)
    BY <1>3
  <2>2. Turn(p, written, name, "write")
    BY <1>4, Zenon
  <2> QED BY <2>1, <2>2, Zenon
<1> HIDE DEF new, over, fault, written, q, at
<1>8. Turn(p, q, name, mode)
  BY <1>1, <1>2, <1>5, <1>6, <1>7
<1> QED BY <1>8 DEF q, f

\* Every turn of the loop of set_from_root, whatever its setting is called.
LEMMA SettingTurns ==
  ASSUME NEW p, IsPass(p), IsSeq(p.heap), NEW i, NEW mode
  PROVE  Turn(p, OneSetting(p, i, mode), p.cfg[i].name, mode)
<1> DEFINE name == p.cfg[i].name
           T(q) == Turn(p, q, name, mode)
<1>1. \A q : Keeps(p, q, "port", mode) => T(q)
  BY Port, KeepsTurns
<1>2. \A q, field : Keeps(p, q, field, mode) /\ (field \notin Tracked \/ Sets(name, field)) => T(q)
  BY KeepsTurns
<1>3. T(p) /\ T(LogFile(p, i)) /\ T(FileSize(p, i, mode)) /\ T(Record(p, i, mode)) /\ T(Optbits(p, i, mode))
  <2>1. /\ Keeps(p, p, "port", mode) /\ Keeps(p, LogFile(p, i), "port", mode)
        /\ Keeps(p, FileSize(p, i, mode), "port", mode)
        /\ Keeps(p, Record(p, i, mode), "port", mode)
        /\ Keeps(p, Optbits(p, i, mode), "port", mode)
    BY KeepsAll, OthersKept
  <2> QED BY <2>1, <1>1
<1>4. name = "filesizemb" => T(FileSizeMb(p, i, mode))
  <2>1. Keeps(p, FileSizeMb(p, i, mode), "filesize", mode) /\ Sets("filesizemb", "filesize")
    BY SizeMbKept DEF Sets
  <2> QED BY <1>2, <2>1
<1>5. T(Writer(p, i, mode)) /\ T(Capture(p, i, mode)) /\ T(Datatype(p, i, mode))
  <2>1. \A locker, flags : Keeps(p, Choice(p, i, mode, locker, flags), "port", mode)
    BY OthersKept
  <2> QED BY <2>1, <1>1 DEF Writer, Capture, Datatype
<1>6. \A flag : T(FullBoolean(p, i, mode, flag))
  BY <1>1, OthersKept
<1>7. name \in StringSettings => T(FullString(p, i, mode, name))
  BY StringTurns
<1>8. \A field, type, m : Keeps(p, FullNumber(p, i, m, field, type), field, m)
  BY NumberKept
<1>9. name = "buf_elem_size" => T(FullNumber(p, i, mode, "packet_size", "int64"))
  <2>1. Sets("buf_elem_size", "packet_size")
    BY DEF Sets
  <2> QED BY <1>2, <1>8, <2>1
<1>10. name \in Int64Settings \cup IntSettings => \A type : T(FullNumber(p, i, mode, name, type))
  <2>1. name \in Int64Settings \cup IntSettings => Sets(name, name)
    BY DEF Sets, Int64Settings, IntSettings
  <2> QED BY <1>2, <1>8, <2>1
<1>11. T(StartingTime(p, i, mode))
  <2>1. Keeps(p, FullNumber(p, i, "read", "starting_time", "int64"), "starting_time", "read")
    BY <1>8
  <2>2. Keeps(p, FullNumber(p, i, "read", "starting_time", "int64"), "starting_time", mode)
    BY <2>1 DEF Keeps
  <2>3. Keeps(p, FullNumber(p, i, mode, "starting_time", "int64"), "starting_time", mode)
    BY <1>8
  <2>4. "starting_time" \notin Tracked
    BY DEF Tracked
  <2> QED BY <1>2, <2>2, <2>3, <2>4 DEF StartingTime
<1> HIDE DEF T
<1>13. T(OneSetting(p, i, mode))
  BY <1>3, <1>4, <1>5, <1>6, <1>7, <1>9, <1>10, <1>11 DEF OneSetting
<1> QED BY <1>13 DEF T

\* What follows the loop, the use of the deprecated filesize, touches no string.
LEMMA SizeTurns ==
  ASSUME NEW p, IsPass(p), IsSeq(p.heap), NEW mode
  PROVE  Turn(p, UseFileSize(p), "filesize", mode)
<1> DEFINE num == p.opt.num
           a == p.filesize \div num["packet_size"]
           b == p.filesize \div num["buf_division"]
           n1 == [num EXCEPT !["buf_num_elems"] = a]
           o1 == [p.opt EXCEPT !.num = n1]
           p1 == [p EXCEPT !.opt = o1]
           n2 == [n1 EXCEPT !["do_w_stuff_every"] = b]
           o2 == [o1 EXCEPT !.num = n2]
           fault == [p EXCEPT !.result = "fault"]
           sized == [p1 EXCEPT !.opt = o2]
<1>1. UseFileSize(p) \in {p, fault, [p EXCEPT !.opt.num["buf_num_elems"] = a, !.opt.num["do_w_stuff_every"] = b]}
  BY DEF UseFileSize
<1> HIDE DEF a, b
<1>2. Turn(p, p, "filesize", mode) /\ Turn(p, fault, "filesize", mode)
  <2>1. Keeps(p, p, "port", mode) /\ Keeps(p, fault, "port", mode)
    BY KeepsAll
  <2> QED BY <2>1, Port, KeepsTurns
<1>3. IsOpt(p.opt)
  BY OptOfPass
<1>4. num = [y \in Numbers |-> num[y]]
  BY <1>3, OptFunctions
<1>5. /\ n1 = [y \in Numbers |-> n1[y]] /\ n2 = [y \in Numbers |-> n2[y]]
      /\ \A x \in Tracked : n2[x] = num[x]
  <2>1. Tracked \subseteq Numbers \ {"buf_num_elems", "do_w_stuff_every"}
    BY DEF Tracked, Numbers, Int64Settings, IntSettings
  <2> QED BY <1>4, <2>1
<1>6. [p EXCEPT !.opt.num["buf_num_elems"] = a, !.opt.num["do_w_stuff_every"] = b]
        = [p1 EXCEPT !.opt.num["do_w_stuff_every"] = b]
  OBVIOUS
<1>7. [p1 EXCEPT !.opt.num["do_w_stuff_every"] = b]
        = [p1 EXCEPT !.opt = [p1.opt EXCEPT !.num = [p1.opt.num EXCEPT !["do_w_stuff_every"] = b]]]
  OBVIOUS
<1>8. IsOpt(o1) /\ o1.str = p.opt.str /\ o1.num = n1
  <2> HIDE DEF n1
  <2> QED BY <1>3, <1>5, OptNum
<1>9. IsPass(p1) /\ p1.opt = o1 /\ p1.heap = p.heap /\ p1.cfg = p.cfg
  <2> HIDE DEF o1
  <2> QED BY <1>8, PutOpt
<1>10. IsOpt(o2) /\ o2.str = p.opt.str /\ o2.num = n2
  <2> HIDE DEF o1, n2
  <2> QED BY <1>5, <1>8, OptNum
<1>11. [p1 EXCEPT !.opt.num["do_w_stuff_every"] = b] = sized
  <2> HIDE DEF o1, p1, n1
  <2> QED BY <1>7, <1>8, <1>9
<1>12. IsPass(sized) /\ sized.opt = o2 /\ sized.heap = p.heap /\ sized.cfg = p.cfg
  <2> HIDE DEF o2, p1
  <2> QED BY <1>9, <1>10, PutOpt
<1> HIDE DEF n2, o2, p1, sized, fault
<1>13. Turn(p, sized, "filesize", mode)
  BY <1>5, <1>10, <1>12 DEF Turn, StringSettings
<1>14. UseFileSize(p) \in {p, fault, sized}
  BY <1>1, <1>6, <1>11
<1> QED BY <1>2, <1>13, <1>14

\* No two settings of str hold the same string.
Apart(str) == \A s, t \in Strings : s # t /\ str[s] # NULL => str[s] # str[t]

\* A pass that began with the strings of str0 and n0 on the heap: it has them
\* still, or strings of its own that are further up.
Grown(p, str0, n0) ==
  /\ IsPass(p) /\ IsSeq(p.heap) /\ Len(p.heap) \in Nat /\ n0 <= Len(p.heap)
  /\ \A s \in Strings : p.opt.str[s] \in 0..Len(p.heap)
                        /\ (p.opt.str[s] = str0[s] \/ p.opt.str[s] > n0)
  /\ Apart(p.opt.str)

\* A turn keeps the strings of a pass its own.
LEMMA TurnGrows ==
  ASSUME NEW p, NEW str0, NEW n0 \in Nat, Grown(p, str0, n0),
         NEW q, NEW name, NEW mode, Turn(p, q, name, mode)
  PROVE  Grown(q, str0, n0)
<1>1. CASE q.opt.str = p.opt.str /\ Len(q.heap) = Len(p.heap)
  BY <1>1 DEF Turn, Grown
<1>2. ASSUME NEW f \in Strings,
             p.opt.str[f] = NULL, q.opt.str[f] = Len(p.heap) + 1,
             \A g \in Strings \ {f} : q.opt.str[g] = p.opt.str[g],
             Len(q.heap) = Len(p.heap) + 1
      PROVE  Grown(q, str0, n0)
  <2> DEFINE k == Len(p.heap)
             old == p.opt.str
             new == q.opt.str
  <2>1. k \in Nat /\ n0 <= k /\ \A s \in Strings : old[s] \in 0..k /\ (old[s] = str0[s] \/ old[s] > n0)
    BY DEF Grown
  <2>2. new[f] = k + 1 /\ Len(q.heap) = k + 1 /\ \A g \in Strings : g # f => new[g] = old[g]
    BY <1>2
  <2>3. Apart(old)
    BY DEF Grown
  <2>4. IsPass(q) /\ IsSeq(q.heap)
    BY DEF Turn
  <2> HIDE DEF k, old
  <2>5. \A s \in Strings : new[s] \in 0..(k + 1) /\ (new[s] = str0[s] \/ new[s] > n0)
    <3> TAKE s \in Strings
    <3> HIDE DEF new
    <3>1. CASE s = f
      BY <2>1, <2>2, <3>1
    <3>2. CASE s # f
      BY <2>1, <2>2, <3>2
    <3> QED BY <3>1, <3>2
  <2>6. Apart(new)
    <3> SUFFICES ASSUME NEW s \in Strings, NEW t \in Strings, s # t, new[s] # NULL PROVE new[s] # new[t]
      BY DEF Apart
    <3> HIDE DEF new
    <3>1. old[s] \in 0..k /\ old[t] \in 0..k
      BY <2>1
    <3>2. CASE s # f /\ t # f
      BY <2>2, <2>3, <3>2 DEF Apart
    <3>3. CASE s = f \/ t = f
      BY <2>1, <2>2, <3>1, <3>3
    <3> QED BY <3>2, <3>3
  <2> HIDE DEF new
  <2> QED BY <2>1, <2>2, <2>4, <2>5, <2>6 DEF Grown, new
<1> QED BY <1>1, <1>2 DEF Turn

\* The loop over the settings as a fold, and where it starts.
Settings == INSTANCE LeftFolds WITH Op <- OneSetting
Start(theOpt, theHeap, theCfg) ==
  [opt |-> theOpt, heap |-> theHeap, cfg |-> theCfg, filesize |-> -1, result |-> "ok"]

\* The passes of set_from_root, one for every setting it has read.
Passes(F, theOpt, theHeap, theCfg, n, mode) ==
  /\ F[0] = Start(theOpt, theHeap, theCfg)
  /\ set_from_root(theOpt, theHeap, theCfg, mode) = UseFileSize(F[n])
  /\ \A k \in 1..n : F[k] = OneSetting(F[k - 1], k, mode)

\* set_from_root is what its last turn and the use of the filesize come to.
LEMMA SettingBySetting ==
  ASSUME NEW theOpt, NEW theHeap, NEW cfg, NEW n \in Nat, DOMAIN cfg = 1..n, NEW mode
  PROVE  \E F : Passes(F, theOpt, theHeap, cfg, n, mode)
<1> DEFINE start == Start(theOpt, theHeap, cfg)
           top == [T \in SUBSET (1..n) |-> Max(T)]
           seq == [i \in DOMAIN cfg |-> i]
           Step(it) == [T \in SUBSET (1..n) |-> IF T = {} THEN start
                          ELSE OneSetting(it[T \ {Max(T)}], seq[Max(T)], mode)]
<1>1. \A T \in SUBSET (1..n) : T # {} => top[T] \in T /\ \A y \in T : y <= top[T]
  <2> TAKE T \in SUBSET (1..n)
  <2> HAVE T # {}
  <2>1. Max(T) \in T /\ \A y \in T : y <= Max(T)
    BY MaxIs
  <2> QED BY <2>1
<1>2. set_from_root(theOpt, theHeap, cfg, mode)
        = UseFileSize((CHOOSE it : it = Step(it))[1..n])
  <2>1. DOMAIN seq = 1..n
    OBVIOUS
  <2> QED BY <2>1 DEF set_from_root, Start, FoldLeftDomain, FoldLeft, MapThenFoldSet
<1>3. ASSUME NEW g PROVE g = Step(g) <=> Settings!Unfolds(g, n, start, top, mode)
  <2>1. ASSUME NEW T \in SUBSET (1..n), T # {}
        PROVE  seq[Max(T)] = Max(T) /\ top[T] = Max(T)
    <3>1. Max(T) \in 1..n
      BY <2>1, MaxIs
    <3> QED BY <3>1
  <2> HIDE DEF top, seq
  <2> QED BY <2>1 DEF Settings!Unfolds
<1> DEFINE it == CHOOSE g : g = Step(g)
<1> HIDE DEF Step, top, start
<1>4. \E g : Settings!Unfolds(g, n, start, top, mode)
  BY <1>1, Settings!SomeUnfolds
<1>5. Settings!Unfolds(it, n, start, top, mode)
  BY <1>3, <1>4
<1> HIDE DEF it
<1>6. \E F : Settings!Values(F, n, start, mode) /\ F[n] = it[1..n]
  BY <1>1, <1>5, Settings!Unrolls
<1> QED
  BY <1>2, <1>6 DEF it, start, Passes, Settings!Values

\* Reading a configuration gives options that hold strings of their own, and the tracked numbers
\* they had if no setting assigns them.
LEMMA SettingsRead ==
  ASSUME NEW theOpt, IsOpt(theOpt), NEW theHeap, IsSeq(theHeap), Apart(theOpt.str),
         \A s \in Strings : theOpt.str[s] \in 0..Len(theHeap),
         NEW n \in Nat, NEW theCfg, DOMAIN theCfg = 1..n, NEW mode, NEW x \in Tracked
  PROVE  LET q == set_from_root(theOpt, theHeap, theCfg, mode) IN
         /\ Grown(q, theOpt.str, Len(theHeap))
         /\ mode # "write" /\ (\A i \in 1..n : ~Sets(theCfg[i].name, x))
              => q.opt.num[x] = theOpt.num[x]
         /\ mode # "write" /\ (\A i \in 1..n : theCfg[i].name \notin StringSettings)
              => q.opt.str = theOpt.str
<1> DEFINE start == Start(theOpt, theHeap, theCfg)
           total(p) == p.opt.num[x]
           without == mode # "write" /\ \A i \in 1..n : ~Sets(theCfg[i].name, x)
           silent == mode # "write" /\ \A i \in 1..n : theCfg[i].name \notin StringSettings
           n0 == Len(theHeap)
<1>0. PICK F : Passes(F, theOpt, theHeap, theCfg, n, mode)
  BY SettingBySetting
<1>1. /\ F[0] = start
      /\ set_from_root(theOpt, theHeap, theCfg, mode) = UseFileSize(F[n])
      /\ \A k \in 1..n : F[k] = OneSetting(F[k - 1], k, mode)
  BY <1>0 DEF Passes
<1>2. /\ IsPass(start) /\ start.opt = theOpt /\ start.heap = theHeap /\ start.cfg = theCfg
  BY DEF Start, IsPass, PassOf
<1>4. n0 \in Nat
  BY Lengthens
<1> HIDE DEF start, n0
<1> DEFINE Good(p) == Grown(p, theOpt.str, n0) /\ (without => p.cfg = theCfg /\ total(p) = total(start))
                      /\ (silent => p.cfg = theCfg /\ p.opt.str = theOpt.str)
           S == {k \in 0..n : Good(F[k])}
<1> HIDE DEF without, silent
<1>5. Good(start)
  <2>1. Grown(start, theOpt.str, n0)
    BY <1>2, <1>4 DEF Grown, n0
  <2> QED BY <1>2, <2>1
<1>6. ASSUME NEW p, Good(p), NEW q, NEW name, Turn(p, q, name, mode), without => ~Sets(name, x),
             silent => name \notin StringSettings
      PROVE  Good(q)
  <2>1. Grown(q, theOpt.str, n0)
    BY <1>4, <1>6, TurnGrows
  <2>2. without => q.cfg = p.cfg /\ total(q) = total(p)
    BY <1>6 DEF without, Turn
  <2>3. silent => q.cfg = p.cfg /\ q.opt.str = p.opt.str
    BY <1>6 DEF silent, Turn
  <2> QED BY <1>6, <2>1, <2>2, <2>3
<1>7. 0..n \subseteq S
  <2>1. 0 \in S
    <3> HIDE DEF Good
    <3> QED BY <1>1, <1>5
  <2>2. ASSUME NEW k \in 0..(n - 1), k \in S PROVE k + 1 \in S
    <3>1. k + 1 \in 1..n /\ (k + 1) - 1 = k /\ Good(F[k])
      BY <2>2
    <3>2. F[k + 1] = OneSetting(F[k], k + 1, mode)
      BY <1>1, <3>1
    <3>3. IsPass(F[k]) /\ IsSeq(F[k].heap)
      BY <3>1 DEF Grown
    <3>4. Turn(F[k], F[k + 1], F[k].cfg[k + 1].name, mode)
      BY <3>2, <3>3, SettingTurns
    <3>5. without => ~Sets(F[k].cfg[k + 1].name, x)
      BY <3>1 DEF without
    <3>7. silent => F[k].cfg[k + 1].name \notin StringSettings
      BY <3>1 DEF silent
    <3> HIDE DEF Good
    <3>6. Good(F[k + 1])
      BY <1>6, <3>1, <3>4, <3>5, <3>7
    <3> QED BY <3>1, <3>6
  <2> HIDE DEF S
  <2> QED BY <2>1, <2>2, UpTo
<1>8. Good(F[n])
  BY <1>7
<1>9. Good(UseFileSize(F[n]))
  <2>1. IsPass(F[n]) /\ IsSeq(F[n].heap)
    BY <1>8 DEF Grown
  <2>2. Turn(F[n], UseFileSize(F[n]), "filesize", mode)
    BY <2>1, SizeTurns
  <2>3. "filesize" \notin StringSettings /\ ~Sets("filesize", x)
    BY DEF StringSettings, Sets
  <2> HIDE DEF Good
  <2> QED BY <1>6, <1>8, <2>2, <2>3
<1> QED BY <1>1, <1>2, <1>9 DEF n0, without, silent

\* Without settings nothing changes.
LEMMA NothingRead ==
  ASSUME NEW theOpt, NEW theHeap, NEW mode
  PROVE  set_from_root(theOpt, theHeap, <<>>, mode).opt = theOpt
<1>1. DOMAIN <<>> = 1..0
  OBVIOUS
<1>2. PICK F : Passes(F, theOpt, theHeap, <<>>, 0, mode)
  BY <1>1, SettingBySetting
<1>3. set_from_root(theOpt, theHeap, <<>>, mode) = UseFileSize(Start(theOpt, theHeap, <<>>))
  BY <1>2 DEF Passes
<1>4. UseFileSize(Start(theOpt, theHeap, <<>>)).opt = theOpt
  <2> DEFINE start == Start(theOpt, theHeap, <<>>)
             fault == [start EXCEPT !.result = "fault"]
  <2>1. start.filesize = -1 /\ start.opt = theOpt /\ fault.opt = theOpt
    BY DEF Start
  <2>2. start.filesize < 0
    BY <2>1
  <2> HIDE DEF start
  <2>3. UseFileSize(start) \in {start, fault}
    BY <2>2 DEF UseFileSize
  <2> HIDE DEF fault
  <2> QED BY <2>1, <2>3 DEF start
<1> QED BY <1>3, <1>4

-----------------------------------------------------------------------------
(* Owners of strings, and the command line                                  *)

\* Owners 0..n whose strings are on a heap of top strings, and no string is shared.
Private(strs, n, top) ==
  /\ \A i \in 0..n, s \in Strings : strs[i][s] \in 0..top
  /\ \A i, j \in 0..n, s, t \in Strings :
       (i # j \/ s # t) /\ strs[i][s] # NULL => strs[i][s] # strs[j][t]

\* Owner m of new has new strings only, or those it had in old; the others have theirs.
OwnerGrows(old, n, top, new, n2, top2, m) ==
  /\ \A i \in 0..n2 : i # m => i \in 0..n /\ new[i] = old[i]
  /\ \A s \in Strings : /\ new[m][s] \in 0..top2
                        /\ \/ new[m][s] = NULL \/ new[m][s] > top
                           \/ m \in 0..n /\ new[m][s] = old[m][s]
  /\ Apart(new[m])

\* When one owner gets new strings and the others keep theirs, no string is shared.
LEMMA OneGrows ==
  ASSUME NEW old, NEW n \in Nat, NEW top \in Nat, Private(old, n, top),
         NEW new, NEW n2 \in Nat, NEW top2 \in Nat, top <= top2, NEW m \in 0..n2,
         OwnerGrows(old, n, top, new, n2, top2, m)
  PROVE  Private(new, n2, top2)
<1>0. /\ \A i \in 0..n2 : i # m => i \in 0..n /\ new[i] = old[i]
      /\ \A s \in Strings : /\ new[m][s] \in 0..top2
                            /\ \/ new[m][s] = NULL \/ new[m][s] > top
                               \/ m \in 0..n /\ new[m][s] = old[m][s]
      /\ Apart(new[m])
  BY DEF OwnerGrows
<1>1. \A i \in 0..n, s \in Strings : old[i][s] \in 0..top
  BY DEF Private
<1>2. ASSUME NEW i \in 0..n2, NEW s \in Strings PROVE new[i][s] \in 0..top2
  <2>1. CASE i = m
    BY <1>0, <2>1
  <2>2. CASE i # m
    BY <1>0, <1>1, <2>2
  <2> QED BY <2>1, <2>2
<1>3. ASSUME NEW j \in 0..n2, j # m, NEW s \in Strings, NEW t \in Strings, new[m][s] # NULL
      PROVE  new[m][s] # new[j][t]
  <2>1. j \in 0..n /\ new[j][t] = old[j][t] /\ old[j][t] \in 0..top
    BY <1>0, <1>1, <1>3
  <2>2. CASE new[m][s] > top
    BY <2>1, <2>2
  <2>3. CASE m \in 0..n /\ new[m][s] = old[m][s]
    BY <1>0, <1>3, <2>1, <2>3 DEF Private
  <2> QED BY <1>0, <1>3, <2>2, <2>3
<1>4. ASSUME NEW i \in 0..n2, NEW j \in 0..n2, NEW s \in Strings, NEW t \in Strings,
             i # j \/ s # t, new[i][s] # NULL
      PROVE  new[i][s] # new[j][t]
  <2>1. CASE i = m /\ j = m
    BY <1>0, <1>4, <2>1 DEF Apart
  <2>2. CASE i = m /\ j # m
    BY <1>3, <1>4, <2>2
  <2>3. CASE i # m /\ j = m
    <3>1. new[m][t] # NULL => new[m][t] # new[i][s]
      BY <1>3, <2>3
    <3> QED BY <1>4, <2>3, <3>1
  <2>4. CASE i # m /\ j # m
    BY <1>0, <1>4, <2>4 DEF Private
  <2> QED BY <2>1, <2>2, <2>3, <2>4
<1> QED BY <1>2, <1>4 DEF Private

\* A pass of parse_options.
TrioOf(o, h, r) == [opt |-> o, heap |-> h, result |-> r]

\* An option of the command line allocates at most one string, and only -p sets a tracked number.
LEMMA OptionParsed ==
  ASSUME NEW o, IsOpt(o), NEW h, IsSeq(h), NEW r, NEW arg
  PROVE  LET q == OneOption(TrioOf(o, h, r), arg) IN
         /\ IsOpt(q.opt) /\ IsSeq(q.heap)
         /\ \/ q.opt.str = o.str /\ Len(q.heap) = Len(h)
            \/ /\ Len(q.heap) = Len(h) + 1
               /\ \E f \in Strings :
                    /\ q.opt.str[f] = Len(h) + 1
                    /\ \A g \in Strings \ {f} : q.opt.str[g] = o.str[g]
         /\ \A x \in Tracked : \/ q.opt.num[x] = o.num[x]
                                \/ /\ x = "packet_size" /\ arg.option = "p"
                                   /\ q.opt.num[x] = arg.value
<1> DEFINE p == TrioOf(o, h, r)
           a == arg.option
           v == arg.value
           Good(q) ==
             /\ IsOpt(q.opt) /\ IsSeq(q.heap)
             /\ \/ q.opt.str = o.str /\ Len(q.heap) = Len(h)
                \/ /\ Len(q.heap) = Len(h) + 1
                   /\ \E f \in Strings :
                        /\ q.opt.str[f] = Len(h) + 1
                        /\ \A g \in Strings \ {f} : q.opt.str[g] = o.str[g]
             /\ \A x \in Tracked : \/ q.opt.num[x] = o.num[x]
                                    \/ /\ x = "packet_size" /\ arg.option = "p"
                                       /\ q.opt.num[x] = arg.value
<1>1. \A o2, h2, r2 : /\ TrioOf(o2, h2, r2).opt = o2 /\ TrioOf(o2, h2, r2).heap = h2
                      /\ TrioOf(o2, h2, r2).result = r2
                      /\ Failed(TrioOf(o2, h2, r2)) = TrioOf(o2, h2, "error")
  BY DEF TrioOf, Failed
<1>2. Good(p) /\ Good(Failed(p))
  BY <1>1
<1>3. ASSUME NEW off, NEW on PROVE Good(Flags(p, off, on)) /\ Good(Failed(Flags(p, off, on)))
  <2> DEFINE bits == (p.opt.optbits \ off) \cup on
             o2 == [o EXCEPT !.optbits = bits]
  <2> HIDE DEF bits
  <2>1. [p EXCEPT !.opt.optbits = bits] = TrioOf(o2, h, r)
    BY DEF TrioOf
  <2>2. Flags(p, off, on) = [p EXCEPT !.opt.optbits = bits]
    BY DEF Flags, bits
  <2>3. IsOpt(o2) /\ o2.num = o.num /\ o2.str = o.str
    BY OptBits
  <2> HIDE DEF o2, p
  <2>4. Good(TrioOf(o2, h, r)) /\ Good(TrioOf(o2, h, "error"))
    BY <1>1, <2>3
  <2> HIDE DEF Good
  <2> QED BY <1>1, <2>1, <2>2, <2>4
<1>4. ASSUME NEW x \in Numbers, NEW w, x \notin Tracked \/ (x = "packet_size" /\ a = "p" /\ w = v)
      PROVE  Good([p EXCEPT !.opt.num[x] = w])
  <2> DEFINE m == [o.num EXCEPT ![x] = w]
             o2 == [o EXCEPT !.num = m]
  <2>1. [p EXCEPT !.opt.num[x] = w] = TrioOf(o2, h, r)
    BY DEF TrioOf
  <2>2. o.num = [y \in Numbers |-> o.num[y]]
    BY OptFunctions
  <2>3. /\ m = [y \in Numbers |-> m[y]]
        /\ \A y \in Tracked : m[y] = o.num[y] \/ (y = "packet_size" /\ a = "p" /\ m[y] = v)
    <3>1. Tracked \subseteq Numbers
      BY DEF Tracked, Numbers, Int64Settings, IntSettings
    <3>2. \A y \in Numbers : m[y] = IF y = x THEN w ELSE o.num[y]
      BY <2>2
    <3>3. m = [y \in Numbers |-> m[y]]
      BY <2>2
    <3> HIDE DEF m
    <3> QED BY <1>4, <3>1, <3>2, <3>3
  <2> HIDE DEF m
  <2>4. IsOpt(o2) /\ o2.num = m /\ o2.str = o.str
    BY <2>3, OptNum
  <2> HIDE DEF o2, p
  <2>5. Good(TrioOf(o2, h, r))
    BY <1>1, <2>3, <2>4
  <2> HIDE DEF Good
  <2> QED BY <2>1, <2>5
<1>5. ASSUME NEW f \in Strings, NEW w
      PROVE  Good([p EXCEPT !.heap = Append(@, w), !.opt.str[f] = Len(p.heap) + 1])
  <2> DEFINE m == [o.str EXCEPT ![f] = Len(h) + 1]
             o2 == [o EXCEPT !.str = m]
             h2 == Append(h, w)
  <2>1. [p EXCEPT !.heap = Append(@, w), !.opt.str[f] = Len(p.heap) + 1] = TrioOf(o2, h2, r)
    <3> DEFINE k == Len(h) + 1
               p2 == TrioOf(o, h2, r)
    <3>1. p.heap = h /\ p.opt = o
      BY DEF TrioOf
    <3>2. [p EXCEPT !.heap = Append(@, w)] = p2
      BY DEF TrioOf
    <3>3. [p EXCEPT !.heap = Append(@, w), !.opt.str[f] = Len(p.heap) + 1]
            = [[p EXCEPT !.heap = Append(@, w)] EXCEPT !.opt.str[f] = Len(p.heap) + 1]
      OBVIOUS
    <3> HIDE DEF k, p, h2
    <3>4. [p2 EXCEPT !.opt.str[f] = k] = TrioOf([o EXCEPT !.str = [o.str EXCEPT ![f] = k]], h2, r)
      BY DEF TrioOf
    <3> HIDE DEF p2
    <3> QED BY <3>1, <3>2, <3>3, <3>4 DEF k
  <2>2. o.str = [y \in Strings |-> o.str[y]]
    BY OptFunctions
  <2>3. m = [y \in Strings |-> m[y]] /\ m[f] = Len(h) + 1 /\ \A g \in Strings \ {f} : m[g] = o.str[g]
    BY <2>2
  <2>4. IsSeq(h2) /\ Len(h2) = Len(h) + 1
    BY Lengthens
  <2> HIDE DEF m, h2
  <2>5. IsOpt(o2) /\ o2.num = o.num /\ o2.str = m
    BY <2>3, OptStr
  <2> HIDE DEF o2, p
  <2>6. Good(TrioOf(o2, h2, r))
    BY <1>1, <2>3, <2>4, <2>5
  <2> HIDE DEF Good
  <2> QED BY <2>1, <2>6
<1>6. /\ {"do_w_stuff_every", "wait_nanoseconds"} \subseteq Numbers \ Tracked
      /\ \A x \in DOMAIN NumberOption :
           /\ NumberOption[x] \in Numbers
           /\ NumberOption[x] \notin Tracked \/ (x = "p" /\ NumberOption[x] = "packet_size")
      /\ \A x \in DOMAIN StringOption : StringOption[x] \in Strings
  BY DEF Numbers, Int64Settings, IntSettings, NumberOption, StringOption, Strings, StringSettings, Tracked
<1> HIDE DEF p, Good
<1>7. a \in DOMAIN NumberOption => Good([p EXCEPT !.opt.num[NumberOption[a]] = v])
  BY <1>4, <1>6
<1>8. /\ Good([p EXCEPT !.opt.num["do_w_stuff_every"] = v * Meg])
      /\ Good([p EXCEPT !.opt.num["wait_nanoseconds"] = v * 1000])
  BY <1>4, <1>6
<1>9. a \in DOMAIN StringOption =>
        Good([p EXCEPT !.heap = Append(@, v), !.opt.str[StringOption[a]] = Len(p.heap) + 1])
  BY <1>5, <1>6
<1>10. Good(OneOption(p, arg))
  BY <1>2, <1>3, <1>7, <1>8, <1>9 DEF OneOption
<1> QED BY <1>10 DEF p, Good

-----------------------------------------------------------------------------
(* The configuration stored with a recording                                *)

\* A configuration is a sequence of settings.
IsCfg(c) == Len(c) \in Nat /\ DOMAIN c = 1..Len(c)

\* A configuration that a recording of the three sizes t has stored: every setting is one that
\* stub_rec_cfg writes, and it names all the sizes.
IsRec(c, t) ==
  /\ IsCfg(c)
  /\ \A i \in 1..Len(c) :
       \/ c[i].name = "packet_size" /\ c[i].type = "int64" /\ c[i].value = t[1]
       \/ c[i].name = "total_packets" /\ c[i].type = "int64" /\ c[i].value = t[2]
       \/ c[i].name = "cumul" /\ c[i].type = "int64" /\ c[i].value = t[3]
       \/ c[i].name = "buf_division" /\ c[i].type = "int"
       \/ c[i].name = "offset_onwrite"
  /\ \A name \in {"packet_size", "total_packets", "cumul"} : \E i \in 1..Len(c) : c[i].name = name

\* A pass after the assignment of a number.
NumberPut(p, field, v) == [p EXCEPT !.opt.num[field] = v]

\* The assignment of a number leaves all else of a pass.
LEMMA PutNumber ==
  ASSUME NEW p, IsPass(p), NEW field, NEW v
  PROVE  LET q == NumberPut(p, field, v) IN
         /\ IsPass(q) /\ q.heap = p.heap /\ q.cfg = p.cfg /\ q.filesize = p.filesize
         /\ q.result = p.result /\ q.opt.str = p.opt.str /\ q.opt.optbits = p.opt.optbits
         /\ \A x \in Numbers : /\ x = field => q.opt.num[x] = v
                               /\ x # field => q.opt.num[x] = p.opt.num[x]
<1> DEFINE m == [p.opt.num EXCEPT ![field] = v]
           o == [p.opt EXCEPT !.num = m]
           q == [p EXCEPT !.opt = o]
<1>1. NumberPut(p, field, v) = q
  BY DEF NumberPut
<1>2. IsOpt(p.opt)
  BY OptOfPass
<1>3. p.opt.num = [y \in Numbers |-> p.opt.num[y]]
  BY <1>2, OptFunctions
<1>4. m = [y \in Numbers |-> m[y]] /\ \A x \in Numbers : (x = field => m[x] = v) /\ (x # field => m[x] = p.opt.num[x])
  BY <1>3
<1> HIDE DEF m
<1>5. IsOpt(o) /\ o.str = p.opt.str /\ o.num = m /\ o.optbits = p.opt.optbits
  BY <1>2, <1>4, OptNum
<1> HIDE DEF o
<1>6. IsPass(q) /\ q.opt = o /\ q.heap = p.heap /\ q.cfg = p.cfg /\ q.filesize = p.filesize /\ q.result = p.result
  BY <1>5, PutOpt
<1> HIDE DEF q
<1> QED BY <1>1, <1>4, <1>5, <1>6

\* A turn that reads a setting of a stored configuration assigns that setting and nothing else.
LEMMA RecTurn ==
  ASSUME NEW c, NEW t, IsRec(c, t), NEW p, IsPass(p), p.cfg = c, p.result = "ok",
         NEW i \in 1..Len(c)
  PROVE  LET q == OneSetting(p, i, "read") IN
         /\ IsPass(q) /\ q.cfg = c /\ q.filesize = p.filesize /\ q.result = "ok"
         /\ q.opt.str = p.opt.str /\ q.opt.optbits = p.opt.optbits
         /\ \A x \in Numbers : /\ x = c[i].name => q.opt.num[x] = c[i].value
                               /\ x # c[i].name => q.opt.num[x] = p.opt.num[x]
<1> DEFINE name == c[i].name
           put == NumberPut(p, name, c[i].value)
           q == OneSetting(p, i, "read")
           Good(g) == /\ IsPass(g) /\ g.cfg = c /\ g.filesize = p.filesize /\ g.result = "ok"
                      /\ g.opt.str = p.opt.str /\ g.opt.optbits = p.opt.optbits
                      /\ \A x \in Numbers : /\ x = name => g.opt.num[x] = c[i].value
                                            /\ x # name => g.opt.num[x] = p.opt.num[x]
<1> SUFFICES Good(q)
  OBVIOUS
<1>1. name \in {"packet_size", "total_packets", "cumul", "buf_division", "offset_onwrite"}
  BY DEF IsRec
<1>2. CASE name = "offset_onwrite"
  <2>1. q = p
    BY <1>2 DEF OneSetting, BooleanSettings, StringSettings, Int64Settings, IntSettings
  <2>2. name \notin Numbers
    BY <1>2 DEF Numbers, Int64Settings, IntSettings
  <2> HIDE DEF q, name
  <2> QED BY <2>1, <2>2
<1>3. CASE name # "offset_onwrite"
  <2>1. q = FullNumber(p, i, "read", name, c[i].type)
    <3>1. CASE name = "buf_division"
      <4>1. c[i].type = "int"
        BY <3>1 DEF IsRec
      <4> QED BY <3>1, <4>1 DEF OneSetting, BooleanSettings, StringSettings, Int64Settings, IntSettings
    <3>2. CASE name # "buf_division"
      <4>1. c[i].type = "int64"
        BY <1>3, <3>2 DEF IsRec
      <4>2. name \in {"packet_size", "total_packets", "cumul"}
        BY <1>1, <1>3, <3>2
      <4> QED BY <4>1, <4>2 DEF OneSetting, BooleanSettings, StringSettings, Int64Settings, IntSettings
    <3> QED BY <3>1, <3>2
  <2>2. FullNumber(p, i, "read", name, c[i].type) = put
    <3> HIDE DEF name
    <3> QED BY DEF FullNumber, NumberPut
  <2>3. q = put
    BY <2>1, <2>2
  <2>4. Good(put)
    <3>1. p.cfg = c /\ p.result = "ok"
      OBVIOUS
    <3> HIDE DEF name
    <3> QED BY <3>1, PutNumber
  <2> HIDE DEF q, put, Good
  <2> QED BY <2>3, <2>4
<1> HIDE DEF q, Good
<1> QED BY <1>2, <1>3

\* A turn that compares such a setting assigns nothing.
LEMMA RecCheckTurn ==
  ASSUME NEW c, NEW t, IsRec(c, t), NEW p, IsPass(p), p.cfg = c, NEW i \in 1..Len(c)
  PROVE  LET q == OneSetting(p, i, "check") IN
         IsPass(q) /\ q.cfg = c /\ q.filesize = p.filesize /\ q.opt = p.opt
<1> DEFINE name == c[i].name
           q == OneSetting(p, i, "check")
           Good(g) == IsPass(g) /\ g.cfg = c /\ g.filesize = p.filesize /\ g.opt = p.opt
<1> SUFFICES Good(q)
  OBVIOUS
<1>1. name \in {"packet_size", "total_packets", "cumul", "buf_division", "offset_onwrite"}
  BY DEF IsRec
<1>2. \A field, type : FullNumber(p, i, "check", field, type) \in {p, Failed(p)}
  BY DEF FullNumber
<1>3. q \in {p, Failed(p)}
  <2>1. \/ q = p
        \/ q = FullNumber(p, i, "check", name, "int64")
        \/ q = FullNumber(p, i, "check", name, "int")
    <3>1. CASE name = "offset_onwrite"
      BY <3>1 DEF OneSetting, BooleanSettings, StringSettings, Int64Settings, IntSettings
    <3>2. CASE name = "buf_division"
      BY <3>2 DEF OneSetting, BooleanSettings, StringSettings, Int64Settings, IntSettings
    <3>3. CASE name = "packet_size"
      BY <3>3 DEF OneSetting, BooleanSettings, StringSettings, Int64Settings, IntSettings
    <3>4. CASE name = "total_packets"
      BY <3>4 DEF OneSetting, BooleanSettings, StringSettings, Int64Settings, IntSettings
    <3>5. CASE name = "cumul"
      BY <3>5 DEF OneSetting, BooleanSettings, StringSettings, Int64Settings, IntSettings
    <3> HIDE DEF q, name
    <3> QED BY <1>1, <3>1, <3>2, <3>3, <3>4, <3>5
  <2> QED BY <1>2, <2>1
<1>4. Good(p) /\ Good(Failed(p))
  BY PutResult DEF Failed
<1> HIDE DEF q, Good
<1> QED BY <1>3, <1>4

\* Where no configuration named a filesize, none is used.
LEMMA NoFileSize ==
  ASSUME NEW p, IsPass(p), p.filesize = -1
  PROVE  UseFileSize(p).opt = p.opt
<1> DEFINE fault == [p EXCEPT !.result = "fault"]
<1>1. p.filesize < 0
  OBVIOUS
<1>2. UseFileSize(p) \in {p, fault}
  BY <1>1 DEF UseFileSize
<1>3. fault.opt = p.opt
  BY PutResult
<1> HIDE DEF fault
<1> QED BY <1>2, <1>3

\* The pass set_from_root starts from.
LEMMA StartIs ==
  ASSUME NEW o, IsOpt(o), NEW h, NEW c
  PROVE  LET p == Start(o, h, c) IN
         IsPass(p) /\ p.opt = o /\ p.heap = h /\ p.cfg = c /\ p.filesize = -1 /\ p.result = "ok"
<1>1. Start(o, h, c) = PassOf(o, h, c, -1, "ok")
  BY DEF Start, PassOf
<1> QED BY <1>1, PassHas

\* Comparing options with a stored configuration leaves them, also when it differs.
LEMMA RecChecked ==
  ASSUME NEW o, IsOpt(o), NEW h, NEW c, NEW t, IsRec(c, t)
  PROVE  set_from_root(o, h, c, "check").opt = o
<1> DEFINE n == Len(c)
           Good(p) == IsPass(p) /\ p.cfg = c /\ p.filesize = -1 /\ p.opt = o
<1>1. n \in Nat /\ DOMAIN c = 1..n
  BY DEF IsRec, IsCfg
<1>2. PICK F : Passes(F, o, h, c, n, "check")
  BY <1>1, SettingBySetting
<1> DEFINE S == {k \in 0..n : Good(F[k])}
<1>3. 0 \in S
  <2>1. Good(F[0])
    BY <1>2, StartIs DEF Passes
  <2> QED BY <1>1, <2>1
<1>4. ASSUME NEW k \in 0..(n - 1), k \in S PROVE k + 1 \in S
  <2>1. k + 1 \in 1..n /\ (k + 1) - 1 = k /\ Good(F[k])
    BY <1>1, <1>4
  <2>2. F[k + 1] = OneSetting(F[k], k + 1, "check")
    BY <1>2, <2>1 DEF Passes
  <2>3. Good(F[k + 1])
    BY <2>1, <2>2, RecCheckTurn
  <2> HIDE DEF Good
  <2> QED BY <1>1, <2>1, <2>3
<1>5. Good(F[n])
  <2>1. 0..n \subseteq S
    <3> HIDE DEF S, n
    <3> QED BY <1>1, <1>3, <1>4, UpTo
  <2> HIDE DEF Good
  <2> QED BY <1>1, <2>1
<1>6. UseFileSize(F[n]).opt = o
  BY <1>5, NoFileSize
<1> QED BY <1>2, <1>6 DEF Passes

\* What no stored configuration tells: the offset, the size of a file, and how many disks.
SameFiles(o, q) ==
  /\ q.num["offset"] = o.num["offset"] /\ q.num["filesize"] = o.num["filesize"]
  /\ q.num["n_drives"] = o.num["n_drives"]

\* The three sizes of a recording.
Sizes(num) == <<num["packet_size"], num["total_packets"], num["cumul"]>>

\* Reading a stored configuration gives exactly the three sizes of its recording.
LEMMA RecRead ==
  ASSUME NEW o, IsOpt(o), NEW h, NEW c, NEW t, IsRec(c, t)
  PROVE  LET q == set_from_root(o, h, c, "read").opt IN
         /\ IsOpt(q) /\ q.str = o.str /\ q.optbits = o.optbits
         /\ q.num["packet_size"] = t[1] /\ q.num["total_packets"] = t[2] /\ q.num["cumul"] = t[3]
         /\ SameFiles(o, q)
<1> DEFINE n == Len(c)
           Three == {"packet_size", "total_packets", "cumul"}
           size(x) == CASE x = "packet_size" -> t[1] [] x = "total_packets" -> t[2] [] x = "cumul" -> t[3]
           Good(p, k) == /\ IsPass(p) /\ p.cfg = c /\ p.filesize = -1 /\ p.result = "ok"
                         /\ p.opt.str = o.str /\ p.opt.optbits = o.optbits
                         /\ SameFiles(o, p.opt)
                         /\ \A i \in 1..k : c[i].name \in Three => p.opt.num[c[i].name] = size(c[i].name)
<1>1. n \in Nat /\ DOMAIN c = 1..n
  BY DEF IsRec, IsCfg
<1>2. PICK F : Passes(F, o, h, c, n, "read")
  BY <1>1, SettingBySetting
<1>3. \A i \in 1..n : c[i].name \in Three => c[i].value = size(c[i].name)
  BY DEF IsRec
<1>4. Three \subseteq Numbers /\ {"offset", "filesize", "n_drives"} \subseteq Numbers
  BY DEF Numbers, Int64Settings, IntSettings
<1>11. \A i \in 1..n : c[i].name \notin {"offset", "filesize", "n_drives"}
  BY DEF IsRec
<1> DEFINE S == {k \in 0..n : Good(F[k], k)}
<1>5. 0 \in S
  <2>1. Good(F[0], 0)
    <3>1. F[0] = Start(o, h, c)
      BY <1>2 DEF Passes
    <3>2. SameFiles(o, o)
      BY DEF SameFiles
    <3> HIDE DEF size, Three
    <3> QED BY <3>1, <3>2, StartIs
  <2> QED BY <1>1, <2>1
<1>6. ASSUME NEW k \in 0..(n - 1), k \in S PROVE k + 1 \in S
  <2> HIDE DEF size, Three
  <2>1. k + 1 \in 1..n /\ k + 1 \in 0..n /\ (k + 1) - 1 = k /\ Good(F[k], k)
    <3> HIDE DEF Good
    <3> QED BY <1>1, <1>6
  <2> DEFINE p == F[k]
             q == F[k + 1]
  <2>2. q = OneSetting(p, k + 1, "read")
    BY <1>2, <2>1 DEF Passes
  <2>3. /\ IsPass(q) /\ q.cfg = c /\ q.filesize = p.filesize /\ q.result = "ok"
        /\ q.opt.str = p.opt.str /\ q.opt.optbits = p.opt.optbits
        /\ \A x \in Numbers : /\ x = c[k + 1].name => q.opt.num[x] = c[k + 1].value
                              /\ x # c[k + 1].name => q.opt.num[x] = p.opt.num[x]
    <3>1. IsPass(p) /\ p.cfg = c /\ p.result = "ok" /\ k + 1 \in 1..Len(c)
      BY <2>1
    <3> HIDE DEF p, q, n
    <3> QED BY <2>2, <3>1, RecTurn
  <2>4. ASSUME NEW i \in 1..(k + 1), c[i].name \in Three
        PROVE  q.opt.num[c[i].name] = size(c[i].name)
    <3>1. c[i].name \in Numbers /\ i \in 1..n
      BY <1>1, <1>4, <2>1, <2>4
    <3>2. CASE c[i].name = c[k + 1].name
      <4>1. c[k + 1].value = size(c[k + 1].name)
        BY <1>3, <2>1, <2>4, <3>2
      <4> HIDE DEF q, p
      <4> QED BY <2>3, <3>1, <3>2, <4>1
    <3>3. CASE c[i].name # c[k + 1].name
      <4>1. i \in 1..k
        BY <3>3
      <4> QED BY <2>1, <2>3, <2>4, <3>1, <3>3, <4>1
    <3> QED BY <3>2, <3>3
  <2>6. SameFiles(o, q.opt)
    <3>1. SameFiles(o, p.opt) /\ c[k + 1].name \notin {"offset", "filesize", "n_drives"}
      BY <1>11, <2>1
    <3> HIDE DEF p, q
    <3> QED BY <1>4, <2>3, <3>1 DEF SameFiles
  <2>5. Good(q, k + 1)
    BY <2>1, <2>3, <2>4, <2>6
  <2> HIDE DEF Good
  <2> QED BY <2>1, <2>5
<1>7. Good(F[n], n)
  <2>1. 0..n \subseteq S
    <3> HIDE DEF S, n
    <3> QED BY <1>1, <1>5, <1>6, UpTo
  <2> HIDE DEF Good
  <2> QED BY <1>1, <2>1
<1>8. UseFileSize(F[n]).opt = F[n].opt
  BY <1>7, NoFileSize
<1>9. \A x \in Three : F[n].opt.num[x] = size(x)
  <2>1. \A x \in Three : \E i \in 1..n : c[i].name = x
    BY DEF IsRec
  <2> HIDE DEF size, Three
  <2> QED BY <1>7, <2>1
<1>10. IsOpt(F[n].opt)
  BY <1>7, OptOfPass
<1> QED BY <1>2, <1>7, <1>8, <1>9, <1>10 DEF Passes

-----------------------------------------------------------------------------
(* A playback looks for its recording on the disks                          *)

\* The look at the disks as a fold.
LookAt(pass, d, ctx) == Look(pass, d)
Disk == INSTANCE LeftFolds WITH Op <- LookAt
\* A pass of init_cfg.
Duo(o, r) == [opt |-> o, result |-> r]

\* What FindRecording has after the disks up to every one of them.
Looks(F, opt, n) ==
  /\ F[0] = Duo(opt, "ok")
  /\ FindRecording(opt) = F[n]
  /\ \A k \in 1..n : F[k] = Look(F[k - 1], k)

\* init_cfg of a playback is what its look at the last disk comes to.
LEMMA DiskByDisk ==
  ASSUME NEW n \in Nat, n = Drives, NEW opt, Found(opt) # {}
  PROVE  \E F : Looks(F, opt, n)
<1> DEFINE ctx == "disks"
           start == [opt |-> opt, result |-> "ok"]
           top == [T \in SUBSET (1..n) |-> Max(T)]
           seq == [i \in Disks |-> i]
           Step(it) == [T \in SUBSET (1..n) |-> IF T = {} THEN start
                          ELSE Look(it[T \ {Max(T)}], seq[Max(T)])]
<1>1. \A T \in SUBSET (1..n) : T # {} => top[T] \in T /\ \A y \in T : y <= top[T]
  <2> TAKE T \in SUBSET (1..n)
  <2> HAVE T # {}
  <2>1. Max(T) \in T /\ \A y \in T : y <= Max(T)
    BY MaxIs
  <2> QED BY <2>1
<1>2. FindRecording(opt) = (CHOOSE it : it = Step(it))[1..n]
  <2>1. DOMAIN seq = 1..n
    BY DEF Disks
  <2> QED BY <2>1 DEF FindRecording, FoldLeft, MapThenFoldSet
<1>3. ASSUME NEW g PROVE g = Step(g) <=> Disk!Unfolds(g, n, start, top, ctx)
  <2>1. ASSUME NEW T \in SUBSET (1..n), T # {}
        PROVE  seq[Max(T)] = Max(T) /\ top[T] = Max(T)
    <3>1. Max(T) \in 1..n
      BY <2>1, MaxIs
    <3> QED BY <3>1 DEF Disks
  <2> HIDE DEF top, seq
  <2>2. Step(g) = [T \in SUBSET (1..n) |-> IF T = {} THEN start
                     ELSE LookAt(g[T \ {top[T]}], top[T], ctx)]
    <3>1. ASSUME NEW T \in SUBSET (1..n), T # {}
          PROVE  Look(g[T \ {Max(T)}], seq[Max(T)]) = LookAt(g[T \ {top[T]}], top[T], ctx)
      BY <2>1, <3>1 DEF LookAt
    <3> QED BY <3>1
  <2> HIDE DEF Step
  <2> QED BY <2>2 DEF Disk!Unfolds
<1> DEFINE it == CHOOSE g : g = Step(g)
<1> HIDE DEF Step, top, start, ctx
<1>4. \E g : Disk!Unfolds(g, n, start, top, ctx)
  BY <1>1, Disk!SomeUnfolds
<1>5. Disk!Unfolds(it, n, start, top, ctx)
  BY <1>3, <1>4
<1> HIDE DEF it
<1>6. \E F : Disk!Values(F, n, start, ctx) /\ F[n] = it[1..n]
  BY <1>1, <1>5, Disk!Unrolls
<1> QED
  BY <1>2, <1>6 DEF it, start, LookAt, Disk!Values, Looks, Duo

\* Options after the assignment of a number.
OptNumberPut(o, field, v) == [o EXCEPT !.num[field] = v]

\* The assignment of a number leaves all else of the options.
LEMMA PutOptNumber ==
  ASSUME NEW o, IsOpt(o), NEW field, NEW v
  PROVE  LET q == OptNumberPut(o, field, v) IN
         /\ IsOpt(q) /\ q.str = o.str /\ q.optbits = o.optbits
         /\ \A x \in Numbers : /\ x = field => q.num[x] = v
                               /\ x # field => q.num[x] = o.num[x]
<1> DEFINE m == [o.num EXCEPT ![field] = v]
           q == [o EXCEPT !.num = m]
<1>1. OptNumberPut(o, field, v) = q
  BY DEF OptNumberPut
<1>2. o.num = [y \in Numbers |-> o.num[y]]
  BY OptFunctions
<1>3. m = [y \in Numbers |-> m[y]] /\ \A x \in Numbers : (x = field => m[x] = v) /\ (x # field => m[x] = o.num[x])
  BY <1>2
<1> HIDE DEF m
<1>4. IsOpt(q) /\ q.str = o.str /\ q.num = m /\ q.optbits = o.optbits
  BY <1>3, OptNum
<1> HIDE DEF q
<1> QED BY <1>1, <1>3, <1>4

\* The same options but for numbers other than the three sizes of a recording.
SizesKept(o, q) ==
  /\ IsOpt(q) /\ q.str = o.str /\ q.optbits = o.optbits
  /\ Sizes(q.num) = Sizes(o.num)

\* The sizes of buffers and files are none of the three sizes of a recording.
LEMMA ElemsPut ==
  ASSUME NEW o, IsOpt(o), NEW field \in {"buf_num_elems", "filesize"}, NEW v
  PROVE  SizesKept(o, OptNumberPut(o, field, v))
<1> DEFINE q == OptNumberPut(o, field, v)
<1>1. /\ IsOpt(q) /\ q.str = o.str /\ q.optbits = o.optbits
      /\ \A x \in Numbers : x # field => q.num[x] = o.num[x]
  BY PutOptNumber
<1>2. {"packet_size", "total_packets", "cumul"} \subseteq Numbers
  BY DEF Numbers, Int64Settings
<1> HIDE DEF q
<1>3. SizesKept(o, q)
  BY <1>1, <1>2 DEF SizesKept, Sizes
<1> QED BY <1>3 DEF q

\* The number of packets in a buffer is none of them.
LEMMA ElemsOnly ==
  ASSUME NEW o, IsOpt(o), NEW v
  PROVE  SameFiles(o, OptNumberPut(o, "buf_num_elems", v))
<1> DEFINE q == OptNumberPut(o, "buf_num_elems", v)
<1>1. \A x \in Numbers : x # "buf_num_elems" => q.num[x] = o.num[x]
  BY PutOptNumber
<1>2. {"offset", "filesize", "n_drives"} \subseteq Numbers
  BY DEF Numbers, IntSettings
<1> HIDE DEF q
<1>3. SameFiles(o, q)
  BY <1>1, <1>2 DEF SameFiles
<1> QED BY <1>3 DEF q

\* Every configuration on a disk is one that some finished recording wrote.
StoredIs == \A d \in Disks : stored[d] = <<>> \/ \E t \in recorded : IsRec(stored[d], t)

\* The fields of a pass of init_cfg.
LEMMA DuoHas ==
  ASSUME NEW o, NEW r
  PROVE  /\ Duo(o, r).opt = o /\ Duo(o, r).result = r
         /\ Failed(Duo(o, r)) = Duo(o, "error")
BY DEF Duo, Failed

\* They look for the recording on the same disks.
LEMMA SameFound ==
  ASSUME NEW o, NEW q, SameFiles(o, q)
  PROVE  Found(q) = Found(o)
BY DEF SameFiles, Found, Points

\* The options of a playback that has looked at the disks up to k.
Looked(p, o, k) ==
  \E q, r : /\ p = Duo(q, r) /\ IsOpt(q) /\ q.str = o.str /\ q.optbits = o.optbits
            /\ SameFiles(o, q)
            /\ (\E e \in Found(o) : e <= k) => \E t \in recorded : Sizes(q.num) = <<t[1], t[2], t[3]>>

\* One disk: after the first on which the recording is found, the options have the sizes of one
\* recording, and later disks do not change them.
LEMMA LookLooks ==
  ASSUME StoredIs, NEW o, NEW n \in Nat, n = Drives, NEW k \in 1..n, NEW p, Looked(p, o, k - 1)
  PROVE  Looked(Look(p, k), o, k)
<1>1. PICK q, r : /\ p = Duo(q, r) /\ IsOpt(q) /\ q.str = o.str /\ q.optbits = o.optbits
                  /\ SameFiles(o, q)
                  /\ (\E e \in Found(o) : e <= k - 1) => \E t \in recorded : Sizes(q.num) = <<t[1], t[2], t[3]>>
  BY DEF Looked
<1>2. Found(o) \subseteq 1..n /\ k \in Disks
  BY DEF Found, Points, Disks
<1>3. p.opt = q /\ Found(p.opt) = Found(o)
  <2>1. p.opt = q
    BY <1>1, DuoHas
  <2> QED BY <1>1, <2>1, SameFound
<1>4. CASE k \notin Found(o)
  <2>1. Look(p, k) = p
    BY <1>4, <1>3 DEF Look
  <2>2. (\E e \in Found(o) : e <= k) => \E e \in Found(o) : e <= k - 1
    BY <1>2, <1>4
  <2> QED BY <1>1, <2>1, <2>2 DEF Looked
<1>5. CASE k \in Found(o) /\ \A e \in Found(o) : e >= k
  <2> DEFINE read == set_from_root(q, heap, stored[k], "read").opt
             v == read.num["filesize"] \div read.num["packet_size"]
             new == OptNumberPut(read, "buf_num_elems", v)
  <2>1. PICK t \in recorded : IsRec(stored[k], t)
    BY <1>2, <1>5 DEF StoredIs, Found
  <2>2. /\ IsOpt(read) /\ read.str = q.str /\ read.optbits = q.optbits
        /\ read.num["packet_size"] = t[1] /\ read.num["total_packets"] = t[2] /\ read.num["cumul"] = t[3]
        /\ SameFiles(q, read)
    BY <1>1, <2>1, RecRead
  <2>4. Look(p, k) = [p EXCEPT !.opt = new]
    BY <1>5, <1>3 DEF Look, OptNumberPut
  <2>5. [p EXCEPT !.opt = new] = Duo(new, r)
    <3> HIDE DEF new
    <3> QED BY <1>1 DEF Duo
  <2> HIDE DEF read, v
  <2>6. SizesKept(read, new) /\ SameFiles(read, new)
    BY <2>2, ElemsPut, ElemsOnly
  <2> HIDE DEF new
  <2>7. Sizes(new.num) = <<t[1], t[2], t[3]>>
    BY <2>2, <2>6 DEF SizesKept, Sizes
  <2>8. IsOpt(new) /\ new.str = o.str /\ new.optbits = o.optbits
    BY <1>1, <2>2, <2>6 DEF SizesKept
  <2>10. SameFiles(o, new)
    BY <1>1, <2>2, <2>6 DEF SameFiles
  <2>9. Looked(Duo(new, r), o, k)
    BY <2>1, <2>7, <2>8, <2>10 DEF Looked
  <2> QED BY <2>4, <2>5, <2>9
<1>6. CASE k \in Found(o) /\ ~ \A e \in Found(o) : e >= k
  <2> DEFINE new == set_from_root(q, heap, stored[k], "check").opt
  <2>1. PICK t \in recorded : IsRec(stored[k], t)
    BY <1>2, <1>6 DEF StoredIs, Found
  <2>2. new = q
    BY <1>1, <2>1, RecChecked
  <2>4. Look(p, k) = [p EXCEPT !.opt = new]
    BY <1>6, <1>3 DEF Look
  <2> HIDE DEF new
  <2>5. Look(p, k) = p
    BY <1>1, <2>2, <2>4 DEF Duo
  <2>6. \E e \in Found(o) : e <= k - 1
    BY <1>2, <1>6
  <2> QED BY <1>1, <2>5, <2>6 DEF Looked
<1> QED BY <1>4, <1>5, <1>6

\* What the search comes to for options o: the sizes of a finished recording, or the packets the
\* index names, or the packets o has.
FoundFor(o, p) ==
  \E q, r : /\ p = Duo(q, r) /\ IsOpt(q) /\ q.str = o.str /\ q.optbits = o.optbits
            /\ SameFiles(o, q)
            /\ \/ /\ q.num["total_packets"] = o.num["total_packets"]
                  /\ \/ q.num["packet_size"] = o.num["packet_size"]
                     \/ q.num["packet_size"] = indexed
               \/ \E t \in recorded : Sizes(q.num) = <<t[1], t[2], t[3]>>

\* FindRecording changes no string, and gives the sizes of one finished recording or leaves the
\* number of packets.
LEMMA RecordingFound ==
  ASSUME ConfigurationAssumption, StoredIs, NEW o, IsOpt(o)
  PROVE  FoundFor(o, FindRecording(o))
<1> DEFINE Good(p) == FoundFor(o, p)
<1> SUFFICES Good(FindRecording(o))
  OBVIOUS
<1>0. PICK n : n \in Nat /\ n = Drives
  BY DEF ConfigurationAssumption
<1> HIDE DEF Good
<1>1. CASE Found(o) # {}
  <2>1. n \in Nat /\ n = Drives
    BY <1>0
  <2>2. PICK F : Looks(F, o, n)
    BY <1>1, <2>1, DiskByDisk
  <2> DEFINE S == {k \in 0..n : Looked(F[k], o, k)}
  <2>3. Found(o) \subseteq 1..n
    BY <2>1 DEF Found, Points, Disks
  <2>4. 0 \in S
    <3>1. F[0] = Duo(o, "ok") /\ ~ \E e \in Found(o) : e <= 0
      BY <2>1, <2>2, <2>3 DEF Looks
    <3>2. Looked(F[0], o, 0)
      BY <3>1 DEF Looked, SameFiles
    <3> QED BY <2>1, <3>2
  <2>5. ASSUME NEW k \in 0..(n - 1), k \in S PROVE k + 1 \in S
    <3>1. k + 1 \in 1..n /\ (k + 1) - 1 = k
      BY <2>1, <2>5
    <3>2. F[k + 1] = Look(F[k], k + 1)
      BY <2>2, <3>1 DEF Looks
    <3>3. Looked(F[k], o, (k + 1) - 1)
      BY <2>5, <3>1
    <3>4. Looked(Look(F[k], k + 1), o, k + 1)
      BY <2>1, <3>1, <3>3, LookLooks
    <3> QED BY <2>1, <3>1, <3>2, <3>4
  <2>6. 0..n \subseteq S
    <3> HIDE DEF S
    <3> QED BY <2>1, <2>4, <2>5, UpTo
  <2>7. Looked(F[n], o, n)
    BY <2>1, <2>6
  <2>8. \E e \in Found(o) : e <= n
    <3>1. PICK e : e \in Found(o)
      BY <1>1
    <3>2. e \in 1..n
      BY <2>3, <3>1
    <3> QED BY <2>1, <3>1, <3>2
  <2>9. Good(F[n])
    <3> QED BY <2>7, <2>8 DEF Looked, Good, FoundFor
  <2> QED BY <2>2, <2>9 DEF Looks
<1>2. CASE Found(o) = {} /\ Running # {}
  <2> DEFINE q == OptNumberPut(o, "packet_size", indexed)
  <2>1. FindRecording(o) = [Duo(o, "ok") EXCEPT !.opt.num["packet_size"] = indexed]
    BY <1>2 DEF FindRecording, Duo
  <2>2. [Duo(o, "ok") EXCEPT !.opt.num["packet_size"] = indexed] = Duo(q, "ok")
    BY DEF Duo, OptNumberPut
  <2>3. /\ IsOpt(q) /\ q.str = o.str /\ q.optbits = o.optbits /\ q.num["packet_size"] = indexed
        /\ \A x \in {"total_packets", "offset", "filesize", "n_drives"} : q.num[x] = o.num[x]
    <3>1. {"total_packets", "offset", "filesize", "n_drives", "packet_size"} \subseteq Numbers
      BY DEF Numbers, Int64Settings, IntSettings
    <3> QED BY <3>1, PutOptNumber
  <2> HIDE DEF q
  <2>4. Good(Duo(q, "ok"))
    BY <2>3 DEF Good, FoundFor, SameFiles
  <2> QED BY <2>1, <2>2, <2>4
<1>3. CASE Found(o) = {} /\ Running = {}
  <2>1. FindRecording(o) = Failed(Duo(o, "ok"))
    BY <1>3 DEF FindRecording, Duo
  <2>2. Failed(Duo(o, "ok")) = Duo(o, "error")
    BY DEF Failed, Duo
  <2>3. Good(Duo(o, "error"))
    BY DEF Good, FoundFor, SameFiles
  <2> QED BY <2>1, <2>2, <2>3
<1> QED BY <1>1, <1>2, <1>3

-----------------------------------------------------------------------------
(* What a recording writes, and the end of init_cfg                         *)

\* stub_rec_cfg writes the configuration of a recording of its sizes, stripped or not.
LEMMA StubIsRec ==
  ASSUME NEW o, NEW size,
         size = o.num["packet_size"] - (IF "CAN_STRIP_BYTES" \in o.optbits THEN o.num["offset"] ELSE 0)
  PROVE  IsRec(stub_rec_cfg(o), <<size, o.num["total_packets"], o.num["cumul"]>>)
<1> DEFINE a == RecSetting("packet_size", "int64", size)
           b == RecSetting("offset_onwrite", "int", o.num["offset"])
           c == RecSetting("cumul", "int64", o.num["cumul"])
           d == RecSetting("total_packets", "int64", o.num["total_packets"])
           e == RecSetting("buf_division", "int", o.num["buf_division"])
           t == <<size, o.num["total_packets"], o.num["cumul"]>>
<1>1. /\ a.name = "packet_size" /\ a.type = "int64" /\ a.value = t[1]
      /\ d.name = "total_packets" /\ d.type = "int64" /\ d.value = t[2]
      /\ c.name = "cumul" /\ c.type = "int64" /\ c.value = t[3]
      /\ e.name = "buf_division" /\ e.type = "int"
      /\ b.name = "offset_onwrite"
  BY DEF RecSetting
<1>2. CASE "CAN_STRIP_BYTES" \in o.optbits
  <2> DEFINE s == <<a>> \o <<b>> \o <<c, d, e>>
  <2>1. stub_rec_cfg(o) = s
    BY <1>2 DEF stub_rec_cfg
  <2> HIDE DEF a, b, c, d, e, t
  <2>3. Len(s) = 5 /\ DOMAIN s = 1..5 /\ s[1] = a /\ s[2] = b /\ s[3] = c /\ s[4] = d /\ s[5] = e
    OBVIOUS
  <2> HIDE DEF s
  <2>4. IsRec(s, t)
    <3>1. IsCfg(s)
      BY <2>3 DEF IsCfg
    <3> QED BY <1>1, <2>3, <3>1 DEF IsRec
  <2> QED BY <2>1, <2>4 DEF t
<1>3. CASE "CAN_STRIP_BYTES" \notin o.optbits
  <2> DEFINE s == <<a>> \o <<>> \o <<c, d, e>>
  <2>1. stub_rec_cfg(o) = s
    BY <1>3 DEF stub_rec_cfg
  <2> HIDE DEF a, b, c, d, e, t
  <2>3. Len(s) = 4 /\ DOMAIN s = 1..4 /\ s[1] = a /\ s[2] = c /\ s[3] = d /\ s[4] = e
    OBVIOUS
  <2> HIDE DEF s
  <2>4. IsRec(s, t)
    <3>1. IsCfg(s)
      BY <2>3 DEF IsCfg
    <3> QED BY <1>1, <2>3, <3>1 DEF IsRec
  <2> QED BY <2>1, <2>4 DEF t
<1> QED BY <1>2, <1>3

\* What a step of init_cfg does to a pass of options o.
Resized(o, p) == \E q, r : p = Duo(q, r) /\ SizesKept(o, q)

\* The alignment at the end of init_cfg changes none of the three sizes.
LEMMA AlignedResizes ==
  ASSUME NEW o, IsOpt(o), NEW r
  PROVE  Resized(o, AlignSingleFile(Duo(o, r)))
<1> DEFINE p == Duo(o, r)
           al == Aligned(p)
<1>0. SizesKept(o, o)
  BY DEF SizesKept
<1>1. Resized(o, p) /\ Resized(o, Failed(p)) /\ Resized(o, [p EXCEPT !.result = "fault"])
  <2>1. [p EXCEPT !.result = "fault"] = Duo(o, "fault")
    BY DEF Duo
  <2> QED BY <1>0, <2>1, DuoHas DEF Resized
<1>2. ASSUME NEW q, NEW s, NEW v, NEW field \in {"buf_num_elems", "filesize"}, SizesKept(o, q)
      PROVE  Resized(o, [Duo(q, s) EXCEPT !.opt.num[field] = v])
  <2> DEFINE new == OptNumberPut(q, field, v)
  <2>1. [Duo(q, s) EXCEPT !.opt.num[field] = v] = Duo(new, s)
    BY DEF Duo, OptNumberPut
  <2>2. SizesKept(q, new)
    BY <1>2, ElemsPut DEF SizesKept
  <2> HIDE DEF new
  <2>3. SizesKept(o, new)
    BY <1>2, <2>2 DEF SizesKept
  <2>4. Resized(o, Duo(new, s))
    BY <2>3 DEF Resized
  <2> QED BY <2>1, <2>4
<1>3. Resized(o, al)
  <2>1. al = Failed(p) \/ \E v : al = [p EXCEPT !.opt.num["buf_num_elems"] = v]
    BY DEF Aligned
  <2>2. \A v : Resized(o, [Duo(o, r) EXCEPT !.opt.num["buf_num_elems"] = v])
    BY <1>0, <1>2
  <2> HIDE DEF al
  <2> QED BY <1>1, <2>1, <2>2
<1>4. PICK q, s : al = Duo(q, s) /\ SizesKept(o, q)
  BY <1>3 DEF Resized
<1>5. \/ AlignSingleFile(p) = p
      \/ AlignSingleFile(p) = [p EXCEPT !.result = "fault"]
      \/ AlignSingleFile(p) = al
      \/ \E v : AlignSingleFile(p) = [al EXCEPT !.opt.num["filesize"] = v]
  <2> HIDE DEF p
  <2> QED BY DEF AlignSingleFile, p
<1>6. \A v : Resized(o, [Duo(q, s) EXCEPT !.opt.num["filesize"] = v])
  BY <1>2, <1>4
<1> HIDE DEF p, al
<1>7. Resized(o, AlignSingleFile(p))
  BY <1>1, <1>3, <1>4, <1>5, <1>6
<1> QED BY <1>7 DEF p

\* What init_cfg comes to for options o.
Prepared(o, p) ==
  \E q, r : /\ p = Duo(q, r) /\ IsOpt(q) /\ q.str = o.str /\ q.optbits = o.optbits
            /\ \/ q.num["total_packets"] = o.num["total_packets"]
               \/ \E t \in recorded : Sizes(q.num) = <<t[1], t[2], t[3]>>

\* What init_cfg does, for a playback and for a recording.
LEMMA InitPrepares ==
  ASSUME ConfigurationAssumption, StoredIs, NEW o, IsOpt(o)
  PROVE  Prepared(o, init_cfg(o))
<1> DEFINE p == IF "READMODE" \in o.optbits THEN FindRecording(o) ELSE ClaimName(o)
<1>1. Prepared(o, p)
  <2>1. CASE "READMODE" \in o.optbits
    BY <2>1, RecordingFound DEF Prepared, FoundFor
  <2>2. CASE "READMODE" \notin o.optbits
    <3>1. \E r : p = Duo(o, r)
      BY <2>2 DEF ClaimName, Duo
    <3> HIDE DEF p
    <3> QED BY <3>1 DEF Prepared
  <2> QED BY <2>1, <2>2
<1>2. PICK q, r : /\ p = Duo(q, r) /\ IsOpt(q) /\ q.str = o.str /\ q.optbits = o.optbits
                  /\ \/ q.num["total_packets"] = o.num["total_packets"]
                     \/ \E t \in recorded : Sizes(q.num) = <<t[1], t[2], t[3]>>
  <2> HIDE DEF p
  <2> QED BY <1>1 DEF Prepared
<1>3. init_cfg(o) = AlignSingleFile(p)
  BY DEF init_cfg
<1> HIDE DEF p
<1>4. PICK q2, r2 : AlignSingleFile(p) = Duo(q2, r2) /\ SizesKept(q, q2)
  BY <1>2, AlignedResizes DEF Resized
<1>5. /\ IsOpt(q2) /\ q2.str = o.str /\ q2.optbits = o.optbits
      /\ q2.num["total_packets"] = q.num["total_packets"] /\ Sizes(q2.num) = Sizes(q.num)
  BY <1>2, <1>4 DEF SizesKept, Sizes
<1> QED BY <1>2, <1>3, <1>4, <1>5 DEF Prepared

-----------------------------------------------------------------------------
(* The invariant of the strings                                             *)

\* A sequence is a function on the indices up to its length.
LEMMA SeqIs ==
  ASSUME NEW h, IsSeq(h)
  PROVE  Len(h) \in Nat /\ DOMAIN h = 1..Len(h) /\ h = [i \in 1..Len(h) |-> h[i]]
BY DEF IsSeq

\* A sequence after the assignment to one index.
SeqWith(h, k, v) == [h EXCEPT ![k] = v]

\* The assignment to one index leaves the others.
LEMMA SeqPut ==
  ASSUME NEW h, IsSeq(h), NEW k \in 1..Len(h), NEW v, NEW g, g = SeqWith(h, k, v)
  PROVE  /\ IsSeq(g) /\ Len(g) = Len(h) /\ g[k] = v
         /\ \A i \in 1..Len(h) : i # k => g[i] = h[i]
<1>1. IsSeq(g) /\ Len(g) = Len(h)
  BY Overwrites DEF SeqWith
<1>2. Len(h) \in Nat /\ h = [i \in 1..Len(h) |-> h[i]]
  BY SeqIs
<1>3. g[k] = v /\ \A i \in 1..Len(h) : i # k => g[i] = h[i]
  BY <1>2 DEF SeqWith
<1> QED BY <1>1, <1>3

\* Append leaves the indices there were.
LEMMA SeqAdd ==
  ASSUME NEW h, IsSeq(h), NEW v
  PROVE  LET g == Append(h, v) IN
         /\ IsSeq(g) /\ Len(g) = Len(h) + 1 /\ Len(h) \in Nat /\ g[Len(h) + 1] = v
         /\ \A i \in 1..Len(h) : g[i] = h[i]
<1> DEFINE g == Append(h, v)
<1>1. IsSeq(g) /\ Len(g) = Len(h) + 1 /\ Len(h) \in Nat
  BY Lengthens
<1>2. PICK S : h \in Seq(S)
  BY DEF IsSeq
<1>3. g[Len(h) + 1] = v /\ \A i \in 1..Len(h) : g[i] = h[i]
  BY <1>2
<1> QED BY <1>1, <1>3

\* Two more strings on the heap.
LEMMA TwoMore ==
  ASSUME NEW h, IsSeq(h), NEW v, NEW w
  PROVE  IsSeq(h \o <<v, w>>) /\ Len(h \o <<v, w>>) = Len(h) + 2
<1>1. PICK S : h \in Seq(S)
  BY DEF IsSeq
<1>2. h \in Seq(S \cup {v, w}) /\ <<v, w>> \in Seq(S \cup {v, w}) /\ Len(<<v, w>>) = 2
  BY <1>1
<1> DEFINE t == <<v, w>>
           U == S \cup {v, w}
<1> HIDE DEF t, U
<1>3. h \o t \in Seq(U) /\ Len(h \o t) = Len(h) + Len(t)
  BY <1>2 DEF t, U
<1> QED BY <1>2, <1>3 DEF IsSeq, t

\* Options after the assignment of a string.
OptStringPut(o, f, v) == [o EXCEPT !.str[f] = v]

\* The assignment of a string leaves all else of the options.
LEMMA PutOptString ==
  ASSUME NEW o, IsOpt(o), NEW f \in Strings, NEW v
  PROVE  LET q == OptStringPut(o, f, v) IN
         /\ IsOpt(q) /\ q.num = o.num /\ q.optbits = o.optbits
         /\ q.str[f] = v /\ \A g \in Strings \ {f} : q.str[g] = o.str[g]
<1> DEFINE m == [o.str EXCEPT ![f] = v]
           q == [o EXCEPT !.str = m]
           Good(g) == /\ IsOpt(g) /\ g.num = o.num /\ g.optbits = o.optbits
                      /\ g.str[f] = v /\ \A x \in Strings \ {f} : g.str[x] = o.str[x]
<1> SUFFICES Good(q)
  BY DEF OptStringPut
<1>2. o.str = [y \in Strings |-> o.str[y]]
  BY OptFunctions
<1>3. m = [y \in Strings |-> m[y]] /\ m[f] = v /\ \A x \in Strings \ {f} : m[x] = o.str[x]
  BY <1>2
<1> HIDE DEF m
<1>4. IsOpt(q) /\ q.optbits = o.optbits /\ q.num = o.num /\ q.str = m
  BY <1>3, OptStr
<1> HIDE DEF q
<1> QED BY <1>3, <1>4

\* No owner holds a string twice, and all are on the heap.
LEMMA PrivateIsApart ==
  ASSUME NEW strs, NEW n, NEW top, Private(strs, n, top), NEW i \in 0..n
  PROVE  Apart(strs[i]) /\ \A s \in Strings : strs[i][s] \in 0..top
BY DEF Private, Apart

\* The owners of strings: the default options, owner 0, and the sessions.
Owners == [i \in 0..Len(sessions) |-> IF i = 0 THEN default.str ELSE sessions[i].opt.str]

\* The invariant of the strings.  PrivateStrings alone is not inductive: a string beyond the end of
\* the heap would be shared with the next one allocated, and a stored configuration that names a
\* string would have a playback allocate one.
StringsInv ==
  /\ IsSeq(heap) /\ IsOpt(default) /\ IsSeq(sessions)
  /\ \A k \in 1..Len(sessions) : IsOpt(sessions[k].opt)
  /\ \E f \in DOMAIN Files : cfgfile = Files[f]
  /\ Private(Owners, Len(sessions), Len(heap))
  /\ StoredIs

\* The invariant implies the property.
LEMMA StringsHold ==
  ASSUME StringsInv
  PROVE  PrivateStrings
<1> DEFINE n == Len(sessions)
           rest == [s \in DOMAIN sessions |-> sessions[s].opt]
           opts == <<default>> \o rest
           at == {x \in (DOMAIN opts) \X Strings : opts[x[1]].str[x[2]] # NULL}
<1>1. n \in Nat /\ DOMAIN sessions = 1..n
  BY SeqIs DEF StringsInv
<1>2. DOMAIN opts = 1..(n + 1) /\ opts[1] = default /\ \A k \in 1..n : opts[k + 1] = sessions[k].opt
  <2>1. Len(<<default>>) = 1 /\ <<default>>[1] = default
    OBVIOUS
  <2>2. rest = [s \in 1..n |-> sessions[s].opt] /\ DOMAIN rest = 1..n
    BY <1>1
  <2> HIDE DEF n
  <2>3. rest \in Seq({sessions[s].opt : s \in 1..n}) /\ Len(rest) = n
    BY <1>1, <2>2
  <2> DEFINE one == <<default>>
  <2>4. one \in Seq({default})
    OBVIOUS
  <2>5. \A k \in 1..n : rest[k] = sessions[k].opt
    BY <2>2
  <2> HIDE DEF rest, one
  <2>6. DOMAIN (one \o rest) = 1..(n + 1) /\ (one \o rest)[1] = one[1] /\ \A k \in 1..n : (one \o rest)[k + 1] = rest[k]
    BY <1>1, <2>1, <2>3, <2>4 DEF one
  <2> QED BY <2>1, <2>5, <2>6 DEF one
<1>3. \A i \in 1..(n + 1) : i - 1 \in 0..n /\ opts[i].str = Owners[i - 1]
  <2> TAKE i \in 1..(n + 1)
  <2>1. i - 1 \in 0..n
    BY <1>1
  <2>2. CASE i = 1
    BY <1>1, <1>2, <2>1, <2>2 DEF Owners
  <2>3. CASE i # 1
    <3>1. i - 1 \in 1..n /\ (i - 1) + 1 = i
      BY <1>1, <2>3
    <3>2. opts[i] = sessions[i - 1].opt
      BY <1>2, <3>1
    <3> HIDE DEF opts
    <3> QED BY <2>1, <2>3, <3>2 DEF Owners
  <2> QED BY <2>2, <2>3
<1> HIDE DEF opts, n
<1>4. ASSUME NEW x \in at, NEW y \in at, x # y
      PROVE  opts[x[1]].str[x[2]] # opts[y[1]].str[y[2]]
  <2>1. /\ x[1] \in 1..(n + 1) /\ y[1] \in 1..(n + 1) /\ x[2] \in Strings /\ y[2] \in Strings
        /\ x = <<x[1], x[2]>> /\ y = <<y[1], y[2]>> /\ opts[x[1]].str[x[2]] # NULL
    BY <1>2
  <2>2. x[1] - 1 \in 0..n /\ y[1] - 1 \in 0..n
    BY <1>3, <2>1
  <2>3. x[1] - 1 # y[1] - 1 \/ x[2] # y[2]
    <3>1. x[1] # y[1] \/ x[2] # y[2]
      BY <1>4, <2>1
    <3> QED BY <1>1, <2>1, <3>1
  <2>4. Private(Owners, n, Len(heap))
    BY DEF StringsInv, n
  <2>5. Owners[x[1] - 1][x[2]] # NULL
    BY <1>3, <2>1
  <2>6. Owners[x[1] - 1][x[2]] # Owners[y[1] - 1][y[2]]
    BY <2>1, <2>2, <2>3, <2>4, <2>5 DEF Private
  <2> QED BY <1>3, <2>1, <2>6
<1> QED BY <1>4 DEF PrivateStrings, opts

\* The options of clear_and_default.
LEMMA DefaultsAre ==
  /\ IsOpt(clear_and_default) /\ clear_and_default.str = [s \in Strings |-> NULL]
  /\ clear_and_default.num["total_packets"] = 0 /\ clear_and_default.num["offset"] = 0
  /\ clear_and_default.num["filesize"] = 0
  /\ clear_and_default.num["packet_size"] = 2 * RingAlign
<1> DEFINE o == clear_and_default
           num(n) == CASE n \in {"n_drives", "stream_multiply"} -> 1
                       [] n = "packet_size" -> 2 * RingAlign
                       [] n = "maxmem" -> 2
                       [] OTHER -> 0
           m == [n \in Numbers |-> num(n)]
           str == [s \in Strings |-> NULL]
<1>1. o = OptOf(o.optbits, m, str)
  BY DEF OptOf, clear_and_default
<1>2. /\ num("total_packets") = 0 /\ num("offset") = 0 /\ num("filesize") = 0
      /\ num("packet_size") = 2 * RingAlign
  OBVIOUS
<1>5. {"total_packets", "offset", "filesize", "packet_size"} \subseteq Numbers
  BY DEF Numbers, Int64Settings, IntSettings
<1> HIDE DEF num, o
<1>3. /\ m = [n \in Numbers |-> m[n]] /\ str = [s \in Strings |-> str[s]]
      /\ m["total_packets"] = 0 /\ m["offset"] = 0 /\ m["filesize"] = 0
      /\ m["packet_size"] = 2 * RingAlign
  BY <1>2, <1>5
<1> HIDE DEF m, str
<1>4. IsOpt(o) /\ o.str = str /\ o.num = m
  BY <1>1, <1>3 DEF IsOpt, OptOf
<1> QED BY <1>3, <1>4 DEF o, str

\* The strings at the start: there are none.
LEMMA StringsInit ==
  ASSUME Init
  PROVE  StringsInv
<1>1. heap = <<>> /\ sessions = <<>> /\ Len(heap) = 0 /\ Len(sessions) = 0
  BY DEF Init
<1>2. IsSeq(heap) /\ IsSeq(sessions)
  <2>1. <<>> \in Seq({})
    OBVIOUS
  <2> QED BY <1>1, <2>1 DEF IsSeq
<1>3. IsOpt(default) /\ default.str = [s \in Strings |-> NULL]
  <2>1. default = clear_and_default
    BY DEF Init
  <2> QED BY <2>1, DefaultsAre
<1>4. \E f \in DOMAIN Files : cfgfile = Files[f]
  BY DEF Init
<1>5. Private(Owners, Len(sessions), Len(heap))
  <2>1. \A s \in Strings : Owners[0][s] = 0
    BY <1>1, <1>3 DEF Owners, NULL
  <2> QED BY <1>1, <2>1 DEF Private, NULL
<1>6. StoredIs
  BY DEF Init, StoredIs
<1> QED BY <1>1, <1>2, <1>3, <1>4, <1>5, <1>6 DEF StringsInv

\* What the invariant says of an owner.
LEMMA OwnersAre ==
  ASSUME StringsInv
  PROVE  /\ Len(sessions) \in Nat /\ Len(heap) \in Nat
         /\ Owners[0] = default.str /\ \A k \in 1..Len(sessions) : Owners[k] = sessions[k].opt.str
         /\ \A i \in 0..Len(sessions) :
              Apart(Owners[i]) /\ \A s \in Strings : Owners[i][s] \in 0..Len(heap)
<1>1. Len(sessions) \in Nat /\ Len(heap) \in Nat
  BY SeqIs DEF StringsInv
<1>2. Owners[0] = default.str /\ \A k \in 1..Len(sessions) : Owners[k] = sessions[k].opt.str
  BY <1>1 DEF Owners
<1>3. Private(Owners, Len(sessions), Len(heap))
  BY DEF StringsInv
<1>4. \A i \in 0..Len(sessions) :
              Apart(Owners[i]) /\ \A s \in Strings : Owners[i][s] \in 0..Len(heap)
  BY <1>3, PrivateIsApart
<1> QED BY <1>1, <1>2, <1>4

\* The default options get strings of their own.
LEMMA DefaultGrows ==
  ASSUME StringsInv, sessions' = sessions, IsSeq(heap'), Len(heap) <= Len(heap'),
         \A s \in Strings : /\ default'.str[s] \in 0..Len(heap')
                            /\ (default'.str[s] = default.str[s] \/ default'.str[s] > Len(heap)),
         Apart(default'.str)
  PROVE  Private(Owners', Len(sessions'), Len(heap'))
<1> DEFINE n == Len(sessions)
           old == Owners
           new == Owners'
<1>1. n \in Nat /\ Len(heap) \in Nat /\ Len(heap') \in Nat /\ old[0] = default.str
  BY OwnersAre, SeqIs
<1>2. new = [i \in 0..n |-> IF i = 0 THEN default'.str ELSE sessions[i].opt.str]
  BY DEF Owners
<1>3. 0 \in 0..n /\ new[0] = default'.str /\ \A i \in 0..n : i # 0 => new[i] = old[i]
  BY <1>1, <1>2 DEF Owners
<1>4. Private(old, n, Len(heap))
  BY DEF StringsInv
<1> HIDE DEF n, old, new
<1>5. Private(new, n, Len(heap'))
  <2>1. \A s \in Strings : /\ new[0][s] \in 0..Len(heap')
                           /\ \/ new[0][s] = NULL \/ new[0][s] > Len(heap)
                              \/ 0 \in 0..n /\ new[0][s] = old[0][s]
    BY <1>1, <1>3
  <2>2. \A i \in 0..n : i # 0 => i \in 0..n /\ new[i] = old[i]
    BY <1>3
  <2>3. Apart(new[0])
    BY <1>3
  <2>4. OwnerGrows(old, n, Len(heap), new, n, Len(heap'), 0)
    BY <2>1, <2>2, <2>3 DEF OwnerGrows
  <2> QED BY <1>1, <1>3, <1>4, <2>4, OneGrows
<1> QED BY <1>5 DEF n, new

\* One session is added, or gets other options; its strings are its own.
LEMMA SessionGrows ==
  ASSUME StringsInv, default' = default, IsSeq(heap'), Len(heap) <= Len(heap'), NEW n2 \in Nat,
         Len(sessions') = n2, NEW m \in 1..n2,
         \A k \in 1..n2 : k # m => k \in 1..Len(sessions) /\ sessions'[k] = sessions[k],
         \A s \in Strings :
           /\ sessions'[m].opt.str[s] \in 0..Len(heap')
           /\ \/ sessions'[m].opt.str[s] = NULL \/ sessions'[m].opt.str[s] > Len(heap)
              \/ m \in 1..Len(sessions) /\ sessions'[m].opt.str = sessions[m].opt.str,
         Apart(sessions'[m].opt.str)
  PROVE  Private(Owners', Len(sessions'), Len(heap'))
<1> DEFINE n == Len(sessions)
           old == Owners
           new == Owners'
           top == Len(heap)
           top2 == Len(heap')
<1>1. n \in Nat /\ top \in Nat /\ top2 \in Nat /\ old[0] = default.str
      /\ \A k \in 1..n : old[k] = sessions[k].opt.str
  BY OwnersAre, SeqIs
<1>2. new = [i \in 0..n2 |-> IF i = 0 THEN default.str ELSE sessions'[i].opt.str]
  BY DEF Owners
<1>3. m \in 0..n2 /\ new[0] = default.str /\ \A i \in 1..n2 : new[i] = sessions'[i].opt.str
  BY <1>2
<1>4. Private(old, n, top)
  BY DEF StringsInv
<1>6. top <= top2
  OBVIOUS
<1> HIDE DEF n, old, new, top, top2
<1>5. Private(new, n2, top2)
  <2>1. \A s \in Strings : /\ new[m][s] \in 0..top2
                           /\ \/ new[m][s] = NULL \/ new[m][s] > top
                              \/ m \in 0..n /\ new[m][s] = old[m][s]
    <3> TAKE s \in Strings
    <3>1. new[m] = sessions'[m].opt.str
      BY <1>3
    <3>2. CASE m \in 1..Len(sessions) /\ sessions'[m].opt.str = sessions[m].opt.str
      BY <1>1, <3>1, <3>2 DEF n, top2
    <3>3. CASE ~(m \in 1..Len(sessions) /\ sessions'[m].opt.str = sessions[m].opt.str)
      BY <3>1, <3>3 DEF top, top2
    <3> QED BY <3>2, <3>3
  <2>2. ASSUME NEW i \in 0..n2, i # m PROVE i \in 0..n /\ new[i] = old[i]
    <3>1. CASE i = 0
      BY <1>1, <1>3, <3>1
    <3>2. CASE i # 0
      <4>1. i \in 1..n2 /\ i \in 1..n /\ sessions'[i] = sessions[i]
        BY <2>2, <3>2 DEF n
      <4> QED BY <1>1, <1>3, <4>1
    <3> QED BY <3>1, <3>2
  <2>3. Apart(new[m])
    BY <1>3
  <2>4. n \in Nat /\ top \in Nat /\ top2 \in Nat /\ m \in 0..n2
    BY <1>1, <1>3
  <2>5. OwnerGrows(old, n, top, new, n2, top2, m)
    BY <2>1, <2>2, <2>3 DEF OwnerGrows
  <2> QED BY <1>4, <1>6, <2>4, <2>5, OneGrows
<1> QED BY <1>5 DEF n, new, top2

\* The lemmas' premises about the sessions, when only one of them changes.
LEMMA OneSession ==
  ASSUME StringsInv, NEW m \in 1..Len(sessions), NEW v, IsOpt(v.opt),
         sessions' = SeqWith(sessions, m, v)
  PROVE  /\ IsSeq(sessions') /\ Len(sessions') = Len(sessions) /\ sessions'[m] = v
         /\ \A k \in 1..Len(sessions) : k # m => sessions'[k] = sessions[k]
         /\ \A k \in 1..Len(sessions') : IsOpt(sessions'[k].opt)
<1>1. /\ IsSeq(sessions') /\ Len(sessions') = Len(sessions) /\ sessions'[m] = v
      /\ \A k \in 1..Len(sessions) : k # m => sessions'[k] = sessions[k]
  <2>1. sessions' = SeqWith(sessions, m, v) /\ IsSeq(sessions)
    BY DEF StringsInv
  <2> QED BY <2>1, SeqPut
<1>2. \A k \in 1..Len(sessions') : IsOpt(sessions'[k].opt)
  BY <1>1 DEF StringsInv
<1> QED BY <1>1, <1>2

\* The options of one session change, but not their strings.
LEMMA SessionKept ==
  ASSUME StringsInv, default' = default, heap' = heap, NEW m \in 1..Len(sessions), NEW v,
         IsOpt(v.opt), v.opt.str = sessions[m].opt.str, sessions' = SeqWith(sessions, m, v),
         cfgfile' = cfgfile, StoredIs'
  PROVE  StringsInv'
<1>1. /\ IsSeq(sessions') /\ Len(sessions') = Len(sessions) /\ sessions'[m] = v
      /\ \A k \in 1..Len(sessions) : k # m => sessions'[k] = sessions[k]
      /\ \A k \in 1..Len(sessions') : IsOpt(sessions'[k].opt)
  BY OneSession
<1>2. Len(sessions) \in Nat /\ Len(heap) \in Nat /\ m \in 0..Len(sessions) /\ Owners[m] = sessions[m].opt.str
  BY OwnersAre
<1>3. Apart(Owners[m]) /\ \A s \in Strings : Owners[m][s] \in 0..Len(heap)
  BY <1>2, OwnersAre
<1>4. IsSeq(heap')
  BY DEF StringsInv
<1>5. Private(Owners', Len(sessions'), Len(heap'))
  <2>1. \A k \in 1..Len(sessions) : k # m => k \in 1..Len(sessions) /\ sessions'[k] = sessions[k]
    BY <1>1
  <2>2. \A s \in Strings :
           /\ sessions'[m].opt.str[s] \in 0..Len(heap')
           /\ \/ sessions'[m].opt.str[s] = NULL \/ sessions'[m].opt.str[s] > Len(heap)
              \/ m \in 1..Len(sessions) /\ sessions'[m].opt.str = sessions[m].opt.str
    BY <1>1, <1>2, <1>3
  <2>3. Apart(sessions'[m].opt.str) /\ Len(heap) <= Len(heap')
    BY <1>1, <1>2, <1>3
  <2> QED BY <1>1, <1>2, <1>4, <2>1, <2>2, <2>3, SessionGrows
<1> QED BY <1>1, <1>4, <1>5 DEF StringsInv

\* An option of the command line: optarg is copied to a new string.
LEMMA StringsParseOption ==
  ASSUME StringsInv, ParseOption
  PROVE  StringsInv'
<1> DEFINE pass == OneOption(TrioOf(default, heap, "ok"), argv[optind])
           top == Len(heap)
<1>1. /\ default' = pass.opt /\ heap' = pass.heap
      /\ sessions' = sessions /\ cfgfile' = cfgfile /\ stored' = stored /\ recorded' = recorded
  BY DEF ParseOption, TrioOf, archive
<1>2. IsOpt(default) /\ IsSeq(heap)
  BY DEF StringsInv
<1>3. /\ IsOpt(pass.opt) /\ IsSeq(pass.heap)
      /\ \/ pass.opt.str = default.str /\ Len(pass.heap) = top
         \/ /\ Len(pass.heap) = top + 1
            /\ \E f \in Strings :
                 /\ pass.opt.str[f] = top + 1
                 /\ \A g \in Strings \ {f} : pass.opt.str[g] = default.str[g]
  BY <1>2, OptionParsed
<1> HIDE DEF pass
<1>4. /\ top \in Nat /\ Apart(default.str) /\ \A s \in Strings : default.str[s] \in 0..top
  BY OwnersAre
<1> HIDE DEF top
<1>5. /\ top <= Len(heap') /\ Apart(default'.str)
      /\ \A s \in Strings : /\ default'.str[s] \in 0..Len(heap')
                            /\ (default'.str[s] = default.str[s] \/ default'.str[s] > top)
  <2>1. CASE pass.opt.str = default.str /\ Len(pass.heap) = top
    BY <1>1, <1>4, <2>1
  <2>2. CASE ~(pass.opt.str = default.str /\ Len(pass.heap) = top)
    <3>1. PICK f \in Strings : pass.opt.str[f] = top + 1 /\ \A g \in Strings \ {f} : pass.opt.str[g] = default.str[g]
      BY <1>3, <2>2
    <3>2. Len(pass.heap) = top + 1
      BY <1>3, <2>2
    <3>3. \A s, t \in Strings : s # t /\ pass.opt.str[s] # NULL => pass.opt.str[s] # pass.opt.str[t]
      BY <1>4, <3>1 DEF Apart
    <3> QED BY <1>1, <1>4, <3>1, <3>2, <3>3 DEF Apart
  <2> QED BY <2>1, <2>2
<1>6. Private(Owners', Len(sessions'), Len(heap'))
  BY <1>1, <1>3, <1>5, DefaultGrows DEF top
<1>7. StoredIs'
  BY <1>1 DEF StringsInv, StoredIs
<1> QED BY <1>1, <1>3, <1>6, <1>7 DEF StringsInv

\* The configuration file is read over the defaults, and its name is a string of its own.
LEMMA StringsReadFullCfg ==
  ASSUME StringsInv, ReadFullCfg, SettingsAssumption
  PROVE  StringsInv'
<1> DEFINE h == Append(heap, "CFGFILE")
           pass == set_from_root(default, h, cfgfile, "read")
           top == Len(heap)
           n == Len(cfgfile)
<1>1. /\ default' = [pass.opt EXCEPT !.str["cfgfile"] = top + 1] /\ heap' = pass.heap
      /\ sessions' = sessions /\ cfgfile' = cfgfile /\ stored' = stored /\ recorded' = recorded
  BY DEF ReadFullCfg, archive
<1>2. IsOpt(default) /\ IsSeq(heap) /\ n \in Nat /\ DOMAIN cfgfile = 1..n
  BY DEF StringsInv, SettingsAssumption
<1>3. IsSeq(h) /\ Len(h) = top + 1
  BY <1>2, Lengthens
<1>4. /\ top \in Nat /\ Apart(default.str) /\ \A s \in Strings : default.str[s] \in 0..top
  BY OwnersAre
<1> HIDE DEF h, n
<1>5. Grown(pass, default.str, top + 1)
  <2>1. \A s \in Strings : default.str[s] \in 0..Len(h)
    BY <1>3, <1>4
  <2> HIDE DEF top
  <2>2. Grown(pass, default.str, Len(h))
    BY <1>2, <1>3, <1>4, <2>1, Totals, SettingsRead
  <2> QED BY <1>3, <2>2
<1> HIDE DEF pass, top
<1>6. "cfgfile" \in Strings
  BY DEF Strings
<1>7. IsOpt(pass.opt)
  BY <1>5, OptOfPass DEF Grown
<1>8. /\ IsOpt(default') /\ default'.str["cfgfile"] = top + 1
      /\ \A g \in Strings \ {"cfgfile"} : default'.str[g] = pass.opt.str[g]
  <2>1. default' = OptStringPut(pass.opt, "cfgfile", top + 1)
    BY <1>1 DEF OptStringPut
  <2> QED BY <1>6, <1>7, <2>1, PutOptString
<1>9. /\ top <= Len(heap') /\ Apart(default'.str)
      /\ \A s \in Strings : /\ default'.str[s] \in 0..Len(heap')
                            /\ (default'.str[s] = default.str[s] \/ default'.str[s] > top)
  <2>1. /\ IsSeq(pass.heap) /\ Len(pass.heap) \in Nat /\ top + 1 <= Len(pass.heap)
        /\ \A s \in Strings : pass.opt.str[s] \in 0..Len(pass.heap)
                              /\ (pass.opt.str[s] = default.str[s] \/ pass.opt.str[s] > top + 1)
        /\ Apart(pass.opt.str)
    BY <1>5 DEF Grown
  <2>2. \A s \in Strings \ {"cfgfile"} : default'.str[s] # top + 1
    BY <1>4, <1>8, <2>1
  <2>3. Apart(default'.str)
    BY <1>4, <1>8, <2>1, <2>2 DEF Apart
  <2>4. \A s \in Strings : /\ default'.str[s] \in 0..Len(heap')
                            /\ (default'.str[s] = default.str[s] \/ default'.str[s] > top)
    BY <1>1, <1>4, <1>8, <2>1
  <2> QED BY <1>1, <1>4, <2>1, <2>3, <2>4
<1>10. IsSeq(heap')
  BY <1>1, <1>5 DEF Grown
<1>11. Private(Owners', Len(sessions'), Len(heap'))
  BY <1>1, <1>9, <1>10, DefaultGrows DEF top
<1>12. StoredIs'
  BY <1>1 DEF StringsInv, StoredIs
<1> QED BY <1>1, <1>8, <1>10, <1>11, <1>12 DEF StringsInv

\* Steps that leave all strings.
LEMMA StringsSame ==
  ASSUME StringsInv, IsOpt(default'), default'.str = default.str, heap' = heap,
         sessions' = sessions, cfgfile' = cfgfile, stored' = stored, recorded' = recorded
  PROVE  StringsInv'
<1>1. Owners' = Owners
  BY DEF Owners
<1>2. StoredIs'
  BY DEF StringsInv, StoredIs
<1> QED BY <1>1, <1>2 DEF StringsInv

\* The sizes of the buffers are numbers, none of them the number of packets.
LEMMA StringsCalculateBufferSizes ==
  ASSUME StringsInv, CalculateBufferSizes
  PROVE  /\ StringsInv' /\ default'.num["total_packets"] = default.num["total_packets"]
         /\ SameFiles(default, default')
         /\ \/ default'.num["packet_size"] = default.num["packet_size"]
            \/ default'.num["packet_size"]
                 = ((default.num["packet_size"] + RingAlign - 1) \div RingAlign) * RingAlign
<1> DEFINE size == default.num["packet_size"]
           v == ((size + RingAlign - 1) \div RingAlign) * RingAlign
           adjusted == OptNumberPut(default, "packet_size", v)
           opt == IF "USE_RX_RING" \in default.optbits
                  THEN rxring_packetadjustment(default) ELSE default
           Good(o) == /\ IsOpt(o) /\ o.str = default.str
                      /\ o.num["total_packets"] = default.num["total_packets"]
                      /\ SameFiles(default, o)
                      /\ o.num["packet_size"] = size \/ o.num["packet_size"] = v
<1>0. {"total_packets", "offset", "filesize", "n_drives", "packet_size"} \subseteq Numbers
  BY DEF Numbers, Int64Settings, IntSettings
<1>1. rxring_packetadjustment(default) = adjusted
  BY DEF rxring_packetadjustment, OptNumberPut
<1>2. IsOpt(default)
  BY DEF StringsInv
<1> HIDE DEF v
<1>3. Good(adjusted) /\ Good(default)
  <2>1. IsOpt(adjusted) /\ adjusted.str = default.str /\ \A x \in Numbers : x # "packet_size" => adjusted.num[x] = default.num[x]
    BY <1>2, PutOptNumber
  <2>2. adjusted.num["packet_size"] = v
    BY <1>0, <1>2, PutOptNumber
  <2> HIDE DEF adjusted
  <2> QED BY <1>0, <1>2, <2>1, <2>2 DEF SameFiles
<1>4. Good(opt)
  <2> HIDE DEF adjusted, Good
  <2> QED BY <1>1, <1>3
<1>5. ASSUME NEW a, NEW b
      PROVE  Good(OptNumberPut(OptNumberPut(opt, "buf_num_elems", a), "n_threads", b))
  <2> DEFINE one == OptNumberPut(opt, "buf_num_elems", a)
             two == OptNumberPut(one, "n_threads", b)
  <2> HIDE DEF opt
  <2>1. IsOpt(one) /\ one.str = opt.str /\ \A x \in Numbers : x # "buf_num_elems" => one.num[x] = opt.num[x]
    BY <1>4, PutOptNumber
  <2> HIDE DEF one
  <2>2. IsOpt(two) /\ two.str = one.str /\ \A x \in Numbers : x # "n_threads" => two.num[x] = one.num[x]
    BY <2>1, PutOptNumber
  <2> HIDE DEF two
  <2>3. Good(two)
    BY <1>0, <1>4, <2>1, <2>2 DEF SameFiles
  <2> HIDE DEF Good
  <2> QED BY <2>3 DEF one, two
<1>6. \/ default' = opt
      \/ \E a, b : default' = OptNumberPut(OptNumberPut(opt, "buf_num_elems", a), "n_threads", b)
  <2> DEFINE sz == opt.num["filesize"]
             a == sz \div opt.num["packet_size"]
             b == (opt.num["maxmem"] * Gig) \div sz
  <2>1. \/ default' = opt
        \/ default' = [opt EXCEPT !.num["buf_num_elems"] = a, !.num["n_threads"] = b]
    BY DEF CalculateBufferSizes
  <2> HIDE DEF opt, a, b
  <2>2. [opt EXCEPT !.num["buf_num_elems"] = a, !.num["n_threads"] = b]
          = OptNumberPut(OptNumberPut(opt, "buf_num_elems", a), "n_threads", b)
    BY DEF OptNumberPut
  <2> QED BY <2>1, <2>2
<1>7. Good(default')
  <2> HIDE DEF opt, Good
  <2> QED BY <1>4, <1>5, <1>6
<1>8. heap' = heap /\ sessions' = sessions /\ cfgfile' = cfgfile /\ stored' = stored /\ recorded' = recorded
  BY DEF CalculateBufferSizes, archive
<1>9. IsOpt(default') /\ default'.str = default.str
  BY <1>7
<1>10. StringsInv'
  BY <1>8, <1>9, StringsSame
<1> QED BY <1>7, <1>10 DEF v

\* The options a session gets from add_recording, before its entry is read.
Mine ==
  [clear_pointers(default) EXCEPT
     !.str["filename"] = Len(heap) + 1, !.str["disk2fileoutput"] = Len(heap) + 2]

\* Before its entry is read, a session holds the two strings add_recording allocated.
LEMMA MineIs ==
  ASSUME StringsInv
  PROVE  /\ IsOpt(Mine) /\ Mine.num = default.num
         /\ \A s \in Strings : Mine.str[s] = NULL \/ Mine.str[s] \in (Len(heap) + 1)..(Len(heap) + 2)
         /\ Apart(Mine.str)
<1> DEFINE top == Len(heap)
           m == [s \in Strings |-> NULL]
           cleared == [default EXCEPT !.str = m]
           one == OptStringPut(cleared, "filename", top + 1)
           two == OptStringPut(one, "disk2fileoutput", top + 2)
<1>1. {"filename", "disk2fileoutput"} \subseteq Strings
  BY DEF Strings, StringSettings
<1>2. clear_pointers(default) = cleared
  BY DEF clear_pointers
<1>3. Mine = two
  <2> HIDE DEF cleared
  <2> QED BY <1>2 DEF Mine, OptStringPut
<1>4. IsOpt(default) /\ top \in Nat
  BY OwnersAre DEF StringsInv
<1> HIDE DEF top
<1>5. IsOpt(cleared) /\ cleared.num = default.num /\ cleared.str = m
  <2>1. m = [s \in Strings |-> m[s]]
    OBVIOUS
  <2> HIDE DEF m
  <2> QED BY <1>4, <2>1, OptStr
<1> HIDE DEF cleared
<1>6. /\ IsOpt(one) /\ one.num = cleared.num /\ one.str["filename"] = top + 1
      /\ \A g \in Strings \ {"filename"} : one.str[g] = cleared.str[g]
  BY <1>1, <1>5, PutOptString
<1> HIDE DEF one
<1>7. /\ IsOpt(two) /\ two.num = one.num /\ two.str["disk2fileoutput"] = top + 2
      /\ \A g \in Strings \ {"disk2fileoutput"} : two.str[g] = one.str[g]
  BY <1>1, <1>6, PutOptString
<1> HIDE DEF two
<1>8. /\ \A g \in Strings \ {"filename", "disk2fileoutput"} : two.str[g] = NULL
      /\ two.str["filename"] = top + 1 /\ two.str["disk2fileoutput"] = top + 2
  BY <1>1, <1>5, <1>6, <1>7
<1>9. \A s \in Strings : two.str[s] = NULL \/ two.str[s] \in (top + 1)..(top + 2)
  BY <1>4, <1>8
<1>10. Apart(two.str)
  BY <1>4, <1>8 DEF Apart, NULL
<1> QED BY <1>3, <1>5, <1>6, <1>7, <1>9, <1>10 DEF top

\* A session.
SessionOf(o, st) == [opt |-> o, state |-> st]

\* What add_recording makes of entry e.
Entered(e, pass) ==
  /\ Grown(pass, Mine.str, Len(heap) + 2)
  /\ \E h : IsSeq(h) /\ pass = set_from_root(Mine, h, Entries[e], "read")
  /\ \A x \in Tracked : (\A i \in 1..Len(Entries[e]) : ~Sets(Entries[e][i].name, x))
                         => pass.opt.num[x] = default.num[x]

\* add_recording reads one entry over Mine, and may drop disk2fileoutput.
LEMMA EntryRead ==
  ASSUME StringsInv, SettingsAssumption, AddRecording
  PROVE  \E e \in DOMAIN Entries : \E pass, o, st :
           /\ Entered(e, pass) /\ heap' = pass.heap
           /\ sessions' = Append(sessions, SessionOf(o, st))
           /\ IsOpt(o) /\ o.num = pass.opt.num
           /\ \A s \in Strings : o.str[s] \in {pass.opt.str[s], NULL}
           /\ st \in {"scheduled", "broken"}
<1> DEFINE h == heap \o <<"", "">>
           P(e) == set_from_root(Mine, h, Entries[e], "read")
           cut(q) == OptStringPut(q, "disk2fileoutput", NULL)
<1>1. PICK e \in DOMAIN Entries :
        /\ heap' = P(e).heap
        /\ \E o \in {P(e).opt, cut(P(e).opt)} : \E st \in {"scheduled", "broken"} :
             sessions' = Append(sessions, SessionOf(o, st))
  <2> DEFINE read(e) == P(e)
  <2>1. PICK e \in DOMAIN Entries :
          LET names == Len(heap) + 1
              mine == [clear_pointers(default) EXCEPT
                         !.str["filename"] = names, !.str["disk2fileoutput"] = names + 1]
              pass == set_from_root(mine, heap \o <<"", "">>, Entries[e], "read")
              opt == IF "CAPTURE_W_DISK2FILE" \in pass.opt.optbits THEN pass.opt
                     ELSE [pass.opt EXCEPT !.str["disk2fileoutput"] = NULL]
          IN /\ heap' = pass.heap
             /\ sessions' = Append(sessions,
                  IF pass.result = "ok" THEN [opt |-> opt, state |-> "scheduled"]
                  ELSE [opt |-> pass.opt, state |-> "broken"])
    BY DEF AddRecording
  <2>2. [clear_pointers(default) EXCEPT !.str["filename"] = Len(heap) + 1,
                                        !.str["disk2fileoutput"] = (Len(heap) + 1) + 1] = Mine
    <3>1. (Len(heap) + 1) + 1 = Len(heap) + 2
      BY OwnersAre
    <3> QED BY <3>1 DEF Mine
  <2>3. LET pass == P(e)
              opt == IF "CAPTURE_W_DISK2FILE" \in pass.opt.optbits THEN pass.opt
                     ELSE cut(pass.opt)
          IN /\ heap' = pass.heap
             /\ sessions' = Append(sessions,
                  IF pass.result = "ok" THEN SessionOf(opt, "scheduled")
                  ELSE SessionOf(pass.opt, "broken"))
    BY <2>1, <2>2 DEF OptStringPut, SessionOf
  <2> HIDE DEF P, cut
  <2> QED BY <2>3
<1> DEFINE pass == P(e)
<1>2. Entered(e, pass)
  <2>1. IsSeq(heap) /\ IsSeq(h) /\ Len(h) = Len(heap) + 2 /\ Len(heap) \in Nat
    BY TwoMore, OwnersAre DEF StringsInv
  <2> HIDE DEF h
  <2>2. /\ IsOpt(Mine) /\ Apart(Mine.str) /\ Mine.num = default.num
        /\ \A s \in Strings : Mine.str[s] \in 0..Len(h)
    BY <2>1, MineIs DEF NULL
  <2>3. Len(Entries[e]) \in Nat /\ DOMAIN Entries[e] = 1..Len(Entries[e])
    BY DEF SettingsAssumption
  <2>4. ASSUME NEW x \in Tracked
        PROVE  /\ Grown(pass, Mine.str, Len(h))
               /\ (\A i \in 1..Len(Entries[e]) : ~Sets(Entries[e][i].name, x))
                    => pass.opt.num[x] = Mine.num[x]
    <3> DEFINE c == Entries[e]
               q == set_from_root(Mine, h, c, "read")
    <3>1. Len(c) \in Nat /\ DOMAIN c = 1..Len(c)
      BY <2>3
    <3> HIDE DEF c
    <3>2. /\ Grown(q, Mine.str, Len(h))
          /\ (\A i \in 1..Len(c) : ~Sets(c[i].name, x)) => q.opt.num[x] = Mine.num[x]
      BY <2>1, <2>2, <2>4, <3>1, SettingsRead
    <3> QED BY <3>2 DEF c
  <2>5. pass = set_from_root(Mine, h, Entries[e], "read")
    OBVIOUS
  <2> HIDE DEF P, pass
  <2>6. Grown(pass, Mine.str, Len(heap) + 2)
    BY <2>1, <2>4, Totals
  <2> QED BY <2>1, <2>2, <2>4, <2>5, <2>6 DEF Entered
<1> HIDE DEF P, h, pass
<1>3. PICK o \in {pass.opt, cut(pass.opt)} : \E st \in {"scheduled", "broken"} :
             sessions' = Append(sessions, SessionOf(o, st))
  <2> HIDE DEF cut
  <2> QED BY <1>1 DEF pass
<1>4. IsOpt(pass.opt)
  BY <1>2, OptOfPass DEF Entered, Grown
<1>5. IsOpt(o) /\ o.num = pass.opt.num /\ \A s \in Strings : o.str[s] \in {pass.opt.str[s], NULL}
  <2>1. CASE o = pass.opt
    BY <1>4, <2>1
  <2>2. CASE o = cut(pass.opt)
    <3>1. "disk2fileoutput" \in Strings
      BY DEF Strings, StringSettings
    <3>2. /\ IsOpt(cut(pass.opt)) /\ cut(pass.opt).num = pass.opt.num
          /\ cut(pass.opt).str["disk2fileoutput"] = NULL
          /\ \A g \in Strings \ {"disk2fileoutput"} : cut(pass.opt).str[g] = pass.opt.str[g]
      BY <1>4, <3>1, PutOptString
    <3> HIDE DEF cut
    <3> QED BY <2>2, <3>2
  <2> QED BY <1>3, <2>1, <2>2
<1> QED BY <1>1, <1>2, <1>3, <1>5 DEF pass

\* A session of the schedule: clear_pointers dropped the strings of the defaults, so that strcpy
\* writes over none of theirs.
LEMMA StringsAddRecording ==
  ASSUME StringsInv, SettingsAssumption, AddRecording
  PROVE  StringsInv'
<1>0. PICK e \in DOMAIN Entries : \E pass, o, st :
           /\ Entered(e, pass) /\ heap' = pass.heap
           /\ sessions' = Append(sessions, SessionOf(o, st))
           /\ IsOpt(o) /\ o.num = pass.opt.num
           /\ \A s \in Strings : o.str[s] \in {pass.opt.str[s], NULL}
  BY EntryRead
<1>1. PICK pass, o, st :
           /\ Entered(e, pass) /\ heap' = pass.heap
           /\ sessions' = Append(sessions, SessionOf(o, st))
           /\ IsOpt(o) /\ o.num = pass.opt.num
           /\ \A s \in Strings : o.str[s] \in {pass.opt.str[s], NULL}
  BY <1>0
<1> DEFINE top == Len(heap)
           n == Len(sessions)
           v == SessionOf(o, st)
<1>2. /\ IsSeq(sessions') /\ Len(sessions') = n + 1 /\ n \in Nat /\ sessions'[n + 1] = v
      /\ \A i \in 1..n : sessions'[i] = sessions[i]
  <2>1. IsSeq(sessions) /\ sessions' = Append(sessions, v)
    BY <1>1 DEF StringsInv
  <2>2. n \in Nat
    BY OwnersAre
  <2> HIDE DEF v, n
  <2>3. LET g == Append(sessions, v) IN
         /\ IsSeq(g) /\ Len(g) = Len(sessions) + 1 /\ g[Len(sessions) + 1] = v
         /\ \A i \in 1..Len(sessions) : g[i] = sessions[i]
    BY <2>1, SeqAdd
  <2> QED BY <2>1, <2>2, <2>3 DEF n
<1>3. v.opt = o
  BY DEF SessionOf
<1>4. /\ top \in Nat /\ IsSeq(heap') /\ Len(heap') \in Nat /\ top + 2 <= Len(heap')
      /\ \A s \in Strings : pass.opt.str[s] \in 0..Len(heap')
                            /\ (pass.opt.str[s] = Mine.str[s] \/ pass.opt.str[s] > top + 2)
      /\ Apart(pass.opt.str)
  BY <1>1, OwnersAre DEF Entered, Grown
<1>5. \A s \in Strings : Mine.str[s] = NULL \/ Mine.str[s] > top
  <2>1. \A s \in Strings : Mine.str[s] = NULL \/ Mine.str[s] \in (top + 1)..(top + 2)
    BY MineIs
  <2> QED BY <1>4, <2>1
<1> HIDE DEF top, n, v
<1>6. \A s \in Strings : o.str[s] \in 0..Len(heap') /\ (o.str[s] = NULL \/ o.str[s] > top)
  <2> TAKE s \in Strings
  <2>1. CASE o.str[s] = NULL
    BY <1>4, <2>1 DEF NULL
  <2>2. CASE o.str[s] = pass.opt.str[s]
    BY <1>4, <1>5, <2>2
  <2> QED BY <1>1, <2>1, <2>2
<1>7. Apart(o.str)
  <2> SUFFICES ASSUME NEW s \in Strings, NEW t \in Strings, s # t, o.str[s] # NULL
               PROVE  o.str[s] # o.str[t]
    BY DEF Apart
  <2>1. o.str[s] = pass.opt.str[s]
    BY <1>1
  <2>2. pass.opt.str[s] # pass.opt.str[t]
    BY <1>4, <2>1 DEF Apart
  <2> QED BY <1>1, <2>1, <2>2
<1>8. default' = default /\ cfgfile' = cfgfile /\ stored' = stored /\ recorded' = recorded
  BY DEF AddRecording, startup, archive
<1>9. Private(Owners', Len(sessions'), Len(heap'))
  <2>1. n + 1 \in Nat /\ n + 1 \in 1..(n + 1) /\ top <= Len(heap')
    BY <1>2, <1>4
  <2>2. \A k \in 1..(n + 1) : k # n + 1 => k \in 1..n /\ sessions'[k] = sessions[k]
    BY <1>2
  <2>3. sessions'[n + 1].opt = o
    BY <1>2, <1>3
  <2>4. \A s \in Strings :
           /\ sessions'[n + 1].opt.str[s] \in 0..Len(heap')
           /\ \/ sessions'[n + 1].opt.str[s] = NULL \/ sessions'[n + 1].opt.str[s] > Len(heap)
              \/ n + 1 \in 1..Len(sessions) /\ sessions'[n + 1].opt.str = sessions[n + 1].opt.str
    BY <1>6, <2>3 DEF top
  <2>5. Apart(sessions'[n + 1].opt.str)
    BY <1>7, <2>3
  <2> QED BY <1>2, <1>4, <1>8, <2>1, <2>2, <2>4, <2>5, SessionGrows DEF n, top
<1>10. \A k \in 1..Len(sessions') : IsOpt(sessions'[k].opt)
  <2>1. \A k \in 1..(n + 1) : k \in 1..n \/ k = n + 1
    BY <1>2
  <2> QED BY <1>1, <1>2, <1>3, <2>1 DEF StringsInv, n
<1>11. StoredIs'
  BY <1>8 DEF StringsInv, StoredIs
<1>12. IsOpt(default') /\ \E f \in DOMAIN Files : cfgfile' = Files[f]
  BY <1>8 DEF StringsInv
<1> QED BY <1>2, <1>4, <1>9, <1>10, <1>11, <1>12 DEF StringsInv

\* What start_event makes of the session s it starts.
Started(s, o, q, r, v) ==
  /\ Prepared(o, Duo(q, r)) /\ init_cfg(o) = Duo(q, r)
  /\ \/ v = SessionOf(q, "refused")
     \/ /\ r = "ok" /\ q.num["packet_size"] # 0
        /\ LET k == q.num["filesize"] \div q.num["packet_size"]
           IN v = SessionOf(OptNumberPut(q, "buf_num_elems", k), "running")

\* start_event starts one scheduled session with what init_cfg comes to, unless it is the end.
Starts ==
  \E s \in 1..Len(sessions) : \E q, r, v :
    /\ sessions[s].state = "scheduled"
    /\ Started(s, sessions[s].opt, q, r, v)
    /\ sessions' = SeqWith(sessions, s, v)
    /\ phase' = phase
    /\ indexed' = IF v.state = "running" THEN Indexed(sessions[s].opt) ELSE indexed

LEMMA EventStarted ==
  ASSUME ConfigurationAssumption, StringsInv, StartEvent
  PROVE  Starts \/ (sessions' = sessions /\ indexed' = indexed /\ phase' = "fault")
<1> SUFFICES ASSUME ~(sessions' = sessions /\ indexed' = indexed /\ phase' = "fault")
             PROVE  Starts
  OBVIOUS
<1>1. DOMAIN sessions = 1..Len(sessions)
  BY SeqIs DEF StringsInv
<1> DEFINE pass(s) == init_cfg(sessions[s].opt)
           size(s) == pass(s).opt.num["packet_size"]
           no(s) == [opt |-> pass(s).opt, state |-> "refused"]
           yes(s) == [opt |-> [pass(s).opt EXCEPT !.num["buf_num_elems"] =
                                 pass(s).opt.num["filesize"] \div size(s)],
                      state |-> "running"]
<1>2. PICK s \in DOMAIN sessions :
        /\ sessions[s].state = "scheduled" /\ phase' = phase
        /\ \/ /\ pass(s).result = "error" /\ sessions' = [sessions EXCEPT ![s] = no(s)]
              /\ indexed' = indexed
           \/ /\ pass(s).result = "ok" /\ size(s) # 0
              /\ sessions' = [sessions EXCEPT ![s] = yes(s)]
              /\ indexed' = Indexed(sessions[s].opt)
  BY DEF StartEvent
<1> DEFINE o == sessions[s].opt
<1>3. IsOpt(o) /\ StoredIs
  BY <1>1 DEF StringsInv
<1>4. Prepared(o, init_cfg(o))
  BY <1>3, InitPrepares
<1>5. PICK q, r : init_cfg(o) = Duo(q, r)
  BY <1>4 DEF Prepared
<1>6. pass(s).opt = q /\ pass(s).result = r
  BY <1>5, DuoHas
<1> DEFINE k == q.num["filesize"] \div q.num["packet_size"]
           refused == SessionOf(q, "refused")
           running == SessionOf(OptNumberPut(q, "buf_num_elems", k), "running")
<1>7. no(s) = refused /\ yes(s) = running /\ size(s) = q.num["packet_size"]
  BY <1>6 DEF SessionOf, OptNumberPut
<1>8. refused.state = "refused" /\ running.state = "running"
  BY DEF SessionOf
<1>9. /\ Started(s, o, q, r, refused)
      /\ r = "ok" /\ q.num["packet_size"] # 0 => Started(s, o, q, r, running)
  <2> HIDE DEF o
  <2> QED BY <1>4, <1>5 DEF Started
<1> HIDE DEF pass, no, yes, size, refused, running
<1>10. PICK v \in {refused, running} :
         /\ Started(s, o, q, r, v) /\ sessions' = SeqWith(sessions, s, v)
         /\ indexed' = IF v.state = "running" THEN Indexed(o) ELSE indexed
  BY <1>2, <1>6, <1>7, <1>8, <1>9 DEF SeqWith
<1> QED BY <1>1, <1>2, <1>10 DEF Starts

\* A session that starts has the strings it had, and the sizes of one recording or none.
LEMMA StartedIs ==
  ASSUME NEW s, NEW o, NEW q, NEW r, NEW v, Started(s, o, q, r, v)
  PROVE  /\ IsOpt(v.opt) /\ v.opt.str = o.str /\ v.opt.optbits = o.optbits
         /\ v.state \in {"refused", "running"}
         /\ \/ v.opt.num["total_packets"] = o.num["total_packets"]
            \/ \E t \in recorded : Sizes(v.opt.num) = <<t[1], t[2], t[3]>>
<1>1. /\ IsOpt(q) /\ q.str = o.str /\ q.optbits = o.optbits
      /\ \/ q.num["total_packets"] = o.num["total_packets"]
         \/ \E t \in recorded : Sizes(q.num) = <<t[1], t[2], t[3]>>
  <2>1. PICK q2, r2 :
          /\ Duo(q, r) = Duo(q2, r2) /\ IsOpt(q2) /\ q2.str = o.str /\ q2.optbits = o.optbits
          /\ \/ q2.num["total_packets"] = o.num["total_packets"]
             \/ \E t \in recorded : Sizes(q2.num) = <<t[1], t[2], t[3]>>
    BY DEF Started, Prepared
  <2>2. q = q2
    BY <2>1, DuoHas
  <2> QED BY <2>1, <2>2
<1>2. \A o2, st : SessionOf(o2, st).opt = o2 /\ SessionOf(o2, st).state = st
  BY DEF SessionOf
<1>3. \A k : SizesKept(q, OptNumberPut(q, "buf_num_elems", k))
  BY <1>1, ElemsPut
<1>4. SizesKept(q, v.opt) /\ v.state \in {"refused", "running"}
  <2>1. CASE v = SessionOf(q, "refused")
    BY <1>1, <1>2, <2>1 DEF SizesKept
  <2>2. CASE \E k : v = SessionOf(OptNumberPut(q, "buf_num_elems", k), "running")
    BY <1>2, <1>3, <2>2
  <2> QED BY <2>1, <2>2 DEF Started
<1>5. v.opt.num["total_packets"] = q.num["total_packets"] /\ Sizes(v.opt.num) = Sizes(q.num)
  BY <1>4 DEF SizesKept, Sizes
<1> QED BY <1>1, <1>4, <1>5 DEF SizesKept

\* start_event allocates and frees no string.
LEMMA StringsStartEvent ==
  ASSUME ConfigurationAssumption, StringsInv, StartEvent
  PROVE  StringsInv'
<1>1. default' = default /\ heap' = heap /\ cfgfile' = cfgfile /\ stored' = stored /\ recorded' = recorded
  BY DEF StartEvent, archive
<1>2. StoredIs' /\ IsOpt(default)
  BY <1>1 DEF StringsInv, StoredIs
<1>3. CASE sessions' = sessions
  BY <1>1, <1>2, <1>3, StringsSame
<1>4. CASE Starts
  <2>1. PICK s \in 1..Len(sessions) : \E q, r, v :
          Started(s, sessions[s].opt, q, r, v) /\ sessions' = SeqWith(sessions, s, v)
    BY <1>4 DEF Starts
  <2>2. PICK q, r, v : Started(s, sessions[s].opt, q, r, v) /\ sessions' = SeqWith(sessions, s, v)
    BY <2>1
  <2>3. IsOpt(v.opt) /\ v.opt.str = sessions[s].opt.str
    BY <2>2, StartedIs
  <2> QED BY <1>1, <1>2, <2>2, <2>3, SessionKept
<1> QED BY <1>3, <1>4, EventStarted

\* The bytes of a packet that a recording with options o stores.
LeftOf(o) ==
  o.num["packet_size"] - (IF "CAN_STRIP_BYTES" \in o.optbits THEN o.num["offset"] ELSE 0)

\* What the end of the recording of session s leaves.
LEMMA RecordingFinished ==
  ASSUME StringsInv, FinishRecording
  PROVE  \E s \in 1..Len(sessions) : \E o, t :
           /\ s \in Live /\ IsOpt(o) /\ o.str = sessions[s].opt.str
           /\ sessions' = SeqWith(sessions, s, SessionOf(o, "finished"))
           /\ t = <<t[1], t[2], t[3]>> /\ recorded' = recorded \cup {t}
           /\ t[1] = LeftOf(sessions[s].opt)
           /\ StoredIs'
<1>1. DOMAIN sessions = 1..Len(sessions)
  BY SeqIs DEF StringsInv
<1>2. PICK s \in Live, more \in SUBSET Points(default), files \in 1..2 :
       LET counted == [sessions[s].opt EXCEPT !.num["total_packets"] = 2 * files,
                                              !.num["cumul"] = files]
           opt == set_from_root(counted, heap, <<>>, "write").opt
           new == stub_rec_cfg(opt)
           size == opt.num["packet_size"]
                     - (IF "CAN_STRIP_BYTES" \in opt.optbits THEN opt.num["offset"] ELSE 0)
       IN /\ sessions' = [sessions EXCEPT ![s] = [opt |-> opt, state |-> "finished"]]
          /\ dirs' = dirs \cup more
          /\ \E write \in [Disks -> {"done", "refused", "broken"}] :
               stored' = [d \in Disks |->
                            CASE d \notin dirs' \/ write[d] = "refused" -> stored[d]
                              [] write[d] = "done" -> new
                              [] OTHER -> <<>>]
          /\ recorded' = recorded \cup {<<size, 2 * files, files>>}
  BY DEF FinishRecording
<1>3. s \in 1..Len(sessions)
  BY <1>1 DEF Live, Running
<1> DEFINE old == sessions[s].opt
           one == OptNumberPut(old, "total_packets", 2 * files)
           opt == OptNumberPut(one, "cumul", files)
           counted == [old EXCEPT !.num["total_packets"] = 2 * files, !.num["cumul"] = files]
           size == opt.num["packet_size"]
                     - (IF "CAN_STRIP_BYTES" \in opt.optbits THEN opt.num["offset"] ELSE 0)
           t == <<size, 2 * files, files>>
           new == stub_rec_cfg(opt)
<1>4. counted = opt
  <2> HIDE DEF old
  <2> QED BY DEF OptNumberPut
<1>5. set_from_root(counted, heap, <<>>, "write").opt = opt
  <2> HIDE DEF counted, opt
  <2> QED BY <1>4, NothingRead
<1>6. /\ sessions' = SeqWith(sessions, s, SessionOf(opt, "finished"))
      /\ \E write \in [Disks -> {"done", "refused", "broken"}] :
               stored' = [d \in Disks |->
                            CASE d \notin dirs' \/ write[d] = "refused" -> stored[d]
                              [] write[d] = "done" -> new
                              [] OTHER -> <<>>]
      /\ recorded' = recorded \cup {t}
  <2> DEFINE o == set_from_root(counted, heap, <<>>, "write").opt
             stub == stub_rec_cfg(o)
             left == o.num["packet_size"]
                       - (IF "CAN_STRIP_BYTES" \in o.optbits THEN o.num["offset"] ELSE 0)
  <2>1. /\ sessions' = [sessions EXCEPT ![s] = [opt |-> o, state |-> "finished"]]
        /\ \E write \in [Disks -> {"done", "refused", "broken"}] :
               stored' = [d \in Disks |->
                            CASE d \notin dirs' \/ write[d] = "refused" -> stored[d]
                              [] write[d] = "done" -> stub
                              [] OTHER -> <<>>]
        /\ recorded' = recorded \cup {<<left, 2 * files, files>>}
    BY <1>2
  <2> HIDE DEF opt, o
  <2>2. o = opt
    BY <1>5 DEF o
  <2>3. stub = new /\ left = size
    BY <2>2
  <2> HIDE DEF stub, left, new, size
  <2> QED BY <2>1, <2>2, <2>3 DEF SeqWith, SessionOf
<1>7. /\ IsOpt(opt) /\ opt.str = old.str
      /\ opt.num["total_packets"] = 2 * files /\ opt.num["cumul"] = files
      /\ opt.optbits = old.optbits
      /\ \A x \in {"packet_size", "offset"} : opt.num[x] = old.num[x]
  <2>1. IsOpt(old)
    BY <1>3 DEF StringsInv
  <2>2. {"total_packets", "cumul", "packet_size", "offset"} \subseteq Numbers
    BY DEF Numbers, Int64Settings, IntSettings
  <2> HIDE DEF old
  <2>3. /\ IsOpt(one) /\ one.str = old.str /\ one.num["total_packets"] = 2 * files
        /\ one.optbits = old.optbits
        /\ \A x \in {"packet_size", "offset"} : one.num[x] = old.num[x]
    BY <2>1, <2>2, PutOptNumber
  <2> HIDE DEF one
  <2>4. /\ IsOpt(opt) /\ opt.str = one.str /\ opt.num["cumul"] = files
        /\ opt.num["total_packets"] = one.num["total_packets"] /\ opt.optbits = one.optbits
        /\ \A x \in {"packet_size", "offset"} : opt.num[x] = one.num[x]
    BY <2>2, <2>3, PutOptNumber
  <2> QED BY <2>3, <2>4
<1>11. size = LeftOf(old)
  <2> HIDE DEF opt, old
  <2> QED BY <1>7 DEF LeftOf
<1> HIDE DEF opt
<1>8. IsRec(new, t)
  <2>1. IsRec(stub_rec_cfg(opt), <<size, opt.num["total_packets"], opt.num["cumul"]>>)
    BY StubIsRec
  <2> HIDE DEF size
  <2> QED BY <1>7, <2>1
<1> HIDE DEF size, new
<1>9. StoredIs'
  <2>1. ASSUME NEW d \in Disks PROVE stored'[d] = <<>> \/ \E u \in recorded' : IsRec(stored'[d], u)
    <3>1. stored'[d] \in {stored[d], new, <<>>}
      BY <1>6
    <3>2. stored[d] = <<>> \/ \E u \in recorded : IsRec(stored[d], u)
      BY DEF StringsInv, StoredIs
    <3>3. t \in recorded' /\ recorded \subseteq recorded'
      BY <1>6
    <3> HIDE DEF t
    <3> QED BY <1>8, <3>1, <3>2, <3>3
  <2> QED BY <2>1 DEF StoredIs
<1>10. t = <<t[1], t[2], t[3]>> /\ t[1] = LeftOf(old)
  BY <1>11
<1> HIDE DEF t
<1> QED BY <1>2, <1>3, <1>6, <1>7, <1>9, <1>10

\* The end of a recording changes no string.
LEMMA StringsFinishRecording ==
  ASSUME StringsInv, FinishRecording
  PROVE  StringsInv'
<1>1. PICK s \in 1..Len(sessions) : \E o, t :
           /\ s \in Live /\ IsOpt(o) /\ o.str = sessions[s].opt.str
           /\ sessions' = SeqWith(sessions, s, SessionOf(o, "finished"))
           /\ t = <<t[1], t[2], t[3]>> /\ recorded' = recorded \cup {t}
           /\ t[1] = LeftOf(sessions[s].opt)
           /\ StoredIs'
  BY RecordingFinished
<1>2. PICK o, t :
           /\ s \in Live /\ IsOpt(o) /\ o.str = sessions[s].opt.str
           /\ sessions' = SeqWith(sessions, s, SessionOf(o, "finished"))
           /\ t = <<t[1], t[2], t[3]>> /\ recorded' = recorded \cup {t}
           /\ t[1] = LeftOf(sessions[s].opt)
           /\ StoredIs'
  BY <1>1
<1> DEFINE v == SessionOf(o, "finished")
<1>3. v.opt = o
  BY DEF SessionOf
<1> HIDE DEF v
<1>4. default' = default /\ heap' = heap /\ cfgfile' = cfgfile
  BY DEF FinishRecording, startup
<1> QED BY <1>2, <1>3, <1>4, SessionKept DEF v

\* Every step preserves the invariant of the strings.
LEMMA StringsStep ==
  ASSUME ConfigurationAssumption, SettingsAssumption, StringsInv, [Next]_vars
  PROVE  StringsInv'
<1>1. IsOpt(default)
  BY DEF StringsInv
<1>2. CASE ParseOption
  BY <1>2, StringsParseOption
<1>3. CASE Parsed
  BY <1>1, <1>3, StringsSame DEF Parsed, archive
<1>4. CASE CheckNonlogicals
  BY <1>1, <1>4, StringsSame DEF CheckNonlogicals, archive
<1>5. CASE ReadFullCfg
  BY <1>5, StringsReadFullCfg
<1>6. CASE CalculateBufferSizes
  BY <1>6, StringsCalculateBufferSizes
<1>7. CASE AddRecording
  BY <1>7, StringsAddRecording
<1>8. CASE StartEvent
  BY <1>8, StringsStartEvent
<1>9. CASE FinishRecording
  BY <1>9, StringsFinishRecording
<1>10. CASE UNCHANGED vars
  BY <1>1, <1>10, StringsSame DEF vars, startup, archive
<1> QED BY <1>2, <1>3, <1>4, <1>5, <1>6, <1>7, <1>8, <1>9, <1>10 DEF Next

\* No two of the default options and the sessions' own ever hold the same string, for every number
\* of disks, every command line, file and schedule: struct opt_s is copied by assignment
\* (add_recording, src/src/server.c), and set_from_root writes strings in place.
THEOREM StringsAreNeverShared == Spec => []PrivateStrings
<1>1. Init => StringsInv
  BY StringsInit
<1>2. StringsInv /\ [Next]_vars => StringsInv'
  BY ConfigurationAssumption, SettingsAssumption, StringsStep
<1>3. StringsInv => PrivateStrings
  BY StringsHold
<1> QED BY <1>1, <1>2, <1>3, PTL DEF Spec

-----------------------------------------------------------------------------
(* The sizes of a playback                                                  *)

\* Nothing the operator writes names the packets of a recording.
NoTotals ==
  /\ \A f \in DOMAIN Files : \A i \in 1..Len(Files[f]) : Files[f][i].name # "total_packets"
  /\ \A e \in DOMAIN Entries : \A i \in 1..Len(Entries[e]) : Entries[e][i].name # "total_packets"

\* The three sizes are those of one finished recording.
FromRecording(num) == \E t \in recorded : Sizes(num) = <<t[1], t[2], t[3]>>

\* A session that was not started has no packets yet; one that runs has none, or those of one
\* recording.
SessionSizes(x) ==
  /\ x.state = "scheduled" => x.opt.num["total_packets"] = 0
  /\ x.state = "running" => x.opt.num["total_packets"] = 0 \/ FromRecording(x.opt.num)

\* The invariant of the sizes.  It needs that of the strings, whose last part says that what is
\* stored on a disk is what one finished recording wrote there.
SizesInv ==
  /\ default.num["total_packets"] = 0
  /\ \A t \in recorded : t = <<t[1], t[2], t[3]>>
  /\ \A k \in 1..Len(sessions) : SessionSizes(sessions[k])

\* Steps that leave the sessions and what was recorded.
LEMMA SizesSame ==
  ASSUME SizesInv, default'.num["total_packets"] = 0, sessions' = sessions, recorded' = recorded
  PROVE  SizesInv'
BY DEF SizesInv, SessionSizes, FromRecording

\* No option of the command line sets the number of packets.
LEMMA SizesParseOption ==
  ASSUME StringsInv, SizesInv, ParseOption
  PROVE  SizesInv'
<1> DEFINE pass == OneOption(TrioOf(default, heap, "ok"), argv[optind])
<1>1. default' = pass.opt /\ sessions' = sessions /\ recorded' = recorded
  BY DEF ParseOption, TrioOf, archive
<1>2. IsOpt(default) /\ IsSeq(heap)
  BY DEF StringsInv
<1>3. pass.opt.num["total_packets"] = default.num["total_packets"]
  BY <1>2, Totals, OptionParsed
<1> HIDE DEF pass
<1> QED BY <1>1, <1>3, SizesSame DEF SizesInv

\* The configuration file does not set the number of packets.
LEMMA SizesReadFullCfg ==
  ASSUME StringsInv, SizesInv, SettingsAssumption, NoTotals, ReadFullCfg
  PROVE  SizesInv'
<1> DEFINE h == Append(heap, "CFGFILE")
           pass == set_from_root(default, h, cfgfile, "read")
           n == Len(cfgfile)
<1>1. /\ default' = [pass.opt EXCEPT !.str["cfgfile"] = Len(heap) + 1]
      /\ sessions' = sessions /\ recorded' = recorded
  BY DEF ReadFullCfg, archive
<1>2. /\ IsOpt(default) /\ IsSeq(heap) /\ n \in Nat /\ DOMAIN cfgfile = 1..n
      /\ \A i \in 1..n : ~Sets(cfgfile[i].name, "total_packets")
  BY Totals DEF StringsInv, SettingsAssumption, NoTotals
<1>3. IsSeq(h) /\ Len(h) = Len(heap) + 1
  BY <1>2, Lengthens
<1>4. /\ Len(heap) \in Nat /\ Apart(default.str) /\ \A s \in Strings : default.str[s] \in 0..Len(heap)
  BY OwnersAre
<1> HIDE DEF h, n
<1>5. /\ Grown(pass, default.str, Len(h))
      /\ pass.opt.num["total_packets"] = default.num["total_packets"]
  <2>1. \A s \in Strings : default.str[s] \in 0..Len(h)
    BY <1>3, <1>4
  <2>2. "total_packets" \in Tracked
    BY Totals
  <2> QED BY <1>2, <1>3, <1>4, <2>1, <2>2, SettingsRead
<1> HIDE DEF pass
<1>6. IsOpt(pass.opt) /\ "cfgfile" \in Strings
  BY <1>5, OptOfPass DEF Grown, Strings
<1>7. default'.num = pass.opt.num
  <2>1. default' = OptStringPut(pass.opt, "cfgfile", Len(heap) + 1)
    BY <1>1 DEF OptStringPut
  <2> QED BY <1>6, <2>1, PutOptString
<1> QED BY <1>1, <1>5, <1>7, SizesSame DEF SizesInv

\* A session starts with the number of packets of the defaults, none.
LEMMA SizesAddRecording ==
  ASSUME StringsInv, SizesInv, SettingsAssumption, NoTotals, AddRecording
  PROVE  SizesInv'
<1>0. PICK e \in DOMAIN Entries : \E pass, o, st :
           /\ Entered(e, pass) /\ heap' = pass.heap
           /\ sessions' = Append(sessions, SessionOf(o, st))
           /\ IsOpt(o) /\ o.num = pass.opt.num
           /\ \A s \in Strings : o.str[s] \in {pass.opt.str[s], NULL}
  BY EntryRead
<1>1. PICK pass, o, st :
           Entered(e, pass) /\ sessions' = Append(sessions, SessionOf(o, st)) /\ o.num = pass.opt.num
  BY <1>0
<1>2. o.num["total_packets"] = 0
  BY <1>1, Totals DEF Entered, NoTotals, SizesInv
<1> DEFINE v == SessionOf(o, st)
           n == Len(sessions)
<1>3. SessionSizes(v)
  BY <1>2 DEF SessionSizes, SessionOf
<1>4. IsSeq(sessions) /\ sessions' = Append(sessions, v) /\ n \in Nat
  BY <1>1, OwnersAre DEF StringsInv
<1> HIDE DEF v
<1>5. LET g == Append(sessions, v) IN
       /\ IsSeq(g) /\ Len(g) = n + 1 /\ g[n + 1] = v
       /\ \A i \in 1..n : g[i] = sessions[i]
  BY <1>4, SeqAdd
<1>6. default' = default /\ recorded' = recorded
  BY DEF AddRecording, startup, archive
<1>7. \A k \in 1..Len(sessions') : SessionSizes(sessions'[k])
  <2>1. \A k \in 1..(n + 1) : k \in 1..n \/ k = n + 1
    BY <1>4
  <2> QED BY <1>3, <1>4, <1>5, <2>1 DEF SizesInv
<1>8. \A k \in 1..Len(sessions') : SessionSizes(sessions[k])' = SessionSizes(sessions'[k])
  BY <1>6 DEF SessionSizes, FromRecording
<1> QED BY <1>6, <1>7, <1>8 DEF SizesInv

\* A playback that found its recording has the sizes of one.
LEMMA SizesStartEvent ==
  ASSUME ConfigurationAssumption, StringsInv, SizesInv, StartEvent
  PROVE  SizesInv'
<1>1. default' = default /\ recorded' = recorded
  BY DEF StartEvent, archive
<1>2. CASE sessions' = sessions
  BY <1>1, <1>2, SizesSame DEF SizesInv
<1>3. CASE Starts
  <2>1. PICK s \in 1..Len(sessions) : \E q, r, v :
           /\ sessions[s].state = "scheduled"
           /\ Started(s, sessions[s].opt, q, r, v)
           /\ sessions' = SeqWith(sessions, s, v)
    BY <1>3 DEF Starts
  <2>2. PICK q, r, v : Started(s, sessions[s].opt, q, r, v) /\ sessions' = SeqWith(sessions, s, v)
    BY <2>1
  <2>3. sessions[s].opt.num["total_packets"] = 0
    BY <2>1 DEF SizesInv, SessionSizes
  <2>4. /\ v.state \in {"refused", "running"} /\ IsOpt(v.opt)
        /\ v.opt.num["total_packets"] = 0 \/ FromRecording(v.opt.num)
    BY <2>2, <2>3, StartedIs DEF FromRecording
  <2>5. SessionSizes(v)
    BY <2>4 DEF SessionSizes
  <2>6. /\ Len(sessions') = Len(sessions) /\ sessions'[s] = v
        /\ \A k \in 1..Len(sessions) : k # s => sessions'[k] = sessions[k]
    BY <2>2, <2>4, OneSession
  <2>7. \A k \in 1..Len(sessions') : SessionSizes(sessions'[k])
    BY <2>5, <2>6 DEF SizesInv
  <2>8. \A k \in 1..Len(sessions') : SessionSizes(sessions[k])' = SessionSizes(sessions'[k])
    BY <1>1 DEF SessionSizes, FromRecording
  <2> QED BY <1>1, <2>7, <2>8 DEF SizesInv
<1> QED BY <1>2, <1>3, EventStarted

\* A recording that ends adds its sizes to the recorded ones.
LEMMA SizesFinishRecording ==
  ASSUME StringsInv, SizesInv, FinishRecording
  PROVE  SizesInv'
<1>1. PICK s \in 1..Len(sessions) : \E o, t :
           /\ s \in Live /\ IsOpt(o) /\ o.str = sessions[s].opt.str
           /\ sessions' = SeqWith(sessions, s, SessionOf(o, "finished"))
           /\ t = <<t[1], t[2], t[3]>> /\ recorded' = recorded \cup {t}
           /\ t[1] = LeftOf(sessions[s].opt)
           /\ StoredIs'
  BY RecordingFinished
<1>2. PICK o, t :
           /\ IsOpt(o)
           /\ sessions' = SeqWith(sessions, s, SessionOf(o, "finished"))
           /\ t = <<t[1], t[2], t[3]>> /\ recorded' = recorded \cup {t}
  BY <1>1
<1> DEFINE v == SessionOf(o, "finished")
<1>3. v.opt = o /\ v.state = "finished"
  BY DEF SessionOf
<1> HIDE DEF v
<1>4. default' = default
  BY DEF FinishRecording, startup
<1>5. /\ Len(sessions') = Len(sessions) /\ sessions'[s] = v
      /\ \A k \in 1..Len(sessions) : k # s => sessions'[k] = sessions[k]
  BY <1>2, <1>3, OneSession DEF v
<1>6. ASSUME NEW k \in 1..Len(sessions') PROVE SessionSizes(sessions[k])'
  <2>1. CASE k = s
    BY <1>3, <1>5, <2>1 DEF SessionSizes
  <2>2. CASE k # s
    <3>1. SessionSizes(sessions[k]) /\ sessions'[k] = sessions[k] /\ recorded \subseteq recorded'
      BY <1>2, <1>5, <2>2 DEF SizesInv
    <3> QED BY <3>1 DEF SessionSizes, FromRecording
  <2> QED BY <2>1, <2>2
<1>7. \A u \in recorded' : u = <<u[1], u[2], u[3]>>
  BY <1>2 DEF SizesInv
<1> QED BY <1>4, <1>6, <1>7 DEF SizesInv

\* Every step preserves the invariant of the sizes.
LEMMA SizesStep ==
  ASSUME ConfigurationAssumption, SettingsAssumption, NoTotals, StringsInv, SizesInv, [Next]_vars
  PROVE  SizesInv'
<1>1. default.num["total_packets"] = 0
  BY DEF SizesInv
<1>2. CASE ParseOption
  BY <1>2, SizesParseOption
<1>3. CASE Parsed
  BY <1>1, <1>3, SizesSame DEF Parsed, archive
<1>4. CASE CheckNonlogicals
  BY <1>1, <1>4, SizesSame DEF CheckNonlogicals, archive
<1>5. CASE ReadFullCfg
  BY <1>5, SizesReadFullCfg
<1>6. CASE CalculateBufferSizes
  <2>1. sessions' = sessions /\ recorded' = recorded
    BY <1>6 DEF CalculateBufferSizes, archive
  <2>2. default'.num["total_packets"] = 0
    BY <1>1, <1>6, StringsCalculateBufferSizes
  <2> QED BY <2>1, <2>2, SizesSame
<1>7. CASE AddRecording
  BY <1>7, SizesAddRecording
<1>8. CASE StartEvent
  BY <1>8, SizesStartEvent
<1>9. CASE FinishRecording
  BY <1>9, SizesFinishRecording
<1>10. CASE UNCHANGED vars
  BY <1>1, <1>10, SizesSame DEF vars, startup, archive
<1> QED BY <1>2, <1>3, <1>4, <1>5, <1>6, <1>7, <1>8, <1>9, <1>10 DEF Next

\* The invariants imply the property.
LEMMA SizesHold ==
  ASSUME StringsInv, SizesInv
  PROVE  PlaybackMatchesRecording
<1> SUFFICES ASSUME NEW s \in DOMAIN sessions, sessions[s].state = "running",
                    sessions[s].opt.num["total_packets"] # 0
             PROVE  Sizes(sessions[s].opt.num) \in recorded
  BY DEF PlaybackMatchesRecording, Sizes
<1>1. s \in 1..Len(sessions)
  BY SeqIs DEF StringsInv
<1>2. FromRecording(sessions[s].opt.num)
  BY <1>1 DEF SizesInv, SessionSizes
<1> QED BY <1>2 DEF SizesInv, FromRecording

\* A playback that found its recording on some disk has all three sizes of one finished recording,
\* however many disks there are and whatever each of them holds: init_cfg (src/src/confighelper.c)
\* reads the first configuration it finds, and compares the others without taking their values.
\* The premise says that the operator gives no total_packets, the setting that tells a playback
\* that found nothing from one that did.
THEOREM PlaybackIsOfOneRecording ==
  ASSUME NoTotals
  PROVE  Spec => []PlaybackMatchesRecording
<1>1. Init => StringsInv /\ SizesInv
  <2>1. ASSUME Init PROVE SizesInv
    <3>1. default = clear_and_default /\ recorded = {} /\ sessions = <<>> /\ Len(sessions) = 0
      BY <2>1 DEF Init
    <3>2. default.num["total_packets"] = 0
      BY <3>1, DefaultsAre
    <3> QED BY <3>1, <3>2 DEF SizesInv
  <2> QED BY <2>1, StringsInit
<1>2. StringsInv /\ SizesInv /\ [Next]_vars => (StringsInv /\ SizesInv)'
  BY ConfigurationAssumption, SettingsAssumption, StringsStep, SizesStep
<1>3. StringsInv /\ SizesInv => PlaybackMatchesRecording
  BY SizesHold
<1> QED BY <1>1, <1>2, <1>3, PTL DEF Spec

-----------------------------------------------------------------------------
(* The buffers of a session                                                 *)

\* The numbers of bytes a packet may have and lose, as the operator writes them: packets of at least
\* least bytes, of which at most most are stripped.
SettingSane(x, least, most) ==
  /\ x.name \in {"packet_size", "buf_elem_size"} /\ x.type = "int64"
       => x.value \in Nat /\ least <= x.value
  /\ x.name = "offset" /\ x.type = "int" => x.value \in 0..most
  /\ x.name = "filesizemb" /\ x.type = "int" => x.value \in Nat

\* The same of the packets that -p gives.
CommandLineSane(args, least) ==
  \A i \in 1..Len(args) : args[i].option = "p" => args[i].value \in Nat /\ least <= args[i].value

\* What the operator has to respect, in the command line, the file and the schedule: packets longer
\* than what is stripped of them, which the defaults are too, also after they were stored stripped;
\* and no entry asks for larger files than the buffers were allocated for.
SizesSane(least, most) ==
  /\ least \in Nat /\ most \in Nat /\ 2 * most < least /\ least <= 2 * RingAlign
  /\ \A f \in DOMAIN Files : \A i \in 1..Len(Files[f]) : SettingSane(Files[f][i], least, most)
  /\ \A e \in DOMAIN Entries : \A i \in 1..Len(Entries[e]) :
       SettingSane(Entries[e][i], least, most) /\ Entries[e][i].name # "filesizemb"
  /\ \A c \in DOMAIN CommandLines : CommandLineSane(CommandLines[c], least)

\* Numbers that respect it.
Sized(num, least, most) ==
  /\ num["packet_size"] \in Nat /\ least <= num["packet_size"]
  /\ num["offset"] \in 0..most /\ num["filesize"] \in Nat

\* What BuffersFit says of the options of a session.
InBuffer(opt) ==
  LET size == opt.num["buf_num_elems"] * opt.num["packet_size"] IN
  /\ size <= default.num["filesize"]
  /\ "WRITE_TO_SINGLE_FILE" \in opt.optbits /\ UsesDirectio(opt) /\ opt.num["offset"] = 0
       => size % BlockAlign = 0

\* A session that was not started has the buffers of the defaults; one that runs fits in them, and
\* if it records, its packets are as the operator asked.
SessionFits(x, least, most) ==
  /\ x.state = "scheduled" =>
       Sized(x.opt.num, least, most) /\ x.opt.num["filesize"] = default.num["filesize"]
  /\ x.state = "running" =>
       /\ x.opt.num["packet_size"] \in Nat /\ x.opt.num["offset"] \in 0..most
       /\ least - most <= x.opt.num["packet_size"]
       /\ "READMODE" \notin x.opt.optbits => least <= x.opt.num["packet_size"]
       /\ InBuffer(x.opt)

\* The invariant of the buffers: the size of a file in the defaults does not change once there are
\* sessions, and no recording was stored, and none is in the index, with packets that a playback
\* could not take.
FitInv(least, most) ==
  /\ Sized(default.num, least, most)
  /\ Len(argv) \in Nat /\ CommandLineSane(argv, least) /\ optind \in Nat \ {0}
  /\ phase \notin {"running", "fault"} => Len(sessions) = 0
  /\ indexed \in Nat /\ (indexed # 0 => least - most <= indexed)
  /\ \A t \in recorded : t[1] \in Nat /\ least - most <= t[1]
  /\ \A k \in 1..Len(sessions) : SessionFits(sessions[k], least, most)

\* Reading a number gives the value of the setting, if it has the type asked for.
LEMMA NumberRead ==
  ASSUME NEW p, IsPass(p), NEW i, NEW field \in Numbers, NEW type
  PROVE  LET q == FullNumber(p, i, "read", field, type) IN
         \/ q.opt.num = p.opt.num
         \/ p.cfg[i].type = type /\ q.opt.num[field] = p.cfg[i].value
<1> DEFINE v == p.cfg[i].value
           q == FullNumber(p, i, "read", field, type)
<1>1. CASE p.cfg[i].type # type
  <2>1. q = [p EXCEPT !.result = "error"]
    BY <1>1 DEF FullNumber, Failed
  <2>2. [p EXCEPT !.result = "error"].opt = p.opt
    BY PutResult
  <2> HIDE DEF q
  <2>3. q.opt.num = p.opt.num
    BY <2>1, <2>2
  <2> QED BY <2>3 DEF q
<1>2. CASE p.cfg[i].type = type
  <2>1. q = NumberPut(p, field, v)
    BY <1>2 DEF FullNumber, NumberPut
  <2>2. NumberPut(p, field, v).opt.num[field] = v
    BY PutNumber
  <2> HIDE DEF q, v
  <2>3. p.cfg[i].type = type /\ q.opt.num[field] = v
    BY <1>2, <2>1, <2>2
  <2> QED BY <2>3 DEF q, v
<1> QED BY <1>1, <1>2

\* The settings that assign the numbers of Sized, by what set_from_root does with them.
LEMMA SizingSettings ==
  ASSUME NEW p, NEW i
  PROVE  LET name == p.cfg[i].name
             q == OneSetting(p, i, "read")
         IN /\ Sets(name, "packet_size") =>
                 q \in {p, FullNumber(p, i, "read", "packet_size", "int64")}
            /\ Sets(name, "offset") => q \in {p, FullNumber(p, i, "read", "offset", "int")}
            /\ Sets(name, "filesize") => q \in {p, FileSizeMb(p, i, "read")}
<1> DEFINE name == p.cfg[i].name
<1>1. CASE Sets(name, "packet_size")
  <2>1. name \in {"packet_size", "buf_elem_size"}
    BY <1>1 DEF Sets
  <2>2. name # "filesizemb" /\ name # "offset"
    BY <2>1
  <2>3. OneSetting(p, i, "read") \in {p, FullNumber(p, i, "read", "packet_size", "int64")}
    BY <2>1 DEF OneSetting, BooleanSettings, StringSettings, Int64Settings, IntSettings
  <2> QED BY <2>2, <2>3 DEF Sets
<1>2. CASE Sets(name, "offset")
  <2>1. name = "offset"
    BY <1>2 DEF Sets
  <2>3. OneSetting(p, i, "read") \in {p, FullNumber(p, i, "read", "offset", "int")}
    BY <2>1 DEF OneSetting, BooleanSettings, StringSettings, Int64Settings, IntSettings
  <2> QED BY <2>1, <2>3 DEF Sets
<1>3. CASE Sets(name, "filesize")
  <2>1. name = "filesizemb"
    BY <1>3 DEF Sets
  <2>3. OneSetting(p, i, "read") \in {p, FileSizeMb(p, i, "read")}
    BY <2>1 DEF OneSetting, BooleanSettings, StringSettings, Int64Settings, IntSettings
  <2> QED BY <2>1, <2>3 DEF Sets
<1> QED BY <1>1, <1>2, <1>3

\* One turn of the loop reads numbers as the operator may give them.
LEMMA TurnSized ==
  ASSUME ConfigurationAssumption, NEW least \in Nat, NEW most \in Nat,
         NEW p, IsPass(p), IsSeq(p.heap), NEW i,
         SettingSane(p.cfg[i], least, most), Sized(p.opt.num, least, most)
  PROVE  Sized(OneSetting(p, i, "read").opt.num, least, most)
<1> DEFINE name == p.cfg[i].name
           q == OneSetting(p, i, "read")
<1>0. {"packet_size", "offset", "filesize"} \subseteq Numbers
  BY DEF Numbers, Int64Settings, IntSettings
<1>1. \A x \in {"packet_size", "offset", "filesize"} : Sets(name, x) \/ q.opt.num[x] = p.opt.num[x]
  <2>1. Turn(p, q, name, "read")
    BY SettingTurns
  <2> HIDE DEF q, name
  <2> QED BY <2>1 DEF Turn, Tracked
<1>2. q.opt.num["packet_size"] \in Nat /\ least <= q.opt.num["packet_size"]
  <2>1. CASE Sets(name, "packet_size")
    <3>1. q \in {p, FullNumber(p, i, "read", "packet_size", "int64")}
      BY <2>1, SizingSettings
    <3>2. \/ q.opt.num = p.opt.num
          \/ p.cfg[i].type = "int64" /\ q.opt.num["packet_size"] = p.cfg[i].value
      <4> HIDE DEF q
      <4> QED BY <1>0, <3>1, NumberRead
    <3>3. name \in {"packet_size", "buf_elem_size"}
      BY <2>1 DEF Sets
    <3> HIDE DEF q
    <3> QED BY <3>2, <3>3 DEF SettingSane, Sized
  <2> HIDE DEF q
  <2> QED BY <1>1, <2>1 DEF Sized
<1>3. q.opt.num["offset"] \in 0..most
  <2>1. CASE Sets(name, "offset")
    <3>1. q \in {p, FullNumber(p, i, "read", "offset", "int")}
      BY <2>1, SizingSettings
    <3>2. \/ q.opt.num = p.opt.num
          \/ p.cfg[i].type = "int" /\ q.opt.num["offset"] = p.cfg[i].value
      <4> HIDE DEF q
      <4> QED BY <1>0, <3>1, NumberRead
    <3>3. name = "offset"
      BY <2>1 DEF Sets
    <3> HIDE DEF q
    <3> QED BY <3>2, <3>3 DEF SettingSane, Sized
  <2> HIDE DEF q
  <2> QED BY <1>1, <2>1 DEF Sized
<1>4. q.opt.num["filesize"] \in Nat
  <2>1. CASE Sets(name, "filesize")
    <3>1. q \in {p, FileSizeMb(p, i, "read")}
      BY <2>1, SizingSettings
    <3>2. name = "filesizemb"
      BY <2>1 DEF Sets
    <3> DEFINE v == p.cfg[i].value
    <3>3. CASE q = p
      BY <3>3 DEF Sized
    <3>4. CASE q = FileSizeMb(p, i, "read") /\ p.cfg[i].type # "int"
      <4>1. q = [p EXCEPT !.result = "error"]
        BY <3>4 DEF FileSizeMb, Failed
      <4>2. [p EXCEPT !.result = "error"].opt = p.opt
        BY PutResult
      <4> HIDE DEF q
      <4> QED BY <4>1, <4>2 DEF Sized
    <3>5. CASE q = FileSizeMb(p, i, "read") /\ p.cfg[i].type = "int"
      <4>1. q = NumberPut(p, "filesize", v * Meg)
        BY <3>5 DEF FileSizeMb, NumberPut
      <4>2. \A u : NumberPut(p, "filesize", u).opt.num["filesize"] = u
        BY <1>0, PutNumber
      <4>3. v \in Nat /\ Meg \in Nat
        BY <3>2, <3>5 DEF SettingSane, ConfigurationAssumption
      <4>4. v * Meg \in Nat
        BY <4>3
      <4> HIDE DEF q, v
      <4> QED BY <4>1, <4>2, <4>4
    <3> QED BY <3>1, <3>3, <3>4, <3>5
  <2> HIDE DEF q
  <2> QED BY <1>1, <2>1 DEF Sized
<1> HIDE DEF q
<1>5. Sized(q.opt.num, least, most)
  BY <1>2, <1>3, <1>4 DEF Sized
<1> QED BY <1>5 DEF q

\* set_from_root reads numbers as the operator may give them.
LEMMA SizedRead ==
  ASSUME ConfigurationAssumption, NEW least \in Nat, NEW most \in Nat,
         NEW o, IsOpt(o), Sized(o.num, least, most), NEW h, IsSeq(h), NEW n \in Nat, NEW c,
         DOMAIN c = 1..n, \A i \in 1..n : SettingSane(c[i], least, most)
  PROVE  Sized(set_from_root(o, h, c, "read").opt.num, least, most)
<1> DEFINE Good(p) == IsPass(p) /\ IsSeq(p.heap) /\ p.cfg = c /\ Sized(p.opt.num, least, most)
<1>1. PICK F : Passes(F, o, h, c, n, "read")
  BY SettingBySetting
<1> DEFINE S == {k \in 0..n : Good(F[k])}
<1>2. 0 \in S
  <2>1. Good(F[0])
    BY <1>1, StartIs DEF Passes
  <2> HIDE DEF Good
  <2> QED BY <2>1
<1>3. ASSUME NEW k \in 0..(n - 1), k \in S PROVE k + 1 \in S
  <2>1. k + 1 \in 1..n /\ (k + 1) - 1 = k /\ Good(F[k])
    BY <1>3
  <2>2. F[k + 1] = OneSetting(F[k], k + 1, "read")
    BY <1>1, <2>1 DEF Passes
  <2>3. Turn(F[k], F[k + 1], F[k].cfg[k + 1].name, "read")
    BY <2>1, <2>2, SettingTurns
  <2>4. Sized(F[k + 1].opt.num, least, most)
    BY <2>1, <2>2, TurnSized
  <2>5. Good(F[k + 1])
    BY <2>1, <2>3, <2>4 DEF Turn
  <2> HIDE DEF Good
  <2> QED BY <2>1, <2>5
<1>4. Good(F[n])
  <2>1. 0..n \subseteq S
    <3> HIDE DEF S
    <3> QED BY <1>2, <1>3, UpTo
  <2> HIDE DEF Good
  <2> QED BY <2>1
<1>5. Sized(UseFileSize(F[n]).opt.num, least, most)
  <2> DEFINE q == UseFileSize(F[n])
  <2>1. Turn(F[n], q, "filesize", "read")
    BY <1>4, SizeTurns
  <2> HIDE DEF q
  <2>2. \A x \in {"packet_size", "offset", "filesize"} : q.opt.num[x] = F[n].opt.num[x]
    BY <2>1 DEF Turn, Tracked, Sets
  <2>3. Sized(q.opt.num, least, most)
    BY <1>4, <2>2 DEF Sized
  <2> QED BY <2>3 DEF q
<1> QED BY <1>1, <1>5 DEF Passes

\* Division loses what is left over.
LEMMA DivideOnce ==
  ASSUME NEW a \in Nat, NEW b \in Nat \ {0}
  PROVE  a \div b \in Nat /\ (a \div b) * b <= a
OBVIOUS

\* What was multiplied divides back.
LEMMA DivideBack ==
  ASSUME NEW n \in Nat, NEW b \in Nat \ {0}
  PROVE  (n * b) \div b = n
OBVIOUS

\* Fewer items take no more bytes.
LEMMA FewerTakeLess ==
  ASSUME NEW n \in Nat, NEW k \in Nat, n <= k, NEW b \in Nat
  PROVE  n * b \in Nat /\ n * b <= k * b
OBVIOUS

\* A file of whole packets and blocks, for options o that go to one file with direct writes.
WholeBlocks(o) ==
  "WRITE_TO_SINGLE_FILE" \in o.optbits /\ UsesDirectio(o) /\ o.num["offset"] = 0
    => /\ o.num["filesize"] % BlockAlign = 0
       /\ \E n \in Nat : o.num["filesize"] = n * o.num["packet_size"]

\* A field of the options of a pass.
LEMMA DuoPut ==
  ASSUME NEW o, NEW r, NEW field, NEW v
  PROVE  [Duo(o, r) EXCEPT !.opt.num[field] = v] = Duo(OptNumberPut(o, field, v), r)
BY DEF Duo, OptNumberPut

\* The end of init_cfg, where it does not fail, leaves files of whole blocks, no larger than they
\* were.
LEMMA AlignFits ==
  ASSUME ConfigurationAssumption, NEW o, IsOpt(o),
         o.num["packet_size"] \in Nat, o.num["offset"] \in Nat, o.num["filesize"] \in Nat,
         o.num["offset"] < o.num["packet_size"],
         NEW r, NEW q, AlignSingleFile(Duo(o, r)) = Duo(q, "ok")
  PROVE  /\ IsOpt(q) /\ q.optbits = o.optbits
         /\ q.num["packet_size"] = o.num["packet_size"] /\ q.num["offset"] = o.num["offset"]
         /\ q.num["filesize"] \in Nat /\ q.num["filesize"] <= o.num["filesize"]
         /\ WholeBlocks(q)
<1> DEFINE p == Duo(o, r)
           single == "WRITE_TO_SINGLE_FILE" \in o.optbits /\ UsesDirectio(o)
           al == Aligned(p)
           d == o.num["packet_size"] - o.num["offset"]
           all == o.num["filesize"] \div d
           fits == {n \in 1..all : BufSize(o, n) % BlockAlign = 0}
           n == CHOOSE n \in fits : \A m \in fits : m <= n
           o1 == OptNumberPut(o, "buf_num_elems", n)
           o2 == OptNumberPut(o1, "filesize", BufSize(o1, n))
<1>0. /\ p.opt = o /\ p.result = r /\ o.num["packet_size"] # 0
      /\ {"packet_size", "offset", "filesize", "buf_num_elems"} \subseteq Numbers
  BY DuoHas DEF Numbers, Int64Settings, IntSettings
<1>1. CASE ~single
  <2>1. AlignSingleFile(p) = p
    BY <1>0, <1>1 DEF AlignSingleFile, SingleFile
  <2>2. q = o
    <3>1. Duo(o, r).opt = Duo(q, "ok").opt
      BY <2>1
    <3> QED BY <3>1, DuoHas
  <2> QED BY <1>1, <2>2 DEF WholeBlocks
<1>2. CASE single /\ fits = {}
  <2>1. al = Duo(o, "error")
    <3>1. al = Failed(p)
      BY <1>0, <1>2 DEF Aligned
    <3> QED BY <3>1, DuoHas
  <2>2. AlignSingleFile(p) = al
    <3>1. al.result # "ok"
      BY <2>1, DuoHas
    <3> HIDE DEF p
    <3> QED BY <1>0, <1>2, <3>1 DEF AlignSingleFile, SingleFile, p
  <2>3. Duo(q, "ok").result = Duo(o, "error").result
    BY <2>1, <2>2
  <2> QED BY <2>3, DuoHas
<1>3. CASE single /\ fits # {}
  <2>1. d \in Nat \ {0} /\ all \in Nat /\ all * d <= o.num["filesize"]
    <3>1. d \in Nat \ {0}
      OBVIOUS
    <3> HIDE DEF d
    <3> QED BY <3>1, DivideOnce
  <2>2. n \in fits
    <3>1. Max(fits) \in fits /\ \A y \in fits : y <= Max(fits)
      <4>1. fits \in SUBSET (1..all) /\ fits # {}
        BY <1>3
      <4> HIDE DEF fits, all
      <4> QED BY <2>1, <4>1, MaxIs
    <3> HIDE DEF fits
    <3> QED BY <3>1
  <2>3. n \in Nat /\ n <= all /\ BufSize(o, n) % BlockAlign = 0
    <3> HIDE DEF n, all
    <3> QED BY <2>1, <2>2
  <2>4. al = Duo(o1, r)
    <3>1. al = [p EXCEPT !.opt.num["buf_num_elems"] = n]
      BY <1>0, <1>3 DEF Aligned
    <3> HIDE DEF n
    <3> QED BY <3>1, DuoPut
  <2> HIDE DEF n, fits, all
  <2>5. /\ IsOpt(o1) /\ o1.str = o.str /\ o1.optbits = o.optbits
        /\ \A x \in Numbers : /\ x = "buf_num_elems" => o1.num[x] = n
                              /\ x # "buf_num_elems" => o1.num[x] = o.num[x]
    BY PutOptNumber
  <2> HIDE DEF o1
  <2>6. r = "ok" /\ AlignSingleFile(p) = Duo(o2, r)
    <3>1. al.result = r /\ al.opt = o1 /\ o1.num["buf_num_elems"] = n
      BY <1>0, <2>4, <2>5, DuoHas
    <3>2. AlignSingleFile(p)
            = IF al.result # "ok" THEN al
              ELSE [al EXCEPT !.opt.num["filesize"] = BufSize(al.opt, al.opt.num["buf_num_elems"])]
      <4> HIDE DEF p
      <4> QED BY <1>0, <1>3 DEF AlignSingleFile, SingleFile, p
    <3>3. r = "ok"
      <4> SUFFICES ASSUME r # "ok" PROVE FALSE
        OBVIOUS
      <4>1. Duo(o1, r) = Duo(q, "ok")
        BY <2>4, <3>1, <3>2
      <4>2. Duo(o1, r).result = Duo(q, "ok").result
        BY <4>1
      <4> QED BY <4>2, DuoHas
    <3>4. AlignSingleFile(p) = [Duo(o1, r) EXCEPT !.opt.num["filesize"] = BufSize(o1, n)]
      <4> HIDE DEF p, al
      <4> QED BY <2>4, <3>1, <3>2, <3>3
    <3> QED BY <3>3, <3>4, DuoPut
  <2>7. /\ IsOpt(o2) /\ o2.str = o1.str /\ o2.optbits = o1.optbits
        /\ \A x \in Numbers : /\ x = "filesize" => o2.num[x] = BufSize(o1, n)
                              /\ x # "filesize" => o2.num[x] = o1.num[x]
    BY <2>5, PutOptNumber
  <2> HIDE DEF o2
  <2>8. q = o2
    <3>1. Duo(o2, r).opt = Duo(q, "ok").opt
      BY <2>6
    <3> QED BY <3>1, DuoHas
  <2>9. BufSize(o1, n) = n * d /\ BufSize(o, n) = n * d
    BY <1>0, <2>5 DEF BufSize
  <2>10. n * d \in Nat /\ n * d <= o.num["filesize"]
    <3>1. n * d \in Nat /\ n * d <= all * d /\ all * d \in Nat
      <4> HIDE DEF d
      <4> QED BY <2>1, <2>3, FewerTakeLess
    <3> HIDE DEF d
    <3> QED BY <2>1, <3>1
  <2>11. /\ IsOpt(q) /\ q.optbits = o.optbits
         /\ q.num["packet_size"] = o.num["packet_size"] /\ q.num["offset"] = o.num["offset"]
         /\ q.num["filesize"] = n * d
    <3> HIDE DEF d
    <3> QED BY <1>0, <2>5, <2>7, <2>8, <2>9
  <2>12. WholeBlocks(q)
    <3> SUFFICES ASSUME q.num["offset"] = 0
                 PROVE  /\ q.num["filesize"] % BlockAlign = 0
                        /\ \E k \in Nat : q.num["filesize"] = k * q.num["packet_size"]
      BY DEF WholeBlocks
    <3>1. d = q.num["packet_size"]
      BY <2>11
    <3> HIDE DEF d
    <3> QED BY <2>3, <2>9, <2>11, <3>1
  <2> QED BY <2>10, <2>11, <2>12
<1> QED BY <1>1, <1>2, <1>3

\* The number of packets start_event computes fits in a buffer of the defaults.
LEMMA ElemsFit ==
  ASSUME NEW q, IsOpt(q), q.num["packet_size"] \in Nat \ {0}, q.num["filesize"] \in Nat,
         default.num["filesize"] \in Nat, q.num["filesize"] <= default.num["filesize"],
         WholeBlocks(q)
  PROVE  LET w == OptNumberPut(q, "buf_num_elems", q.num["filesize"] \div q.num["packet_size"])
         IN InBuffer(w) /\ w.optbits = q.optbits /\ w.num["packet_size"] = q.num["packet_size"]
            /\ w.num["offset"] = q.num["offset"]
<1> DEFINE a == q.num["filesize"]
           b == q.num["packet_size"]
           k == a \div b
           w == OptNumberPut(q, "buf_num_elems", k)
<1>1. {"packet_size", "offset", "filesize", "buf_num_elems"} \subseteq Numbers
  BY DEF Numbers, Int64Settings, IntSettings
<1>2. k \in Nat /\ k * b <= a
  BY DivideOnce
<1> HIDE DEF k
<1>3. /\ w.optbits = q.optbits
      /\ \A x \in Numbers : /\ x = "buf_num_elems" => w.num[x] = k
                            /\ x # "buf_num_elems" => w.num[x] = q.num[x]
  BY PutOptNumber
<1> HIDE DEF w
<1>4. /\ w.num["buf_num_elems"] = k /\ w.num["packet_size"] = b
      /\ w.num["offset"] = q.num["offset"]
  BY <1>1, <1>3
<1>5. k * b \in Nat
  BY <1>2
<1>6. k * b <= default.num["filesize"]
  BY <1>2, <1>5
<1>7. ASSUME "WRITE_TO_SINGLE_FILE" \in w.optbits, UsesDirectio(w), w.num["offset"] = 0
      PROVE  (k * b) % BlockAlign = 0
  <2>1. PICK n \in Nat : a = n * b
    BY <1>3, <1>4, <1>7 DEF WholeBlocks, UsesDirectio
  <2>2. a % BlockAlign = 0
    BY <1>3, <1>4, <1>7 DEF WholeBlocks, UsesDirectio
  <2>3. k = n
    BY <2>1, DivideBack DEF k
  <2> QED BY <2>1, <2>2, <2>3
<1>8. InBuffer(w)
  BY <1>4, <1>6, <1>7 DEF InBuffer
<1> QED BY <1>3, <1>4, <1>8 DEF w, k

\* What a playback finds, and what a recording asks for, are packets that can be taken.
LEMMA PacketsFound ==
  ASSUME ConfigurationAssumption, StringsInv, NEW least, NEW most, SizesSane(least, most),
         FitInv(least, most), NEW o, IsOpt(o), Sized(o.num, least, most)
  PROVE  \E q, r :
           /\ init_cfg(o) = AlignSingleFile(Duo(q, r)) /\ IsOpt(q) /\ q.optbits = o.optbits
           /\ SameFiles(o, q) /\ q.num["packet_size"] \in Nat
           /\ q.num["packet_size"] # 0 => least - most <= q.num["packet_size"]
           /\ "READMODE" \notin o.optbits => least <= q.num["packet_size"]
<1>0. least \in Nat /\ most \in Nat /\ least - most <= least
  BY DEF SizesSane
<1>1. CASE "READMODE" \notin o.optbits
  <2>1. PICK r : ClaimName(o) = Duo(o, r)
    BY DEF ClaimName, Duo
  <2>2. init_cfg(o) = AlignSingleFile(Duo(o, r))
    BY <1>1, <2>1 DEF init_cfg
  <2> QED BY <1>0, <2>2 DEF SameFiles, Sized
<1>2. CASE "READMODE" \in o.optbits
  <2>1. FoundFor(o, FindRecording(o))
    BY RecordingFound DEF StringsInv
  <2>2. PICK q, r : /\ FindRecording(o) = Duo(q, r) /\ IsOpt(q) /\ q.optbits = o.optbits
                    /\ SameFiles(o, q)
                    /\ \/ q.num["packet_size"] = o.num["packet_size"]
                       \/ q.num["packet_size"] = indexed
                       \/ \E t \in recorded : Sizes(q.num) = <<t[1], t[2], t[3]>>
    BY <2>1 DEF FoundFor
  <2>3. init_cfg(o) = AlignSingleFile(Duo(q, r))
    BY <1>2, <2>2 DEF init_cfg
  <2>4. /\ q.num["packet_size"] \in Nat
        /\ q.num["packet_size"] # 0 => least - most <= q.num["packet_size"]
    <3>1. CASE q.num["packet_size"] = o.num["packet_size"]
      BY <1>0, <3>1 DEF Sized
    <3>2. CASE q.num["packet_size"] = indexed
      BY <3>2 DEF FitInv
    <3>3. CASE \E t \in recorded : Sizes(q.num) = <<t[1], t[2], t[3]>>
      <4>1. PICK t \in recorded : q.num["packet_size"] = t[1]
        BY <3>3 DEF Sizes
      <4> QED BY <4>1 DEF FitInv
    <3> QED BY <2>2, <3>1, <3>2, <3>3
  <2> QED BY <1>2, <2>2, <2>3, <2>4
<1> QED BY <1>1, <1>2

\* The invariant of the buffers at the start.
LEMMA FitInit ==
  ASSUME ConfigurationAssumption, SettingsAssumption, NEW least, NEW most,
         SizesSane(least, most), Init
  PROVE  FitInv(least, most)
<1>1. least \in Nat /\ most \in Nat /\ least <= 2 * RingAlign
  BY DEF SizesSane
<1>2. default = clear_and_default /\ optind = 1 /\ sessions = <<>> /\ recorded = {} /\ indexed = 0
  BY DEF Init
<1>3. Sized(default.num, least, most)
  <2>1. 2 * RingAlign \in Nat
    BY DEF ConfigurationAssumption
  <2> QED BY <1>1, <1>2, <2>1, DefaultsAre DEF Sized
<1>4. Len(argv) \in Nat /\ CommandLineSane(argv, least)
  BY DEF Init, SizesSane, SettingsAssumption
<1>5. Len(sessions) = 0
  BY <1>2
<1> QED BY <1>2, <1>3, <1>4, <1>5 DEF FitInv

\* Steps of the start of the daemon, when there are no sessions.
LEMMA FitBefore ==
  ASSUME NEW least, NEW most, FitInv(least, most), phase \notin {"running", "fault"},
         Sized(default'.num, least, most), sessions' = sessions, recorded' = recorded,
         indexed' = indexed,
         argv' = argv, optind' \in Nat \ {0}
  PROVE  FitInv(least, most)'
<1>1. Len(sessions') = 0
  BY DEF FitInv
<1> QED BY <1>1 DEF FitInv

\* An option of the command line.
LEMMA FitParseOption ==
  ASSUME StringsInv, NEW least, NEW most, SizesSane(least, most), FitInv(least, most), ParseOption
  PROVE  FitInv(least, most)'
<1> DEFINE arg == argv[optind]
           pass == OneOption(TrioOf(default, heap, "ok"), arg)
<1>1. /\ phase \notin {"running", "fault"} /\ optind <= Len(argv) /\ optind' = optind + 1 /\ argv' = argv
      /\ default' = pass.opt /\ sessions' = sessions /\ recorded' = recorded
      /\ indexed' = indexed
  BY DEF ParseOption, TrioOf, archive
<1>2. optind \in 1..Len(argv) /\ optind' \in Nat \ {0}
  BY <1>1 DEF FitInv
<1>3. arg.option = "p" => arg.value \in Nat /\ least <= arg.value
  BY <1>2 DEF FitInv, CommandLineSane
<1>4. \A x \in Tracked : \/ pass.opt.num[x] = default.num[x]
                         \/ /\ x = "packet_size" /\ arg.option = "p"
                            /\ pass.opt.num[x] = arg.value
  <2>1. IsOpt(default) /\ IsSeq(heap)
    BY DEF StringsInv
  <2> HIDE DEF arg
  <2> QED BY <2>1, OptionParsed
<1> HIDE DEF pass, arg
<1>5. Sized(pass.opt.num, least, most)
  <2>1. Sized(default.num, least, most)
    BY DEF FitInv
  <2> QED BY <1>3, <1>4, <2>1 DEF Sized, Tracked
<1> QED BY <1>1, <1>2, <1>5, FitBefore

\* The configuration file.
LEMMA FitReadFullCfg ==
  ASSUME ConfigurationAssumption, SettingsAssumption, StringsInv, NEW least, NEW most,
         SizesSane(least, most), FitInv(least, most), ReadFullCfg
  PROVE  FitInv(least, most)'
<1> DEFINE h == Append(heap, "CFGFILE")
           pass == set_from_root(default, h, cfgfile, "read")
           n == Len(cfgfile)
<1>1. /\ default' = [pass.opt EXCEPT !.str["cfgfile"] = Len(heap) + 1]
      /\ phase \notin {"running", "fault"} /\ sessions' = sessions /\ recorded' = recorded
      /\ indexed' = indexed
      /\ argv' = argv /\ optind' = optind
  BY DEF ReadFullCfg, archive
<1>2. /\ IsOpt(default) /\ IsSeq(heap) /\ n \in Nat /\ DOMAIN cfgfile = 1..n
      /\ \A i \in 1..n : SettingSane(cfgfile[i], least, most)
  BY DEF StringsInv, SettingsAssumption, SizesSane
<1>3. IsSeq(h) /\ Len(h) = Len(heap) + 1
  BY <1>2, Lengthens
<1>4. /\ Len(heap) \in Nat /\ Apart(default.str) /\ \A s \in Strings : default.str[s] \in 0..Len(heap)
  BY OwnersAre
<1>5. least \in Nat /\ most \in Nat /\ Sized(default.num, least, most) /\ optind \in Nat \ {0}
  BY DEF SizesSane, FitInv
<1> HIDE DEF h, n
<1>6. Grown(pass, default.str, Len(h))
  <2>1. \A s \in Strings : default.str[s] \in 0..Len(h)
    BY <1>3, <1>4
  <2> QED BY <1>2, <1>3, <1>4, <2>1, Totals, SettingsRead
<1>7. Sized(pass.opt.num, least, most)
  BY <1>2, <1>3, <1>5, SizedRead
<1> HIDE DEF pass
<1>8. IsOpt(pass.opt) /\ "cfgfile" \in Strings
  BY <1>6, OptOfPass DEF Grown, Strings
<1>9. default'.num = pass.opt.num
  <2>1. default' = OptStringPut(pass.opt, "cfgfile", Len(heap) + 1)
    BY <1>1 DEF OptStringPut
  <2> QED BY <1>8, <2>1, PutOptString
<1> QED BY <1>1, <1>5, <1>7, <1>9, FitBefore

\* Rounding up loses nothing.
LEMMA RoundUp ==
  ASSUME NEW a \in Nat, NEW b \in Nat \ {0}
  PROVE  ((a + b - 1) \div b) * b \in Nat /\ a <= ((a + b - 1) \div b) * b
OBVIOUS

\* The packets of a receive ring grow.
LEMMA FitCalculateBufferSizes ==
  ASSUME ConfigurationAssumption, StringsInv, NEW least, NEW most, SizesSane(least, most),
         FitInv(least, most), CalculateBufferSizes
  PROVE  FitInv(least, most)'
<1> DEFINE size == default.num["packet_size"]
           new == default'.num["packet_size"]
<1>1. /\ phase \notin {"running", "fault"} /\ sessions' = sessions /\ recorded' = recorded
      /\ indexed' = indexed
      /\ argv' = argv /\ optind' = optind
  BY DEF CalculateBufferSizes, archive
<1>2. /\ SameFiles(default, default')
      /\ new = size \/ new = ((size + RingAlign - 1) \div RingAlign) * RingAlign
  BY StringsCalculateBufferSizes
<1>3. Sized(default.num, least, most) /\ least \in Nat /\ optind \in Nat \ {0}
  BY DEF FitInv, SizesSane
<1>4. new \in Nat /\ least <= new
  <2>1. size \in Nat /\ least <= size /\ RingAlign \in Nat \ {0}
    BY <1>3 DEF Sized, ConfigurationAssumption
  <2> HIDE DEF size, new
  <2>2. /\ ((size + RingAlign - 1) \div RingAlign) * RingAlign \in Nat
        /\ size <= ((size + RingAlign - 1) \div RingAlign) * RingAlign
    BY <2>1, RoundUp
  <2> DEFINE up == ((size + RingAlign - 1) \div RingAlign) * RingAlign
  <2>3. up \in Nat /\ size <= up /\ (new = size \/ new = up)
    BY <1>2, <2>2 DEF size, new
  <2> HIDE DEF up
  <2> QED BY <1>3, <2>1, <2>3
<1>5. Sized(default'.num, least, most)
  BY <1>2, <1>3, <1>4 DEF Sized, SameFiles
<1> QED BY <1>1, <1>3, <1>5, FitBefore

\* A session of an entry of the schedule, before it starts.
LEMMA FitAddRecording ==
  ASSUME ConfigurationAssumption, SettingsAssumption, StringsInv, NEW least, NEW most,
         SizesSane(least, most), FitInv(least, most), AddRecording
  PROVE  FitInv(least, most)'
<1>0. PICK e \in DOMAIN Entries : \E pass, o, st :
           /\ Entered(e, pass) /\ heap' = pass.heap
           /\ sessions' = Append(sessions, SessionOf(o, st))
           /\ IsOpt(o) /\ o.num = pass.opt.num
           /\ \A s \in Strings : o.str[s] \in {pass.opt.str[s], NULL}
           /\ st \in {"scheduled", "broken"}
  BY EntryRead
<1>1. PICK pass, o, st :
           /\ Entered(e, pass) /\ sessions' = Append(sessions, SessionOf(o, st))
           /\ o.num = pass.opt.num /\ st \in {"scheduled", "broken"}
  BY <1>0
<1> DEFINE v == SessionOf(o, st)
           n == Len(sessions)
<1>2. Sized(default.num, least, most) /\ least \in Nat /\ most \in Nat
  BY DEF FitInv, SizesSane
<1>3. Sized(o.num, least, most)
  <2>1. PICK h : IsSeq(h) /\ pass = set_from_root(Mine, h, Entries[e], "read")
    BY <1>1 DEF Entered
  <2>2. IsOpt(Mine) /\ Sized(Mine.num, least, most)
    BY <1>2, MineIs
  <2>3. /\ Len(Entries[e]) \in Nat /\ DOMAIN Entries[e] = 1..Len(Entries[e])
        /\ \A i \in 1..Len(Entries[e]) : SettingSane(Entries[e][i], least, most)
    BY DEF SettingsAssumption, SizesSane
  <2>4. Sized(set_from_root(Mine, h, Entries[e], "read").opt.num, least, most)
    BY <1>2, <2>1, <2>2, <2>3, SizedRead
  <2> QED BY <1>1, <2>1, <2>4
<1>4. o.num["filesize"] = default.num["filesize"]
  <2>1. \A i \in 1..Len(Entries[e]) : ~Sets(Entries[e][i].name, "filesize")
    BY DEF SizesSane, Sets
  <2> QED BY <1>1, <2>1 DEF Entered, Tracked
<1>5. v.opt = o /\ v.state # "running"
  BY <1>1 DEF SessionOf
<1>6. IsSeq(sessions) /\ sessions' = Append(sessions, v) /\ n \in Nat
  BY <1>1, OwnersAre DEF StringsInv
<1> HIDE DEF v
<1>7. LET g == Append(sessions, v) IN
       /\ IsSeq(g) /\ Len(g) = n + 1 /\ g[n + 1] = v
       /\ \A i \in 1..n : g[i] = sessions[i]
  BY <1>6, SeqAdd
<1>8. /\ default' = default /\ recorded' = recorded /\ phase = "running" /\ phase' = phase
      /\ indexed' = indexed
      /\ argv' = argv /\ optind' = optind
  BY DEF AddRecording, startup, archive
<1>9. SessionFits(v, least, most)
  BY <1>3, <1>4, <1>5 DEF SessionFits
<1>10. \A k \in 1..Len(sessions') : SessionFits(sessions'[k], least, most)
  <2>1. \A k \in 1..(n + 1) : k \in 1..n \/ k = n + 1
    BY <1>6
  <2> QED BY <1>6, <1>7, <1>9, <2>1 DEF FitInv
<1>11. \A k \in 1..Len(sessions') :
         SessionFits(sessions[k], least, most)' = SessionFits(sessions'[k], least, most)
  BY <1>8 DEF SessionFits, InBuffer
<1> QED BY <1>8, <1>10, <1>11 DEF FitInv

\* Stripped packets are longer than what a playback skips of them.
LEMMA StillLonger ==
  ASSUME NEW least \in Nat, NEW most \in Nat, 2 * most < least,
         NEW a \in Nat, least - most <= a, NEW b \in 0..most
  PROVE  b < a
OBVIOUS

\* A session that starts fits in the buffers.
LEMMA FitStartEvent ==
  ASSUME ConfigurationAssumption, StringsInv, NEW least, NEW most, SizesSane(least, most),
         FitInv(least, most), StartEvent
  PROVE  FitInv(least, most)'
<1>1. default' = default /\ recorded' = recorded /\ argv' = argv /\ optind' = optind
  BY DEF StartEvent, archive
<1>2. CASE sessions' = sessions /\ indexed' = indexed /\ phase' = "fault"
  BY <1>1, <1>2 DEF FitInv, SessionFits, InBuffer
<1> SUFFICES ASSUME Starts PROVE FitInv(least, most)'
  BY <1>2, EventStarted
<1>3. Starts
  OBVIOUS
<1>4. PICK s \in 1..Len(sessions) : \E q, r, v :
           /\ sessions[s].state = "scheduled"
           /\ Started(s, sessions[s].opt, q, r, v)
           /\ sessions' = SeqWith(sessions, s, v) /\ phase' = phase
           /\ indexed' = IF v.state = "running" THEN Indexed(sessions[s].opt) ELSE indexed
  BY <1>3 DEF Starts
<1> DEFINE o == sessions[s].opt
<1>5. PICK q, r, v :
        /\ Started(s, o, q, r, v) /\ sessions' = SeqWith(sessions, s, v) /\ phase' = phase
        /\ indexed' = IF v.state = "running" THEN Indexed(o) ELSE indexed
  BY <1>4
<1>6. /\ IsOpt(o) /\ Sized(o.num, least, most) /\ o.num["filesize"] = default.num["filesize"]
  BY <1>4 DEF StringsInv, FitInv, SessionFits
<1>7. /\ least \in Nat /\ most \in Nat /\ 2 * most < least
  BY DEF SizesSane
<1>8. PICK p, r1 :
           /\ init_cfg(o) = AlignSingleFile(Duo(p, r1)) /\ IsOpt(p) /\ p.optbits = o.optbits
           /\ SameFiles(o, p) /\ p.num["packet_size"] \in Nat
           /\ p.num["packet_size"] # 0 => least - most <= p.num["packet_size"]
           /\ "READMODE" \notin o.optbits => least <= p.num["packet_size"]
  BY <1>6, PacketsFound
<1>9. IsOpt(v.opt) /\ v.opt.optbits = o.optbits /\ v.state \in {"refused", "running"}
  BY <1>5, StartedIs
<1>10. ASSUME v.state = "running"
      PROVE  /\ v.opt.num["packet_size"] \in Nat /\ v.opt.num["offset"] \in 0..most
             /\ least - most <= v.opt.num["packet_size"]
             /\ "READMODE" \notin v.opt.optbits => least <= v.opt.num["packet_size"]
             /\ InBuffer(v.opt)
  <2> DEFINE k == q.num["filesize"] \div q.num["packet_size"]
             w == OptNumberPut(q, "buf_num_elems", k)
  <2>1. /\ r = "ok" /\ init_cfg(o) = Duo(q, r) /\ v = SessionOf(w, "running")
        /\ q.num["packet_size"] # 0
    <3>1. SessionOf(q, "refused").state = "refused"
      BY DEF SessionOf
    <3> QED BY <1>5, <1>10, <3>1 DEF Started
  <2>2. AlignSingleFile(Duo(p, r1)) = Duo(q, "ok")
    BY <1>8, <2>1
  <2>3. /\ p.num["offset"] \in 0..most /\ p.num["filesize"] = default.num["filesize"]
        /\ default.num["filesize"] \in Nat
    BY <1>6, <1>8 DEF SameFiles, Sized
  <2>9. least - most <= p.num["packet_size"]
    <3>1. Resized(p, Duo(q, "ok"))
      BY <1>8, <2>2, AlignedResizes
    <3>2. PICK q2, r2 : Duo(q, "ok") = Duo(q2, r2) /\ SizesKept(p, q2)
      BY <3>1 DEF Resized
    <3>3. q2 = q
      BY <3>2, DuoHas
    <3>4. q.num["packet_size"] = p.num["packet_size"]
      BY <3>2, <3>3 DEF SizesKept, Sizes
    <3> QED BY <1>8, <2>1, <3>4
  <2>4. p.num["offset"] < p.num["packet_size"]
    BY <1>7, <1>8, <2>3, <2>9, StillLonger
  <2>5. /\ IsOpt(q) /\ q.optbits = p.optbits
        /\ q.num["packet_size"] = p.num["packet_size"] /\ q.num["offset"] = p.num["offset"]
        /\ q.num["filesize"] \in Nat /\ q.num["filesize"] <= p.num["filesize"]
        /\ WholeBlocks(q)
    <3>1. /\ IsOpt(p) /\ p.num["packet_size"] \in Nat /\ p.num["offset"] \in Nat
          /\ p.num["filesize"] \in Nat
      BY <1>8, <2>3
    <3> HIDE DEF w, k, o
    <3> QED BY <2>2, <2>4, <3>1, AlignFits
  <2>6. q.num["packet_size"] \in Nat \ {0}
    BY <1>8, <2>3, <2>4, <2>5
  <2>7. /\ InBuffer(w) /\ w.optbits = q.optbits
        /\ w.num["packet_size"] = q.num["packet_size"] /\ w.num["offset"] = q.num["offset"]
    BY <2>3, <2>5, <2>6, ElemsFit
  <2>8. v.opt = w
    BY <2>1 DEF SessionOf
  <2> HIDE DEF w
  <2> QED BY <1>8, <1>9, <2>3, <2>5, <2>7, <2>8, <2>9
<1>11. SessionFits(v, least, most)
  BY <1>9, <1>10 DEF SessionFits
<1>12. /\ Len(sessions') = Len(sessions) /\ sessions'[s] = v
      /\ \A k \in 1..Len(sessions) : k # s => sessions'[k] = sessions[k]
  BY <1>5, <1>9, OneSession
<1>13. \A k \in 1..Len(sessions') : SessionFits(sessions'[k], least, most)
  BY <1>11, <1>12 DEF FitInv
<1>14. \A k \in 1..Len(sessions') :
         SessionFits(sessions[k], least, most)' = SessionFits(sessions'[k], least, most)
  BY <1>1 DEF SessionFits, InBuffer
<1>15. indexed' \in Nat /\ (indexed' # 0 => least - most <= indexed')
  <2>1. Indexed(o) \in {indexed, 0, o.num["packet_size"]}
    BY DEF Indexed
  <2>2. o.num["packet_size"] \in Nat /\ least - most <= o.num["packet_size"]
    BY <1>6, <1>7 DEF Sized
  <2>3. indexed \in Nat /\ (indexed # 0 => least - most <= indexed)
    BY DEF FitInv
  <2> HIDE DEF o
  <2> QED BY <1>5, <2>1, <2>2, <2>3
<1> QED BY <1>5, <1>12, <1>1, <1>13, <1>14, <1>15 DEF FitInv

\* A recording that ends stores what is left of its packets.
LEMMA FitFinishRecording ==
  ASSUME StringsInv, NEW least, NEW most, SizesSane(least, most), FitInv(least, most),
         FinishRecording
  PROVE  FitInv(least, most)'
<1>1. PICK s \in 1..Len(sessions) : \E o, t :
           /\ s \in Live /\ IsOpt(o) /\ o.str = sessions[s].opt.str
           /\ sessions' = SeqWith(sessions, s, SessionOf(o, "finished"))
           /\ t = <<t[1], t[2], t[3]>> /\ recorded' = recorded \cup {t}
           /\ t[1] = LeftOf(sessions[s].opt)
           /\ StoredIs'
  BY RecordingFinished
<1>2. PICK o, t :
           /\ s \in Live /\ IsOpt(o)
           /\ sessions' = SeqWith(sessions, s, SessionOf(o, "finished"))
           /\ recorded' = recorded \cup {t} /\ t[1] = LeftOf(sessions[s].opt)
  BY <1>1
<1> DEFINE v == SessionOf(o, "finished")
<1>3. v.opt = o /\ v.state = "finished"
  BY DEF SessionOf
<1> HIDE DEF v
<1>4. t[1] \in Nat /\ least - most <= t[1]
  <2> DEFINE num == sessions[s].opt.num
  <2>1. num["packet_size"] \in Nat /\ num["offset"] \in 0..most /\ least <= num["packet_size"]
    BY <1>2 DEF FitInv, SessionFits, Live, Running
  <2>2. least \in Nat /\ most \in Nat /\ 2 * most < least
    BY DEF SizesSane
  <2>3. t[1] = num["packet_size"] \/ t[1] = num["packet_size"] - num["offset"]
    <3>1. num["packet_size"] - 0 = num["packet_size"]
      BY <2>1
    <3> QED BY <1>2, <3>1 DEF LeftOf
  <2> HIDE DEF num
  <2> QED BY <2>1, <2>2, <2>3
<1>5. /\ default' = default /\ phase' = phase /\ argv' = argv /\ optind' = optind
      /\ indexed' = indexed
  BY DEF FinishRecording, startup
<1>6. /\ Len(sessions') = Len(sessions) /\ sessions'[s] = v
      /\ \A k \in 1..Len(sessions) : k # s => sessions'[k] = sessions[k]
  BY <1>2, <1>3, OneSession DEF v
<1>7. SessionFits(v, least, most)
  BY <1>3 DEF SessionFits
<1>8. \A k \in 1..Len(sessions') : SessionFits(sessions'[k], least, most)
  BY <1>6, <1>7 DEF FitInv
<1>9. \A k \in 1..Len(sessions') :
         SessionFits(sessions[k], least, most)' = SessionFits(sessions'[k], least, most)
  BY <1>5 DEF SessionFits, InBuffer
<1>10. \A u \in recorded' : u[1] \in Nat /\ least - most <= u[1]
  BY <1>2, <1>4 DEF FitInv
<1> QED BY <1>5, <1>6, <1>8, <1>9, <1>10 DEF FitInv

\* Every step preserves the invariant of the buffers.
LEMMA FitStep ==
  ASSUME ConfigurationAssumption, SettingsAssumption, NEW least, NEW most, SizesSane(least, most),
         StringsInv, FitInv(least, most), [Next]_vars
  PROVE  FitInv(least, most)'
<1>1. Sized(default.num, least, most) /\ optind \in Nat \ {0}
  BY DEF FitInv
<1>2. CASE ParseOption
  BY <1>2, FitParseOption
<1>3. CASE Parsed \/ CheckNonlogicals
  <2>1. /\ phase \notin {"running", "fault"} /\ default' = default /\ sessions' = sessions
        /\ recorded' = recorded /\ indexed' = indexed /\ argv' = argv /\ optind' = optind
    BY <1>3 DEF Parsed, CheckNonlogicals, archive
  <2> QED BY <1>1, <2>1, FitBefore
<1>4. CASE ReadFullCfg
  BY <1>4, FitReadFullCfg
<1>5. CASE CalculateBufferSizes
  BY <1>5, FitCalculateBufferSizes
<1>6. CASE AddRecording
  BY <1>6, FitAddRecording
<1>7. CASE StartEvent
  BY <1>7, FitStartEvent
<1>8. CASE FinishRecording
  BY <1>8, FitFinishRecording
<1>9. CASE UNCHANGED vars
  BY <1>9 DEF vars, startup, archive, FitInv, SessionFits, InBuffer
<1> QED BY <1>2, <1>3, <1>4, <1>5, <1>6, <1>7, <1>8, <1>9 DEF Next

\* The invariants imply the property.
LEMMA FitHolds ==
  ASSUME StringsInv, NEW least, NEW most, FitInv(least, most)
  PROVE  BuffersFit
<1>1. \A s \in DOMAIN sessions : sessions[s].state = "running" => InBuffer(sessions[s].opt)
  <2>1. DOMAIN sessions = 1..Len(sessions)
    BY SeqIs DEF StringsInv
  <2> QED BY <2>1 DEF FitInv, SessionFits
<1> QED BY <1>1 DEF BuffersFit, InBuffer

\* The packets of a session never take more than the buffer that was allocated for the default
\* options, for every command line, file and schedule that names packets longer than what is
\* stripped of them, and whatever the disks hold for a playback: the buffers are sized by
\* calculate_buffer_sizes_singlefilesize and filled by what init_cfg (src/src/confighelper.c) and
\* start_event (src/src/server.c) compute anew.  The premise is what the code does not check: an
\* entry with a larger filesizemb of its own, or packets of no size, would break the property.
THEOREM PacketsFitTheBuffers ==
  ASSUME NEW least, NEW most, SizesSane(least, most)
  PROVE  Spec => []BuffersFit
<1>1. Init => StringsInv /\ FitInv(least, most)
  BY ConfigurationAssumption, SettingsAssumption, StringsInit, FitInit
<1>2. StringsInv /\ FitInv(least, most) /\ [Next]_vars => (StringsInv /\ FitInv(least, most))'
  BY ConfigurationAssumption, SettingsAssumption, StringsStep, FitStep
<1>3. StringsInv /\ FitInv(least, most) => BuffersFit
  BY FitHolds
<1> QED BY <1>1, <1>2, <1>3, PTL DEF Spec
=============================================================================
