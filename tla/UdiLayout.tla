------------------------------ MODULE UdiLayout ------------------------------
(* Layouts of the UDI environment (udi/common/udi_layout.c): strings of bytes that
   describe a structure to the environment, which finds from them how much room
   it takes, where its pointers are, and where a channel operation's parameters
   go while the operation waits.  A layout is built here one member after the
   other and read back by the code's scans; Member says what the C compiler makes
   of each.  Tokens stand for bytes: "end" for 0, which is UDI_DL_END and may be an
   argument of UDI_DL_BUF as well, "u8" for 1, and so on.                      *)
EXTENDS Naturals, SequencesExt, FiniteSetsExt, Bitwise

CONSTANTS Codes,        \* the scalar and pointer codes that are told apart
          Counts,       \* sizes of arrays
          Arguments,    \* what may follow UDI_DL_BUF, three bytes
          MaxMembers    \* bound

SizeOf == [u8 |-> 1, u16 |-> 2, u32 |-> 4, status |-> 4, index |-> 1, channel |-> 4,
           buf |-> 4, cb |-> 4, inline |-> 4, movable |-> 4]
Number == [one |-> 1, two |-> 2, three |-> 3]
Nested == {"inline_typed", "movable_typed"}

VARIABLES layout,       \* what is written so far, without the last end
          members       \* what the C structure is: [size, align, code, zero]
vars == <<layout, members>>

AlignNot(x, b) == x             \* slip: members follow one another
Align(x, b) == LET y == x + b - 1 IN y - (y & (b - 1))      \* _udi_alignto

\* From a nested layout's first code to behind its end (while (*++layout != END)), or
\* behind the first argument that is 0.
Behind(l, p) == 1 + Min({q \in DOMAIN l : q > p /\ l[q] = "end"})

\* What the scans make of one member: its size, and where the next one starts.
RECURSIVE Sized(_, _, _)
Element(l, p) ==
    CASE l[p] = "buf" -> [size |-> 4, next |-> p + 4]           \* its other arguments
      [] l[p] \in Nested -> [size |-> 4, next |-> Behind(l, p)]
      [] l[p] = "array" -> [size |-> Number[l[p + 1]] * Sized(l, p + 2, 0), next |-> Behind(l, p + 2)]
      [] OTHER -> [size |-> SizeOf[l[p]], next |-> p + 1]
\* _udi_get_layout_size of l from p on, with "at" bytes before.
Sized(l, p, at) ==
    IF l[p] = "end" THEN at
    ELSE LET e == Element(l, p) IN Sized(l, e.next, Align(at, e.size) + e.size)
_udi_get_layout_size(l) == Sized(l, 1, 0)

\* Its chain_offset and inline_offset: of the last such member.
RECURSIVE LastOf(_, _, _, _, _)
LastOf(l, p, at, codes, found) ==
    IF l[p] = "end" THEN found
    ELSE LET e == Element(l, p)
             here == Align(at, e.size)
         IN  LastOf(l, e.next, here + e.size, codes, IF l[p] \in codes THEN here ELSE found)
NotFound == 999
chain_offset(l) == LastOf(l, 1, 0, {"cb"}, NotFound)
inline_offset(l) == LastOf(l, 1, 0, {"inline", "inline_typed"}, NotFound)

\* _udi_get_layout_offset: up to the first key, without the room that aligns it.
RECURSIVE Found(_, _, _, _)
Found(l, p, at, key) ==
    IF l[p] = key THEN at
    ELSE IF l[p] = "end" THEN NotFound
    ELSE LET e == Element(l, p) IN Found(l, e.next, Align(at, e.size) + e.size, key)
_udi_get_layout_offset(l, key) == Found(l, 1, 0, key)

\* _udi_marshal_params: where it puts the parameters, [at, size].  An array is
\* passed over as it is, not aligned.
RECURSIVE Put(_, _, _, _)
Put(l, p, at, put) ==
    IF l[p] = "end" THEN put
    ELSE LET e == Element(l, p)
             here == Align(at, e.size)
         IN  IF l[p] = "array" THEN Put(l, e.next, at + e.size, put)
             ELSE Put(l, e.next, here + e.size, Append(put, [at |-> here, size |-> e.size]))
_udi_marshal_params(l) == Put(l, 1, 0, <<>>)
-----------------------------------------------------------------------------
(* A layout and its structure.                                                 *)
Texts(c) == IF c = "buf" THEN {<<"buf">> \o args : args \in Arguments} ELSE {<<c>>}
Member(s, a, c, z) == [size |-> s, align |-> a, code |-> c, zero |-> z]
HasZero(text) == "end" \in Range(text)

Init == layout = <<>> /\ members = <<>>

Next ==
    /\ Len(members) < MaxMembers
    /\ \/ \E c \in Codes : \E text \in Texts(c) :
            /\ layout' = layout \o text
            /\ members' = Append(members, Member(SizeOf[c], SizeOf[c], c, FALSE))
       \/ \E c \in Nested, in \in Codes \ {"cb"} : \E text \in Texts(in) :
            /\ layout' = layout \o <<c>> \o text \o <<"end">>
            /\ members' = Append(members, Member(4, 4, c, HasZero(text)))
       \/ \E n \in Counts, in \in Codes \ {"cb"} : \E text \in Texts(in) :
            /\ layout' = layout \o <<"array", n>> \o text \o <<"end">>
            /\ members' = Append(members, Member(Number[n] * SizeOf[in], SizeOf[in], "array",
                                                 HasZero(text)))
    /\ Cardinality({k \in DOMAIN members' : members'[k].code = "cb"}) <= 1
Spec == Init /\ [][Next]_vars
-----------------------------------------------------------------------------
Whole == Append(layout, "end")
\* Where the compiler puts member k, and where the structure's last one ends.
Up(x, a) == ((x + a - 1) \div a) * a
Offset[k \in 1 .. MaxMembers] ==
    IF k = 1 THEN 0 ELSE Up(Offset[k - 1] + members[k - 1].size, members[k].align)
End(k) == IF k = 0 THEN 0 ELSE Offset[k] + members[k].size
With(codes) == {k \in DOMAIN members : members[k].code \in codes}
\* An array is aligned to the whole of its size, by a mask that is none if that is
\* no power of two.
Aligned(ms) == \A k \in DOMAIN ms : ms[k].code # "array"
\* A nested layout is passed over to its end: no byte in it is 0.  Else every scan goes
\* on inside it, and ends there.
PassedOver(ms) == \A k \in DOMAIN ms : ~ms[k].zero
Plain(ms) == Aligned(ms) /\ PassedOver(ms)

\* The room set aside for a structure is what it takes.
SizeIsRight == Plain(members) => _udi_get_layout_size(Whole) = End(Len(members))

\* The offsets of the chain and of the inline memory are those of the members.
OffsetsAreRight == Plain(members) =>
    /\ chain_offset(Whole) = IF With({"cb"}) = {} THEN NotFound ELSE Offset[Max(With({"cb"}))]
    /\ inline_offset(Whole) = IF With({"inline", "inline_typed"}) = {} THEN NotFound
                              ELSE Offset[Max(With({"inline", "inline_typed"}))]

\* The search for a buffer or a control block ends at the first, never inside
\* another member, but for the room before it.
SearchIsRight == \A key \in {"buf", "cb"} :
    LET before == IF With({key}) = {} THEN members ELSE SubSeq(members, 1, Min(With({key})) - 1)
        at == _udi_get_layout_offset(Whole, key)
    IN  Plain(before) => IF With({key}) = {} THEN at = NotFound
                         ELSE at = End(Len(before)) /\ Up(at, 4) = Offset[Min(With({key}))]

\* Parameters are put into the room set aside for them, apart from each other.
ParametersFit ==
    LET put == _udi_marshal_params(Whole) IN
    /\ \A i \in DOMAIN put : put[i].at + put[i].size <= _udi_get_layout_size(Whole)
    /\ \A i, j \in DOMAIN put : i < j => put[i].at + put[i].size <= put[j].at

LayoutsAreRead == SizeIsRight /\ OffsetsAreRight /\ SearchIsRight /\ ParametersFit
=============================================================================
