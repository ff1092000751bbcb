--------------------------- MODULE SequentialSpec ---------------------------
(***************************************************************************)
(* The reference objects of crates/consistency_model: a register           *)
(* (register.rs) and a vector used as a stack (vec.rs), as implementations *)
(* of the SequentialSpec trait (lib.rs).                                   *)
(***************************************************************************)
EXTENDS Integers, Sequences

Register(value) == [type |-> "Register", value |-> value]
Vec(elements)   == [type |-> "Vec", elements |-> elements]

Write(value) == [type |-> "Write", value |-> value]
Read         == [type |-> "Read"]
Push(value)  == [type |-> "Push", value |-> value]
Pop          == [type |-> "Pop"]
Len_         == [type |-> "Len"]

WriteOk      == [type |-> "WriteOk"]
ReadOk(value) == [type |-> "ReadOk", value |-> value]
PushOk       == [type |-> "PushOk"]
PopOk(option) == [type |-> "PopOk", option |-> option]  \* a set of at most one value
LenOk(len)   == [type |-> "LenOk", len |-> len]

IsOp(op) == op.type \in {"Write", "Read", "Push", "Pop", "Len"}

\* There is one value of each kind that has no fields.
IsRet(ret) == (ret.type = "WriteOk" => ret = WriteOk) /\ (ret.type = "PushOk" => ret = PushOk)

-----------------------------------------------------------------------------

Last(elements) == elements[Len(elements)]

Popped(elements) ==
    IF elements = << >> THEN << >> ELSE SubSeq(elements, 1, Len(elements) - 1)

\* invoke: the object after the operation, ...
After(ref_obj, op) ==
    CASE op.type = "Write" -> [ref_obj EXCEPT !.value = op.value]
      [] op.type = "Push"  -> [ref_obj EXCEPT !.elements = Append(@, op.value)]
      [] op.type = "Pop"   -> [ref_obj EXCEPT !.elements = Popped(@)]
      [] OTHER             -> ref_obj

\* ... and what it returns.
Ret(ref_obj, op) ==
    CASE op.type = "Write" -> WriteOk
      [] op.type = "Read"  -> ReadOk(ref_obj.value)
      [] op.type = "Push"  -> PushOk
      [] op.type = "Pop"   -> PopOk(IF ref_obj.elements = << >> THEN {}
                                    ELSE {Last(ref_obj.elements)})
      [] op.type = "Len"   -> LenOk(Len(ref_obj.elements))

\* is_valid_step, the two overrides: whether ret may be the operation's answer.
IsValidStep(ref_obj, op, ret) ==
    \/ op.type = "Write" /\ ret.type = "WriteOk"
    \/ op.type = "Read" /\ ret = ReadOk(ref_obj.value)
    \/ op.type = "Push" /\ ret.type = "PushOk"
    \/ op.type = "Pop" /\ ret = Ret(ref_obj, op)
    \/ op.type = "Len" /\ ret = LenOk(Len(ref_obj.elements))

=============================================================================
