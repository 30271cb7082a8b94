--------------------------------- MODULE VM ---------------------------------
(***************************************************************************)
(* The virtual machine of vm.cpp, one instruction at a time.  A machine is *)
(*   frames   the calls in progress, [chunk, pc, lbase, sbase],            *)
(*   stack    the operands and locals the slots of every frame,            *)
(*   steps    backward jumps since it last started running,                *)
(*   status   "run", "await", "done" or "error",                           *)
(*   value    the result, the message of the error, or what it waits for,  *)
(*   w        the world its builtins act on (Natives).                     *)
(* Chunks are numbered in the order of the table they are given in.        *)
(***************************************************************************)
EXTENDS Natives, SequencesExt

CONSTANTS StepLimit,    \* kStepLimit
          MaxFrames     \* kMaxFrames

ASSUME LimitsAssumption == StepLimit \in Nat \ {0} /\ MaxFrames \in Nat \ {0}

Idle == [frames |-> <<>>, stack |-> <<>>, locals |-> <<>>, steps |-> 0, status |-> "done",
         value |-> Null]

Nulls(n) == [i \in 1..n |-> Null]

\* start(): the machine is emptied of whatever it held before.
StartVM(chunks, id, params) ==
  [frames |-> <<[chunk |-> id, pc |-> 1, lbase |-> 0, sbase |-> 0]>>, stack |-> <<>>,
   locals |-> [i \in 1..chunks[id].num |-> IF i \in DOMAIN params THEN params[i] ELSE Null],
   steps |-> 0, status |-> "run", value |-> Null]

\* resume(): the awaited value takes the place of the await expression.
\* A machine without frames has nothing left to run.
ResumeVM(m, v) == [m EXCEPT !.stack = Append(@, v), !.steps = 0, !.value = Null,
                            !.status = IF m.frames = <<>> THEN "done" ELSE "run"]

-----------------------------------------------------------------------------
Push(m, v)    == [m EXCEPT !.stack = Append(@, v)]
Operand(m, k) == m.stack[Len(m.stack) - k]                 \* k below the top
Operands(m, n) == SubSeq(m.stack, Len(m.stack) - n + 1, Len(m.stack))
Drop(m, n)    == [m EXCEPT !.stack = SubSeq(@, 1, Len(@) - n)]
Goto(m, pc)   == [m EXCEPT !.frames[Len(m.frames)].pc = pc]
ResizeTo(s, n) == SubSeq(s, 1, n)

\* Mutant: the variables of the frame stay behind.
LeaveLocals(m, v) ==
  LET f == Last(m.frames)  rest == Front(m.frames)
  IN IF rest = <<>> THEN [m EXCEPT !.frames = rest, !.status = "done", !.value = v]
     ELSE [m EXCEPT !.frames = rest, !.stack = Append(ResizeTo(@, f.sbase), v)]

\* Leaves the top frame; the caller gets `v`, or the machine is done with it.
Leave(m, v) ==
  LET f == Last(m.frames)  rest == Front(m.frames)
  IN IF rest = <<>> THEN [m EXCEPT !.frames = rest, !.status = "done", !.value = v]
     ELSE [m EXCEPT !.frames = rest, !.stack = Append(ResizeTo(@, f.sbase), v),
                    !.locals = ResizeTo(@, f.lbase)]

\* find_handler(): among the ranges around `pc`, the smallest.
Covering(chunk, pc) == {r \in Range(chunk.tries) : r.begin <= pc /\ pc < r.end}
FindHandler(chunk, pc) ==
  CHOOSE r \in Covering(chunk, pc) : \A s \in Covering(chunk, pc) : r.end - r.begin <= s.end - s.begin

\* execute(): an error goes to the innermost frame that has a catch around
\* the instruction that failed or made the call; the frames above it and its
\* own operands go, the error is pushed, and the machine runs on with its
\* counter of steps at zero.  Without one, everything goes.
Catching(chunks, m) == {k \in DOMAIN m.frames : Covering(chunks[m.frames[k].chunk], m.frames[k].pc - 1) # {}}
Unwind(m, k) == [m EXCEPT !.frames = SubSeq(@, 1, k),
                          !.locals = IF k < Len(m.frames) THEN ResizeTo(@, m.frames[k + 1].lbase) ELSE @]
Catch(chunks, m, k, message) ==
  LET f   == m.frames[k]
      err == Alloc(m.w, << <<"message", Str(message)>> >>, "Dict")
  IN Goto([Unwind(m, k) EXCEPT !.stack = Append(ResizeTo(@, f.sbase), err.v), !.w = err.w, !.steps = 0],
          FindHandler(chunks[f.chunk], f.pc - 1).catch)
Raise(chunks, m, message) ==
  IF Catching(chunks, m) = {}
  THEN [m EXCEPT !.frames = <<>>, !.stack = <<>>, !.locals = <<>>, !.status = "error", !.value = message]
  ELSE Catch(chunks, m, Max(Catching(chunks, m)), message)

\* What replaces the top `n` operands, unless it is an error.
Result(chunks, m, n, v) == IF IsA(v, "error") THEN Raise(chunks, m, v[2]) ELSE Push(Drop(m, n), v)
Outcome(chunks, m, n, call) == Result(chunks, [m EXCEPT !.w = call.w], n, call.v)

-----------------------------------------------------------------------------
(***************************************************************************)
(* Instructions.                                                           *)
(***************************************************************************)
\* '+' asks for two numbers, two strings or two lists.
AddValues(w, a, b) ==
  CASE IsA(a, "string") /\ IsA(b, "string") -> Gives(w, Str(a[2] \o b[2]))
    [] IsNum(a) /\ IsNum(b)                 -> Gives(w, Arith("+", a, b))
    [] IsA(a, "List") /\ IsA(b, "List")     -> Alloc(w, w.heap[a[2]] \o w.heap[b[2]], "List")
    [] OTHER                                -> Fails(w, "+")

SignOf == [op \in {"Sub", "Mul", "Div", "Mod", "Lt", "Le", "Gt", "Ge"} |->
             CASE op = "Sub" -> "-" [] op = "Mul" -> "*" [] op = "Div" -> "/" [] op = "Mod" -> "%"
               [] op = "Lt" -> "<" [] op = "Le" -> "<=" [] op = "Gt" -> ">" [] OTHER -> ">="]

Generic(w, op, a, b) ==
  CASE op = "Add" -> AddValues(w, a, b)
    [] op \in {"Sub", "Mul", "Div", "Mod"} -> Gives(w, Arith(SignOf[op], a, b))
    [] op = "Eq"  -> Gives(w, Boolean(Equals(w.heap, a, b)))
    [] op = "Ne"  -> Gives(w, Boolean(~Equals(w.heap, a, b)))
    [] OTHER      -> Gives(w, Compare(SignOf[op], a, b))

\* The instructions for two ints look at the loads alone, behind a guard.
GenericOf == [op \in {"AddInt", "SubInt", "MulInt", "LtInt", "LeInt", "GtInt", "GeInt"} |->
                CASE op = "AddInt" -> "Add" [] op = "SubInt" -> "Sub" [] op = "MulInt" -> "Mul"
                  [] op = "LtInt" -> "Lt" [] op = "LeInt" -> "Le" [] op = "GtInt" -> "Gt" [] OTHER -> "Ge"]
OnInts(op, x, y) ==
  CASE op = "AddInt" -> Integer(x + y) [] op = "SubInt" -> Integer(x - y)
    [] op = "MulInt" -> Integer(x * y) [] op = "LtInt" -> Boolean(x < y)
    [] op = "LeInt"  -> Boolean(x <= y) [] op = "GtInt" -> Boolean(x > y) [] OTHER -> Boolean(x >= y)
Special(w, op, a, b) ==
  IF IsA(a, "int") /\ IsA(b, "int") THEN Gives(w, OnInts(op, a[2], b[2]))
  ELSE Generic(w, GenericOf[op], a, b)

Negate(v) == CASE IsA(v, "int")   -> Integer(-v[2])
               [] IsA(v, "float") -> Real(<<-v[2][1], v[2][2]>>)
               [] OTHER           -> Error("negate")

InRange(box, i) == 0 <= i /\ i < Len(box)

GetIndex(w, obj, idx) ==
  LET box == w.heap[obj[2]]
  IN CASE IsA(obj, "List") -> IF IsA(idx, "int") /\ InRange(box, idx[2]) THEN box[idx[2] + 1]
                              ELSE Error("index")
       [] IsA(obj, "Dict") -> IF IsA(idx, "string") THEN Find(box, idx[2]) ELSE Error("index")
       [] OTHER -> Error("index")

SetIndex(w, obj, idx, v) ==
  LET box == w.heap[obj[2]]
  IN IF IsA(GetIndex(w, obj, idx), "error") THEN Fails(w, "index")
     ELSE Gives([w EXCEPT !.heap[obj[2]] = IF IsA(obj, "List") THEN [@ EXCEPT ![idx[2] + 1] = v]
                                           ELSE Put(@, idx[2], v)], v)

\* A list is walked as it is, a Dict by a new list of its keys.
IterList(w, v) ==
  CASE IsA(v, "List") -> Gives(w, v)
    [] IsA(v, "Dict") -> Alloc(w, [i \in DOMAIN w.heap[v[2]] |-> Str(w.heap[v[2]][i][1])], "List")
    [] OTHER          -> Fails(w, "iterate")

\* Keys and values lie in pairs; a repeated key keeps its first place.
MakeDict(w, pairs) ==
  LET n == Len(pairs) \div 2
      box == FoldLeft(LAMBDA d, i : Put(d, pairs[2 * i - 1][2], pairs[2 * i]), <<>>, [i \in 1..n |-> i])
  IN IF \E i \in 1..n : ~IsA(pairs[2 * i - 1], "string") THEN Fails(w, "key")
     ELSE Alloc(w, box, "Dict")

CallFunction(chunks, m, id, argc) ==
  LET lbase == Len(m.locals)
      extra == chunks[id].num - argc
  IN IF Len(m.frames) >= MaxFrames THEN Raise(chunks, m, "recursion")
     ELSE [Drop(m, argc) EXCEPT
             !.locals = @ \o Operands(m, argc) \o Nulls(extra),
             !.frames = Append(@, [chunk |-> id, pc |-> 1, lbase |-> lbase,
                                   sbase |-> Len(m.stack) - argc])]

\* Mutant: only a jump to itself counts.
JumpForFree(chunks, m, pc, target) ==
  LET steps == m.steps + (IF target = pc THEN 1 ELSE 0)
  IN IF steps > StepLimit THEN Raise(chunks, m, "steps") ELSE Goto([m EXCEPT !.steps = steps], target)

\* A backward jump is a step; the forward ones are free.
JumpTo(chunks, m, pc, target) ==
  LET steps == m.steps + (IF target <= pc + 1 THEN 1 ELSE 0)
  IN IF steps > StepLimit THEN Raise(chunks, m, "steps") ELSE Goto([m EXCEPT !.steps = steps], target)

\* The switch of run_until_error(): what instruction `in` of the frame `f` does
\* to a machine that is past it already.
Perform(chunks, f, in, m) ==
  LET op   == in.op
      arg  == in.arg
      top  == Operand(m, 0)
      next == Operand(m, 1)
      true == Truthy(m.w.heap, top)
      slot == f.lbase + arg
  IN CASE op = "Const"      -> Push(m, arg)
       [] op = "LoadLocal"  -> Push(m, m.locals[slot])
       [] op = "StoreLocal" -> [Drop(m, 1) EXCEPT !.locals[slot] = top]
       [] op = "Pop"        -> Drop(m, 1)
       [] op \in {"Add", "Sub", "Mul", "Div", "Mod", "Eq", "Ne", "Lt", "Le", "Gt", "Ge"} ->
            Outcome(chunks, m, 2, Generic(m.w, op, next, top))
       [] op \in DOMAIN GenericOf -> Outcome(chunks, m, 2, Special(m.w, op, next, top))
       [] op = "Neg"        -> Result(chunks, m, 1, Negate(top))
       [] op = "Not"        -> Push(Drop(m, 1), Boolean(~true))
       [] op = "Jump"       -> JumpTo(chunks, m, f.pc, arg)
       [] op = "JumpIfFalse"     -> Drop(IF true THEN m ELSE Goto(m, arg), 1)
       [] op = "JumpIfFalsePeek" -> IF true THEN Drop(m, 1) ELSE Goto(m, arg)
       [] op = "JumpIfTruePeek"  -> IF true THEN Goto(m, arg) ELSE Drop(m, 1)
       [] op = "MakeList"   -> Outcome(chunks, m, arg, Alloc(m.w, Operands(m, arg), "List"))
       [] op = "MakeDict"   -> Outcome(chunks, m, 2 * arg, MakeDict(m.w, Operands(m, 2 * arg)))
       [] op = "GetIndex"   -> Result(chunks, m, 2, GetIndex(m.w, next, top))
       [] op = "SetIndex"   -> Outcome(chunks, m, 3, SetIndex(m.w, Operand(m, 2), next, top))
       [] op = "IterList"   -> Outcome(chunks, m, 1, IterList(m.w, top))
       [] op = "GetMember"  -> Result(chunks, m, 1, IF IsA(top, "Dict") THEN Find(m.w.heap[top[2]], arg)
                                                    ELSE Error("member"))
       [] op = "SetMember"  -> Outcome(chunks, m, 2, IF IsA(next, "Dict")
                                                     THEN SetIndex(m.w, next, Str(arg), top)
                                                     ELSE Fails(m.w, "member"))
       [] op = "CallMethod" -> Outcome(chunks, m, arg[2] + 1,
                                 CallMethod(m.w, Operand(m, arg[2]), arg[1], Operands(m, arg[2])))
       [] op = "CallNative" -> Outcome(chunks, m, arg[2], CallNative(m.w, arg[1], Operands(m, arg[2])))
       [] op = "CallAsync"  -> [Drop(m, arg[2]) EXCEPT !.status = "await",
                                                       !.value = <<arg[1], Operands(m, arg[2])>>]
       [] op = "CallFunction" -> CallFunction(chunks, m, arg[1], arg[2])
       [] op = "Return"     -> Leave(m, top)
       [] OTHER             -> Leave(m, Null)

\* run_until_error(), one turn of its loop.
Step(chunks, m) ==
  LET f    == Last(m.frames)
      code == chunks[f.chunk].code
  IN IF f.pc > Len(code) THEN Leave(m, Null) ELSE Perform(chunks, f, code[f.pc], Goto(m, f.pc + 1))
=============================================================================
