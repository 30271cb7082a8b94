------------------------------ MODULE Verifier ------------------------------
(***************************************************************************)
(* A verifier of the bytecode, and what it promises about the machine that *)
(* runs it.  The places of some code are the triples                       *)
(*   <<chunk, pc, depth>>                                                  *)
(* of an instruction and the operands its frame holds when it is reached.  *)
(* The VM checks none of this: it pops, indexes and jumps as the emitter   *)
(* has told it to.                                                         *)
(***************************************************************************)
EXTENDS VM

\* How many operands an instruction takes, and how many it leaves instead.
Takes(i) ==
  CASE i.op \in {"Const", "LoadLocal", "Jump", "ReturnNull"} -> 0
    [] i.op = "SetIndex" -> 3
    [] i.op \in {"Add", "Sub", "Mul", "Div", "Mod", "Eq", "Ne", "Lt", "Le", "Gt", "Ge", "GetIndex", "SetMember"}
         \cup DOMAIN GenericOf -> 2
    [] i.op = "MakeList" -> i.arg
    [] i.op = "MakeDict" -> 2 * i.arg
    [] i.op = "CallMethod" -> i.arg[2] + 1
    [] i.op \in {"CallNative", "CallAsync", "CallFunction"} -> i.arg[2]
    [] OTHER -> 1
Leaves(i) == IF i.op \in {"StoreLocal", "Pop", "Jump", "JumpIfFalse", "JumpIfFalsePeek", "JumpIfTruePeek",
                          "Return", "ReturnNull"} THEN 0 ELSE 1

\* Where the code of a chunk may go on from p, when nothing fails and when
\* something does.
Peeks == {"JumpIfFalsePeek", "JumpIfTruePeek"}
After(chunk, p) ==         \* p = <<pc, depth>>
  LET i == chunk.code[p[1]]
      left == p[2] - Takes(i) + Leaves(i)
      next == IF i.op \in {"Return", "ReturnNull", "Jump"} THEN {} ELSE {<<p[1] + 1, left>>}
      jump == CASE i.op \in {"Jump", "JumpIfFalse"} -> {<<i.arg, left>>}
                [] i.op \in Peeks -> {<<i.arg, p[2]>>}
                [] OTHER -> {}
      caught == {<<t.catch, 1>> : t \in Covering(chunk, p[1])}
  IN next \cup jump \cup caught

\* An instruction finds the operands it takes, the variables it names and
\* the function it calls.
Finds(chunks, c, pc, depth) ==
  LET i == chunks[c].code[pc]
  IN /\ Takes(i) \in 0..depth
     /\ i.op \in {"LoadLocal", "StoreLocal"} => i.arg \in 1..chunks[c].num
     /\ i.op = "CallFunction" => i.arg[1] \in DOMAIN chunks /\ i.arg[2] <= chunks[i.arg[1]].num

\* Every chunk can be entered, every place has its instruction and leads to
\* places again, and none is reached with two depths.
Verified(chunks, places) ==
  /\ \A c \in DOMAIN chunks :
       /\ chunks[c].num \in Nat /\ Len(chunks[c].code) \in Nat
       /\ \A t \in Range(chunks[c].tries) : t.begin \in Nat /\ t.end \in Nat
       /\ <<c, 1, 0>> \in places
  /\ \A p \in places :
       /\ p = <<p[1], p[2], p[3]>>
       /\ p[1] \in DOMAIN chunks /\ p[2] \in 1..Len(chunks[p[1]].code) /\ p[3] \in Nat
       /\ Finds(chunks, p[1], p[2], p[3])
       /\ \A q \in After(chunks[p[1]], <<p[2], p[3]>>) : <<p[1], q[1], q[2]>> \in places
  /\ \A p, q \in places : p[1] = q[1] /\ p[2] = q[2] => p = q

\* Only the jump that is counted goes back; the conditional ones go forward.
OnlyJumpsGoBack(chunks) ==
  \A c \in DOMAIN chunks : \A pc \in 1..Len(chunks[c].code) :
    chunks[c].code[pc].op \in {"JumpIfFalse"} \cup Peeks => chunks[c].code[pc].arg > pc

-----------------------------------------------------------------------------
\* A machine that runs is at a place of its code: its top frame holds the
\* operands and the variables that the code counts on there.
Placed(chunks, places, m) ==
  LET f == Last(m.frames)
  IN /\ <<f.chunk, f.pc, Len(m.stack) - f.sbase>> \in places
     /\ Len(m.locals) = f.lbase + chunks[f.chunk].num

\* What has to hold below the top frame for that to last: the frames lie one
\* above the other, and every one that has called another is behind its call,
\* at the place where one more operand, the result, is what the code expects.
IsSeq(s) == s \in Seq(Range(s))
Frame(chunks) == [chunk : DOMAIN chunks, pc : Nat, lbase : Nat, sbase : Nat]
Called(chunks, places, f, g) ==
  /\ g.lbase = f.lbase + chunks[f.chunk].num
  /\ <<f.chunk, f.pc, g.sbase - f.sbase + 1>> \in places
  /\ \E p \in places : p[1] = f.chunk /\ p[2] = f.pc - 1
Framed(chunks, places, frames, stack, locals) ==
  /\ IsSeq(stack) /\ IsSeq(locals)
  /\ frames \in Seq(Frame(chunks)) /\ frames # <<>>
  /\ \A k \in 1..Len(frames) - 1 : Called(chunks, places, frames[k], frames[k + 1])
  /\ \A j, k \in 1..Len(frames) : j <= k => frames[j].sbase <= frames[k].sbase /\ frames[j].lbase <= frames[k].lbase
  /\ Last(frames).sbase <= Len(stack)
  /\ Len(locals) = Last(frames).lbase + chunks[Last(frames).chunk].num

\* A machine between two instructions, suspended or stopped.
Registers == {"frames", "stack", "locals", "steps", "status", "value"}
Laid(chunks, places, m) ==
  LET f == Last(m.frames)
  IN /\ Registers \subseteq DOMAIN m /\ m.status \in {"run", "await", "done", "error"}
     /\ m.status \in {"run", "await"} => Framed(chunks, places, m.frames, m.stack, m.locals)
     /\ m.status = "run"   => <<f.chunk, f.pc, Len(m.stack) - f.sbase>> \in places
     /\ m.status = "await" => <<f.chunk, f.pc, Len(m.stack) - f.sbase + 1>> \in places
     /\ m.status \notin {"run", "await"} => m.frames = <<>>
=============================================================================
