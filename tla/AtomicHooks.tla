------------------------------ MODULE AtomicHooks ------------------------------
(***************************************************************************)
(* The atomic instructions of ARMv8.1 that the runner carries out itself,  *)
(* from hooks on the addresses where the text section has one.             *)
(*                                                                         *)
(* A register holds Wide bits, a 64 bit value; Narrow bits are a 32 bit    *)
(* value and Narrow \div 2 bits a smaller one.  Memory is a row of bits,   *)
(* least significant first, from address 0.  Register 31 is the stack      *)
(* pointer as a base and zero as a value.                                  *)
(***************************************************************************)
EXTENDS Integers, Sequences, FiniteSets, Functions, Bitwise

CONSTANTS Narrow,
          Instructions, \* [family, opc, size, rs, rn, rt]
          Values,       \* what registers hold that are not a base
          Base,         \* the address the base register holds
          Cells,        \* bits of memory
          ReadOnly      \* those that cannot be written

ASSUME AtomicAssumption ==
  /\ Narrow \in Nat \ {0} /\ Cells \in Nat \ {0} /\ Base \in Nat /\ ReadOnly \subseteq 0..(Cells - 1)

VARIABLES instr, regs, bits, pc
atomicvars == <<instr, regs, bits, pc>>

Wide == 2 * Narrow
ZR == 31
Number(row) == FoldFunction(+, 0, [k \in DOMAIN row |-> row[k] * 2^(k - 1)])
BitsOf(value, n) == [k \in 1..n |-> (value \div 2^(k - 1)) % 2]
Signed(value, n) == IF value >= 2^(n - 1) THEN value - 2^n ELSE value

\* The masks of decode.rs look at bit 31, the upper bit of the size, for cas only: the
\* others are taken whatever their size.  Bit 30 decides between 64 and 32 bits, so a
\* byte is taken for 32 bits and two bytes for 64.
IsHooked(i) == i.family = "cas" => i.size \in {"word", "double"}
\* Mutant: every instruction is taken for one of 64 bits.
WidthWide(i) == Wide
Width(i) == IF i.size \in {"half", "double"} THEN Wide ELSE Narrow

Gpr(r, n) == IF r = ZR THEN 0 ELSE regs[r] % 2^n
Updated(r, value, n) == IF r = ZR THEN regs ELSE [regs EXCEPT ![r] = value % 2^n]
MaxOf(a, b) == IF a < b THEN b ELSE a
MinOf(a, b) == IF a < b THEN a ELSE b
AtomicOp(opc, a, b, n) ==
  CASE opc = "clr" -> a - (a & b)
    [] opc = "eor" -> a ^^ b
    [] opc = "set" -> a | b
    [] opc = "smax" -> IF Signed(a, n) > Signed(b, n) THEN a ELSE b
    [] opc = "smin" -> IF Signed(b, n) < Signed(a, n) THEN b ELSE a
    [] opc = "umax" -> MaxOf(a, b)
    [] opc = "umin" -> MinOf(a, b)
\* write_memory fails as a whole and its result is ignored.
Write(at, value, n) ==
  IF (at..(at + n - 1)) \cap ReadOnly # {} THEN bits
  ELSE [k \in DOMAIN bits |-> IF k - 1 \in at..(at + n - 1) THEN BitsOf(value, n)[k - at] ELSE bits[k]]

AtomicInit ==
  /\ instr \in Instructions
  /\ \E a, b \in Values :
       regs = [r \in {0, 1, 2, ZR} |-> IF r = 0 THEN a ELSE IF r = 1 THEN b ELSE Base]
  /\ bits \in [1..Cells -> 0..1] /\ pc = 0

At(i) == regs[i.rn]
Loaded(i) == Number(SubSeq(bits, At(i) + 1, At(i) + Width(i)))
\* Nothing happens where memory cannot be read: the instruction is left to the CPU,
\* which faults.
Hook(families) ==
  /\ pc = 0 /\ instr.family \in families /\ IsHooked(instr) /\ At(instr) + Width(instr) <= Cells
  /\ pc' = 1 /\ UNCHANGED instr
\* A read-modify-write: memory gets the new value, rt the old one.
Exchange(i, new) ==
  bits' = Write(At(i), new, Width(i)) /\ regs' = Updated(i.rt, Loaded(i), Width(i))
Cas ==
  LET i == instr
  IN /\ Hook({"cas"}) /\ regs' = Updated(i.rs, Loaded(i), Width(i))
     /\ bits' = IF Loaded(i) = Gpr(i.rs, Width(i)) THEN Write(At(i), Gpr(i.rt, Width(i)), Width(i)) ELSE bits
Swp == Hook({"swp"}) /\ Exchange(instr, Gpr(instr.rs, Width(instr)))
LdAdd ==
  LET i == instr
  IN /\ Hook({"op"}) /\ i.opc = "add"
     /\ Exchange(i, (Loaded(i) + Gpr(i.rs, Width(i))) % 2^Width(i))
LdOp ==
  LET i == instr
  IN /\ Hook({"op"}) /\ i.opc # "add"
     /\ Exchange(i, AtomicOp(i.opc, Loaded(i), Gpr(i.rs, Width(i)), Width(i)))
Ldapr == Hook({"ldapr"}) /\ regs' = Updated(instr.rt, Loaded(instr), Width(instr)) /\ UNCHANGED bits
AtomicNext == Cas \/ Swp \/ LdAdd \/ LdOp \/ Ldapr

-------------------------------------------------------------------------------
(***************************************************************************)
(* The instructions as the architecture defines them, bit by bit.          *)
(***************************************************************************)
SizeOf(i) == CASE i.size = "double" -> Wide [] i.size = "word" -> Narrow [] OTHER -> Narrow \div 2
Bit(i, k) == bits[regs[i.rn] + k]
InReg(r, k) == IF r = ZR THEN 0 ELSE (regs[r] \div 2^(k - 1)) % 2
\* From the highest bit down: the first difference decides, the other way round for the
\* sign.
Below(i, signed) ==
  \E k \in 1..SizeOf(i) :
    /\ \A j \in (k + 1)..SizeOf(i) : Bit(i, j) = InReg(i.rs, j)
    /\ IF signed /\ k = SizeOf(i) THEN Bit(i, k) > InReg(i.rs, k) ELSE Bit(i, k) < InReg(i.rs, k)
\* The carry into a bit of the sum.
Carry(i, k) ==
  \E j \in 1..(k - 1) : /\ Bit(i, j) = 1 /\ InReg(i.rs, j) = 1
                        /\ \A m \in (j + 1)..(k - 1) : Bit(i, m) = 1 \/ InReg(i.rs, m) = 1
Result(i, k) ==
  LET a == Bit(i, k)
      b == InReg(i.rs, k)
      kept(keep) == IF keep THEN a ELSE b
  IN CASE i.family = "ldapr" -> a
       [] i.family = "swp" -> b
       [] i.family = "cas" -> IF \A j \in 1..SizeOf(i) : Bit(i, j) = InReg(i.rs, j) THEN InReg(i.rt, k) ELSE a
       [] i.opc = "add" -> (a + b + IF Carry(i, k) THEN 1 ELSE 0) % 2
       [] i.opc = "clr" -> IF b = 1 THEN 0 ELSE a
       [] i.opc = "eor" -> IF a = b THEN 0 ELSE 1
       [] i.opc = "set" -> IF b = 1 THEN 1 ELSE a
       [] i.opc = "smax" -> kept(~Below(i, TRUE))
       [] i.opc = "smin" -> kept(Below(i, TRUE))
       [] i.opc = "umax" -> kept(~Below(i, FALSE))
       [] i.opc = "umin" -> kept(Below(i, FALSE))
Answers(i) == IF i.family = "cas" THEN i.rs ELSE i.rt
Span(i) == (regs[i.rn] + 1)..(regs[i.rn] + SizeOf(i))

\* An atomic instruction of 32 or 64 bits leaves in memory and in its register, zeroes
\* above, what the architecture says, whichever registers coincide; it changes nothing
\* else.  Instructions of 8 and 16 bits are excepted, and pages that cannot be written.
AtomicsExact ==
  [][LET i == instr
     IN pc = 0 /\ i.size \in {"word", "double"} /\ {k - 1 : k \in Span(i)} \cap ReadOnly = {} =>
          /\ bits' = [k \in DOMAIN bits |-> IF k \in Span(i) THEN Result(i, k - regs[i.rn]) ELSE bits[k]]
          /\ \A r \in DOMAIN regs :
               regs'[r] = IF r = Answers(i) /\ r # ZR THEN Number([k \in 1..SizeOf(i) |-> Bit(i, k)])
                          ELSE regs[r]]_atomicvars
===============================================================================
