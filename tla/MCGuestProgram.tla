---------------------------- MODULE MCGuestProgram ----------------------------
(***************************************************************************)
(* A guest program for TLC, one part at a time: its file, parsed and       *)
(* loaded; the images it is linked from and what dlsym finds in them; its  *)
(* processes; its atomic instructions.  An executable names two imports in *)
(* a table of symbol pointers and has a chain of up to two pointers in its *)
(* data; two libraries export some of the names, one under a suffix and    *)
(* one twice.                                                              *)
(***************************************************************************)
EXTENDS MCGuestProcesses, ImageLoading, AtomicHooks, MCMachoLoading

VARIABLE part           \* the part that is explored

programvars == <<pvars, loadvars, atomicvars, machovars, part>>

Name(letter) == [letter |-> letter, under |-> 1, alt |-> FALSE]
Suffixed(letter) == [Name(letter) EXCEPT !.alt = TRUE]
Plain(letter) == [Name(letter) EXCEPT !.under = 0]
MCHooked == {Name("h"), TlvBootstrap}
MCProxied == {Plain("p")}
MCDispatched == {Plain("a")}
MCDataNames == {Plain("d")}
MCDlNames == {Plain("f"), Name("h"), Plain("a"), Plain("x")}

Pointer(n) == [place |-> "pointers", name |-> n, value |-> Done]
Thunk == [Pointer(TlvBootstrap) EXCEPT !.place = "thunks"]
Bind(k, gap) == [place |-> "data", name |-> Local,
                 value |-> [kind |-> "bind", import |-> k, next |-> gap, stride |-> "short"]]
Rebase(target, gap, stride) ==
  [place |-> "data", name |-> Local,
   value |-> [kind |-> "rebase", target |-> target, next |-> gap, stride |-> stride]]
Image(base, size, imports, chained, defined, format, starts, data) ==
  [base |-> base, size |-> size, undefs |-> imports, chained |-> chained, defined |-> defined,
   format |-> format, starts |-> starts, slots |-> data, inits |-> 1, terms |-> 1]

MCMains ==
  {Image(4, 3, <<m, n>>, <<c>>, {Name("m")}, chain.format, <<1>>,
         <<Bind(1, chain.gap), Rebase(2, 2 - chain.gap, "short"), Bind(1, 0),
           Pointer(m), Pointer(n), Pointer(Local), Thunk>>) :
     m \in {Name("f"), Suffixed("f"), Name("h")}, n \in {Name("d"), Name("p"), Name("g")},
     c \in {Name("g"), Suffixed("f"), Name("d"), Name("m")},
     chain \in {[format |-> "offsets", gap |-> 1], [format |-> "offsets", gap |-> 2],
                [format |-> "addresses", gap |-> 1]}}
MCLibraries ==
  {Image(0, 2, <<Name("g")>>, <<Name("f")>>, {Name("f"), Name("h")}, "offsets", <<1>>,
         <<Bind(1, 1), Rebase(1, 0, "short"), Pointer(Name("g"))>>),
   Image(0, 5, <<>>, <<>>, {Name("f"), Suffixed("f"), Name("g")}, "none", <<>>, <<Pointer(Local)>>),
   Image(0, 1, <<Name("p")>>, <<>>, {Suffixed("g"), Name("p")}, "none", <<>>, <<Pointer(Name("p"))>>)}

MCInstructions ==
  {[family |-> f, opc |-> o, size |-> s, rs |-> r.rs, rn |-> r.rn, rt |-> r.rt] :
     f \in {"cas", "swp", "op", "ldapr"}, s \in {"byte", "half", "word", "double"},
     o \in {"add", "clr", "eor", "set", "smax", "smin", "umax", "umin"},
     r \in {[rs |-> 0, rn |-> 2, rt |-> 1], [rs |-> 0, rn |-> 2, rt |-> 0], [rs |-> 2, rn |-> 2, rt |-> 0],
            [rs |-> 0, rn |-> 2, rt |-> 2], [rs |-> 0, rn |-> ZR, rt |-> ZR], [rs |-> ZR, rn |-> 2, rt |-> 1]}}
\* Every operation of 32 and 64 bits; of the smaller ones, one register combination.
MCOperations ==
  {i \in MCInstructions : /\ i.family = "op" \/ i.opc = "add"
                          /\ i.size \in {"byte", "half"} => i.rs = 0 /\ i.rt = 1}

MCInit ==
  /\ part \in {"file", "images", "processes", "atomics"}
  /\ PInit /\ LoadInit
  /\ part # "images" => images[1] = CHOOSE main \in Mains : TRUE
  /\ IF part = "file" THEN MachoInit ELSE macho = Usually /\ LoaderInit
  /\ IF part = "atomics" THEN AtomicInit
     ELSE /\ instr = CHOOSE i \in Instructions : TRUE
          /\ regs = <<>> /\ bits = <<>> /\ pc = 1
MCNext ==
  /\ UNCHANGED part
  /\ \/ part = "images" /\ LoadNext /\ UNCHANGED <<pvars, atomicvars, machovars>>
     \/ part = "processes" /\ PNext /\ UNCHANGED <<loadvars, atomicvars, machovars>>
     \/ part = "atomics" /\ AtomicNext /\ UNCHANGED <<pvars, loadvars, machovars>>
     \/ part = "file" /\ MachoNext /\ UNCHANGED <<pvars, loadvars, atomicvars>>
MCSpec == MCInit /\ [][MCNext]_programvars
===============================================================================
