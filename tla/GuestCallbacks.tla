---------------------------- MODULE GuestCallbacks ----------------------------
(***************************************************************************)
(* Code of the guest that a hook enters: the routines of pthread_once and  *)
(* dispatch_once, the work of libdispatch, which runs inside the call, and *)
(* the exit handlers, which done_addr runs one by one in compat mode.      *)
(*                                                                         *)
(* A call in progress is a frame that says where its ret goes: to the      *)
(* caller, to the trampoline of pthread_once, whose one literal holds the  *)
(* return address of the last such call, or to done_addr.  Of the          *)
(* scheduler (GuestThreads) only who may run next is kept; a worker that   *)
(* calls exit, and forks, are in GuestProcesses.                           *)
(***************************************************************************)
EXTENDS Naturals, Sequences, FiniteSets, SequencesExt

CONSTANTS Workers,      \* threads next to main, which is 1
          Controls,     \* pthread_once_t's
          Tokens,       \* dispatch_once_t's
          Readable,     \* those of both that lie in mapped memory
          ModTerms,     \* handlers the loader registered, 0 for a null pointer
          MaxHandlers,  \* bound on handlers
          MaxDepth,     \* bound on calls in progress of one thread
          MaxEntered      \* bound on calls of imports

ASSUME CallbacksAssumption ==
  /\ 1 \notin Workers /\ Readable \subseteq Controls \cup Tokens
  /\ Controls \cap Tokens \subseteq Readable
  /\ ModTerms \in Seq(Nat) /\ \A i \in DOMAIN ModTerms : ModTerms[i] \in {0, i}

VARIABLES
  onCpu, ready, born,   \* current_thread_id, pending_threads, and who was created
  frames,               \* per thread, where the calls in progress return to
  word,                 \* the guest's word of a control or token
  tokens,               \* dispatch_once_tokens
  slot,                 \* PTHREAD_ONCE_TRAMPOLINE_LR_SLOT
  handlers,             \* exit_handlers: numbers of registrations
  registered,           \* how many were registered
  over,                 \* stop_emulation was called at done_addr
  entered,              \* calls so far
  started,              \* history: how often a routine began since its word was fresh
  overlapped, astray,   \* history: two once routines at a time; a return to another call
  ran                   \* history: handlers run, with the registrations there were

callbackvars == <<onCpu, ready, born, frames, word, tokens, slot, handlers, registered,
                  over, entered, started, overlapped, astray, ran>>
threadvars == <<onCpu, ready, born>>
oncevars == <<word, tokens, slot, started, overlapped>>
exitvars == <<handlers, registered, ran, over>>

Threads == {1} \cup Workers
Nowhere == [thread |-> 0, depth |-> 0]

CallbacksInit ==
  /\ onCpu = 1 /\ ready = {} /\ born = {}
  /\ frames = [t \in Threads |-> <<>>]
  /\ word = [c \in Controls \cup Tokens |-> "fresh"] /\ tokens = {}
  /\ slot = Nowhere
  /\ handlers = ModTerms /\ registered = Len(ModTerms)
  /\ over = FALSE /\ entered = 0
  /\ started = [c \in Controls \cup Tokens |-> 0]
  /\ overlapped = FALSE /\ astray = FALSE /\ ran = <<>>

Parked == frames[onCpu] # <<>> /\ Last(frames[onCpu]) = "parked"
Runs == ~over /\ ~astray /\ ~Parked
Imported == Runs /\ entered < MaxEntered /\ entered' = entered + 1 /\ UNCHANGED astray
Enter(back) == /\ Len(frames[onCpu]) < MaxDepth
               /\ frames' = [frames EXCEPT ![onCpu] = Append(@, back)]
HereNow == [thread |-> onCpu, depth |-> Len(frames[onCpu])]
InOnce == \E t \in Threads : \E i \in DOMAIN frames[t] : frames[t][i] = "trampoline"

-------------------------------------------------------------------------------
(***************************************************************************)
(* Once.  A routine is marked as done before it runs.                      *)
(***************************************************************************)
\* Mutant: nothing is marked.
MarkedNever(c) == word
Marked(c) == IF c \in Readable THEN [word EXCEPT ![c] = "done"] ELSE word

PthreadOnce(c, routine) ==
  /\ Imported /\ word[c] # "done"
  /\ word' = Marked(c)
  /\ IF routine
     THEN /\ Enter("trampoline") /\ slot' = HereNow
          /\ started' = [started EXCEPT ![c] = @ + 1]
          /\ overlapped' = (overlapped \/ InOnce)
     ELSE UNCHANGED <<frames, slot, started, overlapped>>
  /\ UNCHANGED <<threadvars, tokens, exitvars>>

\* dispatch_once_should_call
ShouldCall(c) == IF c \in Readable THEN word[c] # "done" ELSE c \notin tokens
DispatchOnce(c, function) ==
  /\ Imported /\ ShouldCall(c)
  /\ word' = Marked(c)
  /\ tokens' = IF c \in Readable THEN tokens ELSE tokens \cup {c}
  /\ IF function
     THEN Enter("caller") /\ started' = [started EXCEPT ![c] = @ + 1]
     ELSE UNCHANGED <<frames, started>>
  /\ UNCHANGED <<threadvars, slot, overlapped, exitvars>>

\* A token on the stack of the guest is used again, fresh.
Reuse(c) ==
  /\ Imported /\ c \in Readable /\ word[c] = "done"
  /\ word' = [word EXCEPT ![c] = "fresh"] /\ started' = [started EXCEPT ![c] = 0]
  /\ UNCHANGED <<threadvars, frames, tokens, slot, overlapped, exitvars>>

\* dispatch_async and dispatch_sync, with a block or with a function.
DispatchWork == Imported /\ Enter("caller") /\ UNCHANGED <<threadvars, oncevars, exitvars>>

-------------------------------------------------------------------------------
(***************************************************************************)
(* Exit handlers.                                                          *)
(***************************************************************************)
Atexit ==
  /\ Imported /\ registered < MaxHandlers
  /\ registered' = registered + 1 /\ handlers' = Append(handlers, registered + 1)
  /\ UNCHANGED <<threadvars, frames, oncevars, ran, over>>

\* Mutant: the handler that was registered first.
NextHandlerOldest == SelectInSeq(handlers, LAMBDA h : h # 0)
NextHandler == SelectLastInSeq(handlers, LAMBDA h : h # 0)

\* done_addr: ready threads first, with this one as their parent, then the handlers.
DoneAddr(base) ==
  LET resume(back) == [frames EXCEPT ![onCpu] = Append(base, back)]
  IN \/ /\ ready # {} /\ frames' = resume("parked")
        /\ \E w \in ready : onCpu' = w /\ ready' = ready \ {w}
        /\ UNCHANGED <<born, exitvars>>
     \/ /\ ready = {} /\ NextHandler # 0
        /\ frames' = resume("done")
        /\ ran' = Append(ran, [handler |-> handlers[NextHandler], among |-> registered])
        /\ handlers' = RemoveAt(handlers, NextHandler)
        /\ UNCHANGED <<threadvars, registered, over>>
     \/ /\ ready = {} /\ NextHandler = 0
        /\ over' = TRUE /\ handlers' = <<>> /\ frames' = [frames EXCEPT ![onCpu] = base]
        /\ UNCHANGED <<threadvars, registered, ran>>

\* exit and _exit of main, also from a handler: what was in progress is dropped.
Exit == Imported /\ onCpu = 1 /\ DoneAddr(<<>>) /\ UNCHANGED oncevars
\* The context saved at done_addr arrives there again.
DoneAgain == /\ ~over /\ ~astray /\ Parked /\ DoneAddr(Front(frames[onCpu]))
             /\ UNCHANGED <<oncevars, entered, astray>>

-------------------------------------------------------------------------------
(***************************************************************************)
(* Returns, and threads.                                                   *)
(***************************************************************************)
Return ==
  /\ Runs /\ frames[onCpu] # <<>>
  /\ LET base == Front(frames[onCpu])
     IN IF Last(frames[onCpu]) = "done" THEN DoneAddr(base) /\ UNCHANGED astray
        ELSE /\ frames' = [frames EXCEPT ![onCpu] = base]
             /\ astray' = /\ Last(frames[onCpu]) = "trampoline"
                          /\ slot # [thread |-> onCpu, depth |-> Len(base)]
             /\ UNCHANGED <<threadvars, exitvars>>
  /\ UNCHANGED <<oncevars, entered>>

MainReturns == /\ Runs /\ onCpu = 1 /\ frames[1] = <<>> /\ DoneAddr(<<>>)
               /\ UNCHANGED <<oncevars, entered, astray>>
\* thread_exit_stub: main, the parent, goes on.
WorkerReturns == /\ Runs /\ onCpu # 1 /\ frames[onCpu] = <<>> /\ onCpu' = 1
                 /\ UNCHANGED <<ready, born, frames, oncevars, exitvars, entered, astray>>

PthreadCreate(w) == /\ Imported /\ w \notin born
                    /\ born' = born \cup {w} /\ ready' = ready \cup {w}
                    /\ UNCHANGED <<onCpu, frames, oncevars, exitvars>>
\* Main joins or waits, or a worker sleeps.
Switch(w) == /\ Runs /\ w \in ready /\ onCpu' = w
             /\ ready' = (ready \ {w}) \cup ({onCpu} \ {1})
             /\ UNCHANGED <<born, frames, oncevars, exitvars, entered, astray>>

CallbacksNext ==
  \/ \E c \in Controls, routine \in BOOLEAN : PthreadOnce(c, routine)
  \/ \E c \in Tokens, function \in BOOLEAN : DispatchOnce(c, function)
  \/ \E c \in Controls \cup Tokens : Reuse(c)
  \/ DispatchWork \/ Atexit \/ Exit \/ DoneAgain \/ Return \/ MainReturns \/ WorkerReturns
  \/ \E w \in Workers : PthreadCreate(w) \/ Switch(w)

CallbacksSpec == CallbacksInit /\ [][CallbacksNext]_callbackvars

-------------------------------------------------------------------------------
\* A routine begins at most once while its word is not made fresh, whoever asks and
\* from wherever (a pthread_once_t in unmapped memory is never remembered).
OnceBegins == \A c \in (Readable \cup Tokens) : started[c] <= 1

\* The trampoline returns to the call that entered the routine as long as no second
\* routine of pthread_once begins before the first has returned.
OnceReturns == astray => overlapped

\* When the run stops, each handler that is not null has run once, those registered
\* last first, although handlers register handlers, call exit and create threads.
Outran(i) == {ran[j].handler : j \in 1..i - 1}
HandlersRan ==
  /\ \A i \in DOMAIN ran :
       /\ ran[i].handler \notin Outran(i)
       /\ \A h \in ran[i].handler + 1..ran[i].among :
            h \in Outran(i) \/ (h \in DOMAIN ModTerms /\ ModTerms[h] = 0)
  /\ over => \A h \in 1..registered :
               h \in Outran(Len(ran) + 1) \/ (h \in DOMAIN ModTerms /\ ModTerms[h] = 0)

\* What hooks enter is entered once and left for where it came from.
CallbacksHonest == OnceBegins /\ OnceReturns /\ HandlersRan
===============================================================================
