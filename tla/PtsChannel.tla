---------------------------------- MODULE PtsChannel ----------------------------------
(* The shared-memory channel between the Pin front-ends (Pthread/PTS.cpp), one per      *)
(* simulated program, and the timing simulator's main loop (McSim/main.cc).  A buffer    *)
(* holds one message; two active-low flags next to it carry the request and the reply.  *)
(* Stores become visible in program order (the flags are volatile, the host is x86); a   *)
(* spin loop and the store that follows it are one step, since what the other side does  *)
(* between the two could as well be done just before.                                    *)
EXTENDS Naturals, FiniteSets

CONSTANTS
    Program,            \* the simulated programs, one hardware thread each
    First,              \* program 0, the one the simulator polls first
    instr_batch_size,
    MaxSlot,            \* most free slots McSim::add_instruction reports
    NumHthreads,        \* what PTS::get_num_hthreads returns
    MaxSent             \* bound: instructions a program issues

ASSUME PtsChannelAssumption ==
    /\ First \in Program /\ IsFiniteSet(Program)
    /\ {instr_batch_size, MaxSlot, NumHthreads} \subseteq Nat \ {0}
    /\ MaxSent \in Nat

VARIABLES
    pc,           \* pc[p]: where the front-end of p is
    req,          \* req[p]: the call in progress
    after,        \* after[p]: where p continues once it has its reply
    piled,        \* num_piled_instr
    slot,         \* num_available_slot of the program's hardware thread
    mem,          \* mem[p]: the shared message
    request,      \* mmap_flag[p][0] is lowered
    reply,        \* mmap_flag[p][1] is lowered
    buf,          \* programs[p].buffer, the simulator's copy of the message
    bpc,          \* where the simulator's loop is
    curr_pid,
    nactive,
    active,       \* programs whose hardware thread is active in McSim
    sent,         \* history: instructions p handed to add_instruction
    taken         \* history: instructions of p the simulator passed to a core

front == <<pc, req, after, piled, slot, sent>>
back == <<buf, bpc, curr_pid, nactive, active, taken>>
vars == <<front, mem, request, reply, back>>

Plain == {"constructor", "hthreads", "query", "add", "deactivate"}
Waiting == {"resume", "kill"}
Leaving == {"destructor"}
Kinds == Plain \cup Waiting \cup Leaving
MessageType(kind) == IF kind = "kill" THEN "resume" ELSE kind   \* pts_msg_type

Values == 0..(MaxSlot + NumHthreads + instr_batch_size)
Message == [type : {MessageType(k) : k \in Kinds}, val : Values, killed : BOOLEAN]
Zeroed == [type |-> "constructor", val |-> 0, killed |-> FALSE]  \* a fresh ftruncate'd page
Resumed == [type |-> "resume", val |-> 0, killed |-> FALSE]      \* thread 0 may go on

\* Places between two calls, and places within a call.
Idle == {"boot", "attached", "run", "exiting", "ended", "closing"}
InCall == {"lower", "wait", "read"}
Places == Idle \cup InCall \cup {"gone", "aborted"}

\* The simulator has set up the buffers of these programs and polls program 0.
Idling(programs) ==
    /\ piled = [p \in Program |-> 0] /\ slot = [p \in Program |-> 1]
    /\ request = [p \in Program |-> FALSE] /\ reply = [p \in Program |-> FALSE]
    /\ bpc = "poll" /\ curr_pid = First
    /\ nactive = Cardinality(programs) /\ active = programs
    /\ sent = [p \in Program |-> 0] /\ taken = [p \in Program |-> 0]

\* The start of a simulation.
Init ==
    /\ Idling(Program)
    /\ pc = [p \in Program |-> "boot"] /\ after = [p \in Program |-> "attached"]
    /\ req = [p \in Program |-> "constructor"]
    /\ mem = [p \in Program |-> Zeroed] /\ buf = mem

\* The start of a simulation of program 0 alone: there is nobody else to wait for the turn.
AloneInit ==
    /\ Idling({First})
    /\ pc = [p \in Program |-> IF p = First THEN "boot" ELSE "gone"]
    /\ after = [p \in Program |-> "attached"]
    /\ req = [p \in Program |-> IF p = First THEN "constructor" ELSE "resume"]
    /\ mem = [p \in Program |-> Zeroed] /\ buf = mem

\* A later state: every program has attached, program 0 has the turn and each of the
\* others has had a resume request of its own taken in and waits for the turn.
AttachedInit ==
    /\ Idling(Program)
    /\ pc = [p \in Program |-> IF p = First THEN "run" ELSE "wait"]
    /\ after = [p \in Program |-> "run"] /\ req = [p \in Program |-> "resume"]
    /\ mem = [p \in Program |-> Resumed] /\ buf = mem
-----------------------------------------------------------------------------------------
(* The front-end of program p. *)

Enter(p, kind, next) ==
    /\ pc' = [pc EXCEPT ![p] = "lower"]
    /\ req' = [req EXCEPT ![p] = kind]
    /\ after' = [after EXCEPT ![p] = next]

\* The calls a program makes at a place, and where it is after each.  A thread that exits
\* is deactivated and then reported killed; a trace that ends does it the other way round
\* and, if it ever runs again, destroys its simulator.
Calls == [attached |-> {<<"hthreads", "run">>},
          run |-> {<<"query", "run">>, <<"resume", "run">>, <<"deactivate", "exiting">>,
                   <<"kill", "ended">>},
          exiting |-> {<<"kill", "exiting">>},
          ended |-> {<<"deactivate", "closing">>},
          closing |-> {<<"destructor", "gone">>}]

\* The constructor's own request carries no message.
Boot(p) ==
    /\ pc[p] = "boot"
    /\ Enter(p, "constructor", "attached")
    /\ UNCHANGED <<piled, slot, sent, mem, request, reply, back>>

\* send_instr_batch, which every call makes first if instructions are piled up.
SendBatch(p) ==
    /\ pc[p] \in DOMAIN Calls /\ piled[p] > 0
    /\ IF mem[p].type = "add"
       THEN Enter(p, "add", pc[p])
       ELSE pc' = [pc EXCEPT ![p] = "aborted"] /\ UNCHANGED <<req, after>>
    /\ UNCHANGED <<piled, slot, sent, mem, request, reply, back>>

Call(p) ==
    /\ pc[p] \in DOMAIN Calls /\ piled[p] = 0
    /\ \E c \in Calls[pc[p]] :
          /\ Enter(p, c[1], c[2])
          /\ mem' = [mem EXCEPT ![p].type = MessageType(c[1]),
                                ![p].val = IF c[1] = "deactivate" THEN 0 ELSE @,
                                ![p].killed = IF c[1] \in Waiting THEN c[1] = "kill" ELSE @]
    /\ UNCHANGED <<piled, slot, sent, request, reply, back>>

CanPile(p, n) == n < instr_batch_size /\ n < slot[p]

AddInstruction(p) ==
    /\ pc[p] = "run" /\ sent[p] < MaxSent
    /\ piled' = [piled EXCEPT ![p] = @ + 1]
    /\ sent' = [sent EXCEPT ![p] = @ + 1]
    /\ mem' = [mem EXCEPT ![p].type = "add", ![p].val = piled'[p]]
    /\ \/ Enter(p, "add", "run")
       \/ CanPile(p, piled'[p]) /\ UNCHANGED <<pc, req, after>>
    /\ UNCHANGED <<slot, request, reply, back>>

Lower(p) ==
    /\ pc[p] = "lower"
    /\ request' = [request EXCEPT ![p] = TRUE]
    /\ pc' = [pc EXCEPT ![p] = IF req[p] = "destructor" THEN "gone" ELSE "wait"]
    /\ UNCHANGED <<req, after, piled, slot, sent, mem, reply, back>>

Receive(p) ==
    /\ pc[p] = "wait" /\ reply[p]
    /\ reply' = [reply EXCEPT ![p] = FALSE]
    /\ pc' = [pc EXCEPT ![p] = "read"]
    /\ UNCHANGED <<req, after, piled, slot, sent, mem, request, back>>

PiledKept(p) == piled[p]                  \* mutant: num_piled_instr is not reset
PiledAfter(p) == IF req[p] = "add" THEN 0 ELSE piled[p]

\* What the caller takes from the message.  The constructor allocates one slot count per
\* hardware thread it was told of: told 0, the slot it uses lies past the array.
Read(p) ==
    /\ pc[p] = "read"
    /\ pc' = [pc EXCEPT ![p] = after[p]]
    /\ piled' = [piled EXCEPT ![p] = PiledAfter(p)]
    /\ \E s \in CASE req[p] = "add" -> {mem[p].val}
                  [] req[p] = "hthreads" -> IF mem[p].val > 0 THEN {1} ELSE Values
                  [] OTHER -> {slot[p]} :
          slot' = [slot EXCEPT ![p] = s]
    /\ UNCHANGED <<req, after, sent, mem, request, reply, back>>

Proceed(p) == Lower(p) \/ Receive(p) \/ Read(p)
Front(p) == Boot(p) \/ SendBatch(p) \/ Call(p) \/ AddInstruction(p) \/ Proceed(p)
-----------------------------------------------------------------------------------------
(* The simulator's loop. *)

RequestLeft == request                    \* mutant: the request flag is not raised again
RequestTaken == [request EXCEPT ![curr_pid] = FALSE]

Poll ==
    /\ bpc = "poll" /\ request[curr_pid]
    /\ request' = RequestTaken
    /\ bpc' = "serve"
    /\ UNCHANGED <<front, mem, reply, buf, curr_pid, nactive, active, taken>>

\* The last thread is killed: every program gets a SIGKILL and the loop ends.
FirstKill(m) == m.type = "resume" /\ m.killed     \* mutant: stops at the first kill
LastKill(m) == m.type = "resume" /\ m.killed /\ nactive = 1

Stop(m) ==
    /\ LastKill(m)
    /\ bpc' = "done" /\ nactive' = 0
    /\ buf' = [buf EXCEPT ![curr_pid] = m]
    /\ UNCHANGED <<curr_pid, active, taken>>

AnyProgram == Program                     \* mutant: inactive threads are picked too
Candidates == active

\* McSim::resume_simulation picks the hardware thread whose event comes next.
SwitchProgram(m) ==
    /\ m.type \in {"resume", "destructor"} /\ ~LastKill(m)
    /\ nactive' = IF m.type = "resume" /\ m.killed THEN nactive - 1 ELSE nactive
    /\ \E q \in Candidates :
          /\ curr_pid' = q
          /\ buf' = [[buf EXCEPT ![curr_pid] = m] EXCEPT ![q].type = "resume", ![q].val = 0]
    /\ bpc' = "copyout"
    /\ UNCHANGED <<active, taken>>

TakeInstructions(m) ==
    /\ m.type = "add"
    /\ IF m.val = 0
       THEN bpc' = "aborted" /\ buf' = [buf EXCEPT ![curr_pid] = m] /\ UNCHANGED taken
       ELSE /\ bpc' = "copyout"
            /\ \E free \in 0..MaxSlot : buf' = [buf EXCEPT ![curr_pid] = [m EXCEPT !.val = free]]
            /\ taken' = [taken EXCEPT ![curr_pid] = @ + m.val]
    /\ UNCHANGED <<curr_pid, nactive, active>>

Told == NumHthreads

Respond(m) ==
    /\ m.type \in {"constructor", "hthreads", "query", "deactivate"}
    /\ buf' = [buf EXCEPT ![curr_pid] =
                  IF m.type = "hthreads" THEN [m EXCEPT !.val = Told] ELSE m]
    /\ active' = IF m.type = "deactivate" THEN active \ {curr_pid} ELSE active
    /\ bpc' = "copyout"
    /\ UNCHANGED <<curr_pid, nactive, taken>>

Serve ==
    /\ bpc = "serve"
    /\ \/ Stop(mem[curr_pid])
       \/ SwitchProgram(mem[curr_pid])
       \/ TakeInstructions(mem[curr_pid])
       \/ Respond(mem[curr_pid])
    /\ UNCHANGED <<front, mem, request, reply>>

CopyOut ==
    /\ bpc = "copyout"
    /\ mem' = [mem EXCEPT ![curr_pid] = buf[curr_pid]]
    /\ bpc' = "signal"
    /\ UNCHANGED <<front, request, reply, buf, curr_pid, nactive, active, taken>>

AlwaysFirst == First                      \* mutant: the reply goes to program 0
Answered == curr_pid

Signal ==
    /\ bpc = "signal"
    /\ reply' = [reply EXCEPT ![Answered] = TRUE]
    /\ bpc' = "poll"
    /\ UNCHANGED <<front, mem, request, buf, curr_pid, nactive, active, taken>>

Back == Poll \/ Serve \/ CopyOut \/ Signal
-----------------------------------------------------------------------------------------
Terminated == bpc = "done" /\ UNCHANGED vars

Next ==
    \/ Terminated
    \/ Back
    \/ bpc # "done" /\ \E p \in Program : Front(p)

\* Both sides are processes of their own that spin while they wait: each takes its next
\* step if it has one.  What a program asks next is its own business: no fairness.
Fairness ==
    /\ WF_vars(Back)
    /\ \A p \in Program : WF_vars(bpc # "done" /\ Proceed(p))

Spec == Init /\ [][Next]_vars
OrderlySpec == (AloneInit \/ AttachedInit) /\ [][Next]_vars /\ Fairness
-----------------------------------------------------------------------------------------
(* Properties *)

\* No instruction is lost or simulated twice between a front-end and the cores: between
\* two calls, what the simulator took plus what is still piled up is what was sent, and
\* what is piled up fits the message.
EachInstructionOnce ==
    \A p \in Program :
        /\ piled[p] <= instr_batch_size
        /\ pc[p] \in Idle => taken[p] + piled[p] = sent[p]

\* The front-end never checks the type of a reply: it must be the reply to its request.
\* Before its first instruction a program has the slot counts it needs: the constructor
\* allocates one for each hardware thread the simulator told it of (PTS.cpp:72-77).
ReplyMatchesRequest ==
    \A p \in Program :
        /\ pc[p] = "read" => mem[p].type = MessageType(req[p])
        /\ pc[p] = "run" /\ sent[p] = 0 => slot[p] = 1

\* A call that does not give the turn away is answered.
CallsReturn ==
    \A p \in Program : (pc[p] = "lower" /\ req[p] \in Plain) ~> pc[p] \in Idle

\* The turn-taking protocol the two sides implement.
AskedOf(p) == IF pc[p] \in InCall \cup {"gone"} THEN req[p] ELSE "none"
AnswerIn(p, m) == IF m.type = MessageType(req[p]) THEN req[p] ELSE "wrong"
AnswerOf(p) ==
    CASE curr_pid = p /\ bpc \in {"copyout", "signal"} -> AnswerIn(p, buf[p])
      [] reply[p] \/ pc[p] = "read" -> AnswerIn(p, mem[p])
      [] OTHER -> "none"

Turn == INSTANCE PtsTurn WITH
            None <- "none", turn <- curr_pid,
            asked <- [p \in Program |-> AskedOf(p)],
            answer <- [p \in Program |-> AnswerOf(p)]
TakesTurns == Turn!Spec

\* PTS.cpp:287, assert(ptsmessage->type == pts_add_instruction).
BatchAssertHolds == \A p \in Program : pc[p] # "aborted"
-----------------------------------------------------------------------------------------
(* The inductive invariant behind EachInstructionOnce, ReplyMatchesRequest and           *)
(* TakesTurns.  Only the program that has the turn is on the move; its request has been  *)
(* served from the time its reply is prepared until it has read it.                      *)
TypeOK ==
    /\ pc \in [Program -> Places] /\ req \in [Program -> Kinds] /\ after \in [Program -> Places]
    /\ piled \in [Program -> Nat] /\ slot \in [Program -> Nat]
    /\ sent \in [Program -> Nat] /\ taken \in [Program -> Nat]
    /\ mem \in [Program -> Message] /\ buf \in [Program -> Message]
    /\ request \in [Program -> BOOLEAN] /\ reply \in [Program -> BOOLEAN]
    /\ curr_pid \in Program /\ active \subseteq Program

Awaits(p) == pc[p] = "wait" \/ (pc[p] = "gone" /\ req[p] = "destructor")
Parked(p) == pc[p] = "gone" \/ (pc[p] = "wait" /\ req[p] \in Waiting)
Quiet(p) == ~request[p] /\ ~reply[p]
Served(p) == p = curr_pid /\ (bpc \in {"copyout", "signal"} \/ reply[p] \/ pc[p] = "read")
ReplyTo(p) == IF bpc = "copyout" THEN buf[p] ELSE mem[p]

OneTurn ==
    /\ \A p \in Program \ {curr_pid} : Parked(p) /\ Quiet(p)
    /\ \/ bpc = "poll" /\ pc[curr_pid] \in Idle \cup {"lower", "read"} /\ Quiet(curr_pid)
       \/ bpc = "poll" /\ Awaits(curr_pid) /\ request[curr_pid] /\ ~reply[curr_pid]
       \/ bpc = "poll" /\ pc[curr_pid] = "wait" /\ ~request[curr_pid] /\ reply[curr_pid]
       \/ bpc \in {"serve", "done"} /\ Awaits(curr_pid) /\ Quiet(curr_pid)
       \/ bpc \in {"copyout", "signal"} /\ pc[curr_pid] = "wait" /\ Quiet(curr_pid)

\* Each call with the place it leads to.
CallSteps == {<<"constructor", "attached">>, <<"add", "run">>} \cup
             UNION {Calls[place] : place \in DOMAIN Calls}

CallsMatch ==
    /\ \A p \in Program :
          pc[p] \in InCall => /\ <<req[p], after[p]>> \in CallSteps
                              /\ req[p] = "destructor" => pc[p] = "lower"
    /\ \A p \in Program : pc[p] = "boot" => mem[p].type = "constructor"
    /\ pc[curr_pid] \notin Idle => ReplyTo(curr_pid).type = MessageType(req[curr_pid])
    /\ bpc = "signal" => mem[curr_pid] = buf[curr_pid]
    /\ Served(curr_pid) /\ req[curr_pid] = "hthreads" => ReplyTo(curr_pid).val = NumHthreads

OutOfTheWay ==                   \* a program that is gone is not picked again
    \A p \in Program :
        \/ pc[p] \in {"closing", "gone"}
        \/ pc[p] \in InCall /\ req[p] = "destructor"
        \/ pc[p] \in InCall /\ req[p] = "deactivate" /\ Served(p)
        => p \notin active

Accounted ==
    \A p \in Program :
        /\ piled[p] <= instr_batch_size /\ piled[p] <= sent[p]
        /\ piled[p] > 0 => pc[p] = "run" \/ (pc[p] \in InCall /\ req[p] = "add" /\ p = curr_pid)
        /\ pc[p] \in InCall /\ req[p] = "add" => piled[p] > 0
        /\ piled[p] > 0 /\ ~Served(p) => mem[p].type = "add" /\ mem[p].val = piled[p]
        /\ pc[p] = "run" => piled[p] < instr_batch_size
        /\ sent[p] = taken[p] + (IF Served(p) THEN 0 ELSE piled[p])
        /\ sent[p] = 0 => slot[p] = 1

IInv == TypeOK /\ OneTurn /\ CallsMatch /\ OutOfTheWay /\ Accounted
=========================================================================================
