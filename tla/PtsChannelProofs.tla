---------------------------------- MODULE PtsChannelProofs ----------------------------------
(* Proofs about PtsChannel for every number of programs, batch size and number of free     *)
(* slots, from the two orderly starts.  The argument is that only the program that has the *)
(* turn is on the move (OneTurn): no two steps of the two sides meet at one buffer.        *)
EXTENDS PtsChannel, TLAPS

---------------------------------------------------------------------------------------------
(* Calls and messages *)

\* What a program may ask at a place, and where that leads.
LEMMA CallFacts ==
    ASSUME NEW place \in DOMAIN Calls, NEW c \in Calls[place]
    PROVE  /\ place \in Idle /\ <<c[1], c[2]>> \in CallSteps
           /\ c[1] \in Kinds \ {"add", "constructor"}
           /\ c[1] = "destructor" => place = "closing"
<1>1. c \in CallSteps
  BY DEF CallSteps
<1>2. /\ place \in Idle /\ c = <<c[1], c[2]>> /\ c[1] \in Kinds \ {"add", "constructor"}
      /\ c[1] = "destructor" => place = "closing"
  BY DEF Calls, Idle, Kinds, Plain, Waiting, Leaving
<1> QED  BY <1>1, <1>2

\* The calls, one by one.
LEMMA StepFacts ==
    ASSUME NEW kind, NEW next, <<kind, next>> \in CallSteps
    PROVE  /\ kind \in Kinds /\ next \in Places
           /\ next \in Idle \ {"boot"} \/ kind = "destructor"
           /\ next = "run" => kind \in {"add", "hthreads", "query", "resume"}
           /\ next = "closing" => kind = "deactivate"
<1>1. \/ <<kind, next>> \in {<<"constructor", "attached">>, <<"add", "run">>}
      \/ \E place \in DOMAIN Calls : <<kind, next>> \in Calls[place]
  BY DEF CallSteps
<1> QED  BY <1>1 DEF Calls, Kinds, Plain, Waiting, Leaving, Places, Idle

\* Numbers of instructions that fit a batch, free slots and what a program is told.
LEMMA ValuesFacts ==
    /\ 0..instr_batch_size \subseteq Values /\ 0..MaxSlot \subseteq Values
    /\ NumHthreads \in Values /\ NumHthreads > 0 /\ 0 \in Values
BY PtsChannelAssumption DEF Values

\* A message is its three fields.
LEMMA MessageFacts ==
    ASSUME NEW m \in Message
    PROVE  /\ \A k \in Kinds : [m EXCEPT !.type = MessageType(k)] \in Message
           /\ \A v \in Values : [m EXCEPT !.val = v] \in Message
           /\ m.type \in {MessageType(k) : k \in Kinds} /\ m.val \in Values
           /\ m.killed \in BOOLEAN
BY DEF Message

\* Which request a message of a type is for.
LEMMA TypeFacts ==
    ASSUME NEW k \in Kinds
    PROVE  /\ MessageType(k) = "resume" <=> k \in Waiting
           /\ MessageType(k) # "resume" => MessageType(k) = k
           /\ MessageType(k) \in Kinds
BY DEF MessageType, Kinds, Plain, Waiting, Leaving

---------------------------------------------------------------------------------------------
(* The front-end *)

\* A program that is not waiting has the turn, and the simulator polls it.
LEMMA OnTheMove ==
    ASSUME IInv, NEW p \in Program, pc[p] \in Idle \cup {"lower", "read"}
    PROVE  /\ p = curr_pid /\ bpc = "poll" /\ Quiet(p)
           /\ Served(p) <=> pc[p] = "read"
           /\ \A q \in Program : q # p => Parked(q) /\ Quiet(q) /\ ~Served(q)
BY DEF IInv, OneTurn, Parked, Awaits, Quiet, Served, Idle

\* A program that makes a request keeps the turn, and what it asks is in its message.
LEMMA EnterInv ==
    ASSUME IInv, NEW p \in Program, pc[p] \in Idle, NEW kind, NEW next,
           <<kind, next>> \in CallSteps, Enter(p, kind, next),
           UNCHANGED <<request, reply, back>>,
           mem' \in [Program -> Message], mem'[p].type = MessageType(kind),
           kind = "destructor" => p \notin active
    PROVE  /\ pc' \in [Program -> Places] /\ req' \in [Program -> Kinds]
           /\ after' \in [Program -> Places]
           /\ pc'[p] = "lower" /\ req'[p] = kind
           /\ \A q \in Program : q # p => pc'[q] = pc[q] /\ req'[q] = req[q]
           /\ OneTurn' /\ CallsMatch' /\ OutOfTheWay'
           /\ \A q \in Program : ~Served(q)'
<1>1. /\ p = curr_pid /\ bpc = "poll" /\ Quiet(p) /\ kind \in Kinds
      /\ \A q \in Program : q # p => Parked(q) /\ Quiet(q) /\ ~Served(q)
  BY OnTheMove, StepFacts
<1>2. /\ pc \in [Program -> Places] /\ req \in [Program -> Kinds]
      /\ after \in [Program -> Places] /\ next \in Places
  BY StepFacts DEF IInv, TypeOK
<1>3. /\ pc' \in [Program -> Places] /\ req' \in [Program -> Kinds]
      /\ after' \in [Program -> Places]
      /\ pc'[p] = "lower" /\ req'[p] = kind /\ after'[p] = next
      /\ \A q \in Program : q # p => pc'[q] = pc[q] /\ req'[q] = req[q] /\ after'[q] = after[q]
  BY <1>1, <1>2 DEF Enter, Places, InCall
<1>4. /\ bpc' = "poll" /\ curr_pid' = p /\ request' = request /\ reply' = reply
      /\ active' = active
  BY <1>1 DEF back
<1>5. \A q \in Program : ~Served(q)'
  BY <1>1, <1>3, <1>4 DEF Served, Quiet
<1>6. OneTurn'
  BY <1>1, <1>3, <1>4 DEF OneTurn, Parked, Quiet
<1>7. CallsMatch'
  BY <1>1, <1>3, <1>4, <1>5 DEF IInv, CallsMatch, ReplyTo, Parked
<1>8. OutOfTheWay'
  BY <1>1, <1>3, <1>4, <1>5 DEF IInv, OutOfTheWay, InCall, Served
<1> QED  BY <1>3, <1>5, <1>6, <1>7, <1>8

LEMMA BootInv == ASSUME IInv, NEW p \in Program, Boot(p) PROVE IInv'
<1>1. /\ pc[p] \in Idle /\ pc[p] = "boot" /\ <<"constructor", "attached">> \in CallSteps
      /\ Enter(p, "constructor", "attached")
      /\ UNCHANGED <<piled, slot, sent, mem, request, reply, back>>
  BY DEF Boot, Idle, CallSteps
<1>2. /\ p = curr_pid /\ \A q \in Program : ~Served(q)
      /\ mem[p].type = MessageType("constructor")
  BY <1>1, OnTheMove DEF IInv, CallsMatch, MessageType
<1>3. /\ pc' \in [Program -> Places] /\ req' \in [Program -> Kinds]
      /\ after' \in [Program -> Places]
      /\ pc'[p] = "lower" /\ req'[p] = "constructor"
      /\ \A q \in Program : q # p => pc'[q] = pc[q] /\ req'[q] = req[q]
      /\ OneTurn' /\ CallsMatch' /\ OutOfTheWay'
      /\ \A q \in Program : ~Served(q)'
  BY <1>1, <1>2, EnterInv DEF IInv, TypeOK
<1>4. TypeOK'
  BY <1>1, <1>3 DEF IInv, TypeOK, back
<1>5. Accounted'
  BY <1>1, <1>2, <1>3 DEF IInv, Accounted, InCall, back
<1> QED  BY <1>3, <1>4, <1>5 DEF IInv

LEMMA SendBatchInv == ASSUME IInv, NEW p \in Program, SendBatch(p) PROVE IInv'
<1>1. pc[p] \in DOMAIN Calls /\ pc[p] \in Idle /\ piled[p] > 0
  BY DEF SendBatch, Calls, Idle
<1>2. p = curr_pid /\ \A q \in Program : ~Served(q)
  BY <1>1, OnTheMove DEF Idle
<1>3. pc[p] = "run" /\ mem[p].type = "add"
  BY <1>1, <1>2 DEF IInv, Accounted, Idle, InCall
<1>4. /\ <<"add", "run">> \in CallSteps /\ Enter(p, "add", "run")
      /\ UNCHANGED <<piled, slot, sent, mem, request, reply, back>>
  BY <1>3 DEF SendBatch, CallSteps
<1>5. /\ pc' \in [Program -> Places] /\ req' \in [Program -> Kinds]
      /\ after' \in [Program -> Places]
      /\ pc'[p] = "lower" /\ req'[p] = "add"
      /\ \A q \in Program : q # p => pc'[q] = pc[q] /\ req'[q] = req[q]
      /\ OneTurn' /\ CallsMatch' /\ OutOfTheWay'
      /\ \A q \in Program : ~Served(q)'
  BY <1>1, <1>3, <1>4, EnterInv DEF IInv, TypeOK, MessageType
<1>6. TypeOK'
  BY <1>4, <1>5 DEF IInv, TypeOK, back
<1>7. Accounted'
  BY <1>1, <1>2, <1>4, <1>5 DEF IInv, Accounted, InCall, back
<1> QED  BY <1>5, <1>6, <1>7 DEF IInv

LEMMA CallInv == ASSUME IInv, NEW p \in Program, Call(p) PROVE IInv'
<1>1. PICK c \in Calls[pc[p]] :
          /\ Enter(p, c[1], c[2])
          /\ mem' = [mem EXCEPT ![p].type = MessageType(c[1]),
                                ![p].val = IF c[1] = "deactivate" THEN 0 ELSE @,
                                ![p].killed = IF c[1] \in Waiting THEN c[1] = "kill" ELSE @]
  BY DEF Call
<1>2. /\ pc[p] \in DOMAIN Calls /\ piled[p] = 0
      /\ UNCHANGED <<piled, slot, sent, request, reply, back>>
  BY DEF Call
<1>3. /\ pc[p] \in Idle /\ <<c[1], c[2]>> \in CallSteps
      /\ c[1] \in Kinds \ {"add", "constructor"}
      /\ c[1] = "destructor" => pc[p] = "closing"
  BY <1>2, CallFacts
<1>4. p = curr_pid /\ \A q \in Program : ~Served(q)
  BY <1>3, OnTheMove DEF Idle
<1>5. /\ mem' \in [Program -> Message] /\ mem'[p].type = MessageType(c[1])
      /\ \A q \in Program : q # p => mem'[q] = mem[q]
  <2>1. mem[p] \in Message /\ mem \in [Program -> Message]
    BY DEF IInv, TypeOK
  <2>2. MessageType(c[1]) \in {MessageType(k) : k \in Kinds} /\ 0 \in Values
    BY <1>3, ValuesFacts
  <2> HIDE DEF MessageType
  <2> QED  BY <1>1, <2>1, <2>2 DEF Message
<1>6. c[1] = "destructor" => p \notin active
  BY <1>3 DEF IInv, OutOfTheWay
<1>7. /\ pc' \in [Program -> Places] /\ req' \in [Program -> Kinds]
      /\ after' \in [Program -> Places]
      /\ pc'[p] = "lower" /\ req'[p] = c[1]
      /\ \A q \in Program : q # p => pc'[q] = pc[q] /\ req'[q] = req[q]
      /\ OneTurn' /\ CallsMatch' /\ OutOfTheWay'
      /\ \A q \in Program : ~Served(q)'
  BY <1>1, <1>2, <1>3, <1>5, <1>6, EnterInv
<1>8. TypeOK'
  BY <1>2, <1>5, <1>7 DEF IInv, TypeOK, back
<1>9. Accounted'
  BY <1>2, <1>3, <1>4, <1>5, <1>7 DEF IInv, Accounted, InCall, back
<1> QED  BY <1>7, <1>8, <1>9 DEF IInv

\* One more instruction is piled up; the batch is sent or there is room for another.
LEMMA AddInstructionInv == ASSUME IInv, NEW p \in Program, AddInstruction(p) PROVE IInv'
<1>1. /\ pc[p] = "run" /\ pc[p] \in Idle
      /\ piled' = [piled EXCEPT ![p] = @ + 1] /\ sent' = [sent EXCEPT ![p] = @ + 1]
      /\ mem' = [mem EXCEPT ![p].type = "add", ![p].val = piled'[p]]
      /\ UNCHANGED <<slot, request, reply, back>>
  BY DEF AddInstruction, Idle
<1>2. /\ p = curr_pid /\ \A q \in Program : ~Served(q)
      /\ bpc = "poll" /\ Quiet(p)
      /\ piled[p] \in Nat /\ sent[p] \in Nat /\ piled[p] < instr_batch_size
      /\ instr_batch_size \in Nat /\ taken[p] \in Nat
  BY <1>1, OnTheMove, PtsChannelAssumption DEF Idle, IInv, TypeOK, Accounted
<1>3. /\ piled' \in [Program -> Nat] /\ sent' \in [Program -> Nat]
      /\ piled'[p] = piled[p] + 1 /\ sent'[p] = sent[p] + 1
      /\ \A q \in Program : q # p => piled'[q] = piled[q] /\ sent'[q] = sent[q]
      /\ piled'[p] <= instr_batch_size
  BY <1>1, <1>2 DEF IInv, TypeOK
<1>4. /\ mem' \in [Program -> Message]
      /\ mem'[p].type = "add" /\ mem'[p].val = piled'[p]
      /\ \A q \in Program : q # p => mem'[q] = mem[q]
  <2>1. mem[p] \in Message /\ mem \in [Program -> Message]
    BY DEF IInv, TypeOK
  <2>2. "add" \in {MessageType(k) : k \in Kinds}
    BY DEF MessageType, Kinds, Plain
  <2>3. piled'[p] \in Values
    BY <1>2, <1>3, ValuesFacts
  <2> QED  BY <1>1, <2>1, <2>2, <2>3 DEF Message
<1>5. CASE Enter(p, "add", "run")
  <2>1. <<"add", "run">> \in CallSteps /\ MessageType("add") = "add"
    BY DEF CallSteps, MessageType
  <2>2. /\ pc' \in [Program -> Places] /\ req' \in [Program -> Kinds]
        /\ after' \in [Program -> Places]
        /\ pc'[p] = "lower" /\ req'[p] = "add"
        /\ \A q \in Program : q # p => pc'[q] = pc[q] /\ req'[q] = req[q]
        /\ OneTurn' /\ CallsMatch' /\ OutOfTheWay'
        /\ \A q \in Program : ~Served(q)'
    BY <1>1, <1>4, <1>5, <2>1, EnterInv
  <2>3. TypeOK'
    BY <1>1, <1>3, <1>4, <2>2 DEF IInv, TypeOK, back
  <2>4. Accounted'
    BY <1>1, <1>2, <1>3, <1>4, <2>2, SMTT(60) DEF IInv, TypeOK, Accounted, InCall, back
  <2> QED  BY <2>2, <2>3, <2>4 DEF IInv
<1>6. CASE CanPile(p, piled'[p]) /\ UNCHANGED <<pc, req, after>>
  <2>1. /\ pc' = pc /\ req' = req /\ after' = after /\ bpc' = bpc /\ curr_pid' = curr_pid
        /\ reply' = reply /\ request' = request /\ active' = active /\ buf' = buf
        /\ slot' = slot /\ taken' = taken /\ piled'[p] < instr_batch_size
    BY <1>1, <1>6 DEF back, CanPile
  <2>2. \A q \in Program : Served(q)' <=> Served(q)
    BY <2>1 DEF Served
  <2>3. TypeOK'
    BY <1>3, <1>4, <2>1 DEF IInv, TypeOK
  <2>4. OneTurn'
    BY <2>1 DEF IInv, OneTurn, Parked, Awaits, Quiet
  <2>5. CallsMatch'
    BY <1>1, <1>2, <1>4, <2>1, <2>2 DEF IInv, CallsMatch, ReplyTo
  <2>6. OutOfTheWay'
    BY <2>1, <2>2 DEF IInv, OutOfTheWay
  <2>7. Accounted'
    BY <1>1, <1>2, <1>3, <1>4, <2>1, <2>2 DEF IInv, TypeOK, Accounted, InCall
  <2> QED  BY <2>3, <2>4, <2>5, <2>6, <2>7 DEF IInv
<1> QED  BY <1>5, <1>6 DEF AddInstruction

LEMMA LowerInv == ASSUME IInv, NEW p \in Program, Lower(p) PROVE IInv'
<1>1. /\ p = curr_pid /\ bpc = "poll" /\ Quiet(p) /\ pc[p] = "lower"
      /\ \A q \in Program : ~Served(q)
  BY OnTheMove DEF Lower
<1>2. /\ pc' = [pc EXCEPT ![p] = IF req[p] = "destructor" THEN "gone" ELSE "wait"]
      /\ request' = [request EXCEPT ![p] = TRUE]
      /\ UNCHANGED <<req, after, piled, slot, sent, mem, reply, back>>
  BY DEF Lower
<1>3. /\ pc'[p] = (IF req[p] = "destructor" THEN "gone" ELSE "wait") /\ request'[p]
      /\ \A q \in Program : q # p => pc'[q] = pc[q] /\ request'[q] = request[q]
      /\ pc' \in [Program -> Places] /\ request' \in [Program -> BOOLEAN]
  BY <1>2 DEF IInv, TypeOK, Places, InCall
<1>4. \A q \in Program : ~Served(q)'
  BY <1>1, <1>2, <1>3 DEF Served, Quiet, back
<1>5. TypeOK'
  BY <1>2, <1>3 DEF IInv, TypeOK, back
<1>6. OneTurn'
  BY <1>1, <1>2, <1>3 DEF IInv, OneTurn, Parked, Awaits, Quiet, back
<1>7. CallsMatch'
  BY <1>1, <1>2, <1>3, <1>4 DEF IInv, CallsMatch, ReplyTo, InCall, Idle, back
<1>8. OutOfTheWay'
  BY <1>1, <1>2, <1>3, <1>4 DEF IInv, OutOfTheWay, InCall, back
<1>9. Accounted'
  BY <1>1, <1>2, <1>3, <1>4 DEF IInv, Accounted, InCall, back
<1> QED  BY <1>5, <1>6, <1>7, <1>8, <1>9 DEF IInv

LEMMA ReceiveInv == ASSUME IInv, NEW p \in Program, Receive(p) PROVE IInv'
<1>1. /\ pc' = [pc EXCEPT ![p] = "read"] /\ reply' = [reply EXCEPT ![p] = FALSE]
      /\ UNCHANGED <<req, after, piled, slot, sent, mem, request, back>>
      /\ pc[p] = "wait" /\ reply[p]
  BY DEF Receive
<1>2. p = curr_pid /\ bpc = "poll" /\ ~request[p] /\ Served(p)
  BY <1>1 DEF IInv, OneTurn, Quiet, Served
<1>3. /\ pc'[p] = "read" /\ ~reply'[p]
      /\ \A q \in Program : q # p => pc'[q] = pc[q] /\ reply'[q] = reply[q]
      /\ pc' \in [Program -> Places] /\ reply' \in [Program -> BOOLEAN]
  BY <1>1 DEF IInv, TypeOK, Places, InCall
<1>4. \A q \in Program : Served(q)' <=> Served(q)
  BY <1>1, <1>2, <1>3 DEF Served, back
<1>5. TypeOK'
  BY <1>1, <1>3 DEF IInv, TypeOK, back
<1>6. OneTurn'
  BY <1>1, <1>2, <1>3 DEF IInv, OneTurn, Parked, Quiet, back
<1>7. CallsMatch'
  BY <1>1, <1>2, <1>3, <1>4 DEF IInv, CallsMatch, ReplyTo, InCall, Idle, back
<1>8. OutOfTheWay'
  BY <1>1, <1>2, <1>3, <1>4 DEF IInv, OutOfTheWay, InCall, back
<1>9. Accounted'
  BY <1>1, <1>2, <1>3, <1>4 DEF IInv, Accounted, InCall, back
<1> QED  BY <1>5, <1>6, <1>7, <1>8, <1>9 DEF IInv

\* The batch is gone, the slots are those the simulator has left.
LEMMA ReadInv == ASSUME IInv, NEW p \in Program, Read(p) PROVE IInv'
<1>1. /\ pc[p] = "read"
      /\ pc' = [pc EXCEPT ![p] = after[p]] /\ piled' = [piled EXCEPT ![p] = PiledAfter(p)]
      /\ UNCHANGED <<req, after, sent, mem, request, reply, back>>
  BY DEF Read
<1>2. PICK s \in CASE req[p] = "add" -> {mem[p].val}
                   [] req[p] = "hthreads" -> IF mem[p].val > 0 THEN {1} ELSE Values
                   [] OTHER -> {slot[p]} :
          slot' = [slot EXCEPT ![p] = s]
  BY DEF Read
<1>3. /\ p = curr_pid /\ bpc = "poll" /\ Quiet(p) /\ Served(p)
      /\ \A q \in Program : q # p => ~Served(q)
  BY <1>1, OnTheMove
<1>4. <<req[p], after[p]>> \in CallSteps
  BY <1>1 DEF IInv, CallsMatch, InCall
<1>5. /\ piled[p] \in Nat /\ (req[p] = "add" => piled[p] > 0)
      /\ req[p] # "add" => piled[p] = 0
      /\ sent[p] = taken[p] /\ taken[p] \in Nat
  BY <1>1, <1>3 DEF IInv, TypeOK, Accounted, InCall
<1>6. s \in Nat /\ (sent[p] = 0 => s = 1)
  <2>1. mem[p].val \in Nat /\ slot[p] \in Nat
    BY PtsChannelAssumption DEF IInv, TypeOK, Message, Values
  <2>2. CASE req[p] = "add"
    <3>1. s = mem[p].val
      BY <1>2, <2>2
    <3>2. sent[p] # 0
      BY <1>5, <2>2 DEF IInv, Accounted
    <3> QED  BY <2>1, <3>1, <3>2
  <2>3. CASE req[p] = "hthreads"
    <3>1. mem[p].val = NumHthreads /\ NumHthreads > 0
      BY <1>1, <1>3, <2>3, ValuesFacts DEF IInv, CallsMatch, ReplyTo
    <3> QED  BY <1>2, <2>3, <3>1
  <2>4. CASE req[p] \notin {"add", "hthreads"}
    BY <1>2, <2>1, <2>4 DEF IInv, Accounted
  <2> QED  BY <2>2, <2>3, <2>4
<1>7. /\ pc'[p] = after[p] /\ after[p] \in Places /\ slot'[p] = s
      /\ piled'[p] = 0
      /\ \A q \in Program : q # p => /\ pc'[q] = pc[q] /\ slot'[q] = slot[q]
                                     /\ piled'[q] = piled[q]
      /\ pc' \in [Program -> Places] /\ slot' \in [Program -> Nat]
      /\ piled' \in [Program -> Nat]
  BY <1>1, <1>2, <1>4, <1>5, <1>6, StepFacts DEF IInv, TypeOK, PiledAfter
<1>8. /\ after[p] \in Idle \ {"boot"} \/ req[p] = "destructor"
      /\ after[p] = "run" => req[p] \in {"add", "hthreads", "query", "resume"}
      /\ after[p] = "closing" => req[p] = "deactivate"
  BY <1>4, StepFacts
<1>9. req[p] # "destructor" /\ after[p] \in Idle
  BY <1>1, <1>8 DEF IInv, CallsMatch, InCall
<1>10. \A q \in Program : ~Served(q)'
  BY <1>1, <1>3, <1>7, <1>9 DEF Served, Quiet, back, Idle
<1>11. TypeOK'
  BY <1>1, <1>7 DEF IInv, TypeOK, back
<1>12. OneTurn'
  BY <1>1, <1>3, <1>7, <1>9 DEF IInv, OneTurn, Parked, Quiet, back
<1>13. CallsMatch'
  BY <1>1, <1>3, <1>7, <1>8, <1>9, <1>10 DEF IInv, CallsMatch, ReplyTo, InCall, Idle, back
<1>14. OutOfTheWay'
  BY <1>1, <1>3, <1>7, <1>8, <1>9, <1>10 DEF IInv, OutOfTheWay, InCall, Idle, back
<1>15. Accounted'
  BY <1>1, <1>3, <1>5, <1>6, <1>7, <1>9, <1>10, PtsChannelAssumption
     DEF IInv, TypeOK, Accounted, InCall, Idle, back
<1> QED  BY <1>11, <1>12, <1>13, <1>14, <1>15 DEF IInv

---------------------------------------------------------------------------------------------
(* The simulator *)

LEMMA PollInv == ASSUME IInv, Poll PROVE IInv'
<1>1. /\ bpc = "poll" /\ bpc' = "serve" /\ request[curr_pid]
      /\ request' = [request EXCEPT ![curr_pid] = FALSE]
      /\ UNCHANGED <<front, mem, reply, buf, curr_pid, nactive, active, taken>>
  BY DEF Poll, RequestTaken
<1>2. /\ curr_pid \in Program /\ request' \in [Program -> BOOLEAN] /\ ~request'[curr_pid]
      /\ \A q \in Program : q # curr_pid => request'[q] = request[q]
  BY <1>1 DEF IInv, TypeOK
<1>3. Awaits(curr_pid) /\ ~reply[curr_pid]
  BY <1>1 DEF IInv, OneTurn, Quiet
<1>4. \A q \in Program : ~Served(q) /\ ~Served(q)'
  BY <1>1, <1>3 DEF Served, Awaits, front
<1>5. TypeOK'
  BY <1>1, <1>2 DEF IInv, TypeOK, front
<1>6. OneTurn'
  BY <1>1, <1>2, <1>3 DEF IInv, OneTurn, Parked, Awaits, Quiet, front
<1>7. CallsMatch'
  BY <1>1, <1>2, <1>4 DEF IInv, CallsMatch, ReplyTo, front
<1>8. OutOfTheWay'
  BY <1>1, <1>2, <1>4 DEF IInv, OutOfTheWay, front
<1>9. Accounted'
  BY <1>1, <1>2, <1>4 DEF IInv, Accounted, front
<1> QED  BY <1>5, <1>6, <1>7, <1>8, <1>9 DEF IInv

\* The simulator serves the request that the program with the turn has made.
LEMMA ServeFacts ==
    ASSUME IInv, bpc = "serve"
    PROVE  /\ curr_pid \in Program /\ Awaits(curr_pid) /\ Quiet(curr_pid)
           /\ \A q \in Program : q # curr_pid => Parked(q) /\ Quiet(q)
           /\ mem[curr_pid].type = MessageType(req[curr_pid]) /\ req[curr_pid] \in Kinds
           /\ \A q \in Program : ~Served(q)
           /\ pc[curr_pid] = "wait" <=> req[curr_pid] # "destructor"
<1>1. /\ curr_pid \in Program /\ Awaits(curr_pid) /\ Quiet(curr_pid)
      /\ \A q \in Program : q # curr_pid => Parked(q) /\ Quiet(q)
  BY DEF IInv, TypeOK, OneTurn
<1>2. \A q \in Program : ~Served(q)
  BY <1>1 DEF Served, Awaits, Quiet
<1>3. mem[curr_pid].type = MessageType(req[curr_pid]) /\ req[curr_pid] \in Kinds
  BY <1>1 DEF IInv, TypeOK, CallsMatch, ReplyTo, Awaits, Idle
<1>4. pc[curr_pid] = "wait" <=> req[curr_pid] # "destructor"
  BY <1>1 DEF IInv, CallsMatch, Awaits, InCall
<1> QED  BY <1>1, <1>2, <1>3, <1>4

\* The last kill ends the simulation.
LEMMA StopInv ==
    ASSUME IInv, bpc = "serve", Stop(mem[curr_pid]), UNCHANGED <<front, mem, request, reply>>
    PROVE  IInv'
<1>1. /\ bpc' = "done" /\ buf' = [buf EXCEPT ![curr_pid] = mem[curr_pid]]
      /\ UNCHANGED <<curr_pid, active, taken>>
  BY DEF Stop
<1>2. buf' \in [Program -> Message]
  BY <1>1 DEF IInv, TypeOK
<1>3. \A q \in Program : ~Served(q)'
  BY <1>1, ServeFacts DEF Served, Quiet, Awaits, front
<1>4. TypeOK'
  BY <1>1, <1>2 DEF IInv, TypeOK, front
<1>5. OneTurn'
  BY <1>1, ServeFacts DEF OneTurn, Parked, Awaits, Quiet, front
<1>6. CallsMatch'
  BY <1>1, <1>3, ServeFacts DEF IInv, CallsMatch, ReplyTo, front
<1>7. OutOfTheWay'
  BY <1>1, <1>3, ServeFacts DEF IInv, OutOfTheWay, front
<1>8. Accounted'
  BY <1>1, <1>3, ServeFacts DEF IInv, Accounted, front
<1> QED  BY <1>4, <1>5, <1>6, <1>7, <1>8 DEF IInv

(* The turn goes to a program that is active, so not gone, and so waits for it: its      *)
(* resume request is answered.                                                           *)
LEMMA SwitchInv ==
    ASSUME IInv, bpc = "serve", SwitchProgram(mem[curr_pid]),
           UNCHANGED <<front, mem, request, reply>>
    PROVE  /\ IInv'
           /\ req[curr_pid] \in Waiting \cup Leaving
           /\ curr_pid' \in Program /\ req[curr_pid'] \in Waiting /\ pc[curr_pid'] = "wait"
           /\ buf'[curr_pid'].type = "resume" /\ bpc' = "copyout"
<1> DEFINE m == mem[curr_pid]
<1>1. /\ m.type \in {"resume", "destructor"} /\ bpc' = "copyout"
      /\ UNCHANGED <<active, taken>>
  BY DEF SwitchProgram
<1>2. PICK q \in active :
          /\ curr_pid' = q
          /\ buf' = [[buf EXCEPT ![curr_pid] = m] EXCEPT ![q].type = "resume", ![q].val = 0]
  BY DEF SwitchProgram, Candidates
<1>3. req[curr_pid] \in Waiting \cup Leaving
  BY <1>1, ServeFacts, TypeFacts DEF Leaving
<1>4. q \in Program /\ pc[q] # "gone"
  BY <1>2 DEF IInv, TypeOK, OutOfTheWay
<1>5. pc[q] = "wait" /\ req[q] \in Waiting /\ Quiet(q)
  BY <1>3, <1>4, ServeFacts DEF Parked, Awaits, Leaving
<1>6. buf' \in [Program -> Message] /\ buf'[q].type = "resume"
  <2>1. buf \in [Program -> Message] /\ m \in Message
    BY ServeFacts DEF IInv, TypeOK
  <2>2. "resume" \in {MessageType(k) : k \in Kinds} /\ 0 \in Values
    BY ValuesFacts DEF MessageType, Kinds, Waiting
  <2> HIDE DEF m
  <2> QED  BY <1>2, <1>4, <2>1, <2>2 DEF Message
<1>7. \A x \in Program : Parked(x) /\ Quiet(x)
  BY <1>3, ServeFacts DEF Parked, Awaits, Leaving
<1>8. \A x \in Program : Served(x)' <=> x = q
  BY <1>1, <1>2, <1>7 DEF Served, Quiet, Parked, front
<1>9. TypeOK'
  BY <1>1, <1>2, <1>4, <1>6 DEF IInv, TypeOK, front
<1>10. OneTurn'
  BY <1>1, <1>2, <1>5, <1>7 DEF OneTurn, Parked, Awaits, Quiet, front
<1>11. MessageType(req[q]) = "resume" /\ req[q] \notin {"hthreads", "add", "deactivate"}
  BY <1>5 DEF Waiting, MessageType
<1>12. CallsMatch'
  BY <1>1, <1>2, <1>5, <1>6, <1>8, <1>11 DEF IInv, CallsMatch, ReplyTo, front
<1>13. OutOfTheWay'
  BY <1>1, <1>2, <1>8, <1>11 DEF IInv, OutOfTheWay, front
<1>14. Accounted'
  <2>1. \A x \in Program : piled[x] = 0
    BY <1>7 DEF IInv, TypeOK, Accounted, Parked, InCall, Waiting
  <2> QED  BY <1>1, <1>2, <1>8, <1>11, <2>1, ServeFacts
           DEF IInv, TypeOK, Accounted, front
<1>15. IInv'
  BY <1>9, <1>10, <1>12, <1>13, <1>14 DEF IInv
<1> QED  BY <1>1, <1>2, <1>3, <1>4, <1>5, <1>6, <1>15

\* A request that keeps the turn is answered in the simulator's copy of the message.
LEMMA KeepTurn ==
    ASSUME IInv, bpc = "serve", bpc' = "copyout", curr_pid' = curr_pid,
           UNCHANGED <<front, mem, request, reply>>,
           buf' \in [Program -> Message], buf'[curr_pid].type = mem[curr_pid].type,
           req[curr_pid] \in Plain,
           req[curr_pid] = "hthreads" => buf'[curr_pid].val = NumHthreads,
           active' \subseteq active,
           req[curr_pid] = "deactivate" => curr_pid \notin active',
           taken' \in [Program -> Nat],
           \A q \in Program : q # curr_pid => taken'[q] = taken[q],
           taken'[curr_pid] = taken[curr_pid] + piled[curr_pid]
    PROVE  IInv'
<1>1. pc[curr_pid] = "wait" /\ \A q \in Program : Served(q)' <=> q = curr_pid
  BY ServeFacts DEF Served, Plain, Awaits, Quiet, front
<1>2. TypeOK'
  BY DEF IInv, TypeOK, front
<1>3. OneTurn'
  BY <1>1, ServeFacts DEF OneTurn, Parked, Quiet, front
<1>4. CallsMatch'
  BY <1>1, ServeFacts DEF IInv, CallsMatch, ReplyTo, front
<1>5. OutOfTheWay'
  BY <1>1, ServeFacts DEF IInv, OutOfTheWay, front
<1>6. Accounted'
  BY <1>1, ServeFacts DEF IInv, TypeOK, Accounted, front
<1> QED  BY <1>2, <1>3, <1>4, <1>5, <1>6 DEF IInv

LEMMA TakeInv ==
    ASSUME IInv, bpc = "serve", TakeInstructions(mem[curr_pid]),
           UNCHANGED <<front, mem, request, reply>>
    PROVE  /\ IInv' /\ req[curr_pid] = "add" /\ bpc' = "copyout" /\ curr_pid' = curr_pid
           /\ buf'[curr_pid].type = mem[curr_pid].type
<1> DEFINE m == mem[curr_pid]
<1>1. req[curr_pid] = "add" /\ pc[curr_pid] = "wait"
  BY ServeFacts, TypeFacts DEF TakeInstructions
<1>2. piled[curr_pid] > 0 /\ m.val = piled[curr_pid]
  BY <1>1, ServeFacts DEF IInv, Accounted, InCall
<1>3. /\ bpc' = "copyout" /\ curr_pid' = curr_pid /\ active' = active
      /\ taken' = [taken EXCEPT ![curr_pid] = @ + m.val]
  BY <1>2, ServeFacts DEF TakeInstructions, IInv, TypeOK
<1>4. PICK free \in 0..MaxSlot : buf' = [buf EXCEPT ![curr_pid] = [m EXCEPT !.val = free]]
  BY <1>2, ServeFacts DEF TakeInstructions, IInv, TypeOK
<1>5. buf' \in [Program -> Message] /\ buf'[curr_pid].type = m.type
  <2>1. buf \in [Program -> Message] /\ m \in Message /\ free \in Values
    BY ServeFacts, ValuesFacts DEF IInv, TypeOK
  <2>2. [m EXCEPT !.val = free] \in Message /\ [m EXCEPT !.val = free].type = m.type
    BY <2>1 DEF Message
  <2> QED  BY <1>4, <2>1, <2>2, ServeFacts
<1>6. /\ taken' \in [Program -> Nat]
      /\ taken'[curr_pid] = taken[curr_pid] + piled[curr_pid]
      /\ \A q \in Program : q # curr_pid => taken'[q] = taken[q]
  BY <1>2, <1>3, ServeFacts DEF IInv, TypeOK
<1>7. IInv'
  BY <1>1, <1>3, <1>5, <1>6, KeepTurn DEF Plain
<1> QED  BY <1>1, <1>3, <1>5, <1>7

LEMMA RespondInv ==
    ASSUME IInv, bpc = "serve", Respond(mem[curr_pid]), UNCHANGED <<front, mem, request, reply>>
    PROVE  /\ IInv' /\ req[curr_pid] \in Plain /\ bpc' = "copyout" /\ curr_pid' = curr_pid
           /\ buf'[curr_pid].type = mem[curr_pid].type
<1> DEFINE m == mem[curr_pid]
<1>1. m.type = req[curr_pid] /\ req[curr_pid] \in Plain \ {"add"}
  BY ServeFacts, TypeFacts DEF Respond, Plain
<1>2. piled[curr_pid] = 0
  BY <1>1, ServeFacts DEF IInv, TypeOK, Accounted, Awaits, InCall, Plain
<1>3. /\ bpc' = "copyout" /\ curr_pid' = curr_pid /\ taken' = taken
      /\ active' = IF m.type = "deactivate" THEN active \ {curr_pid} ELSE active
      /\ buf' = [buf EXCEPT ![curr_pid] =
                    IF m.type = "hthreads" THEN [m EXCEPT !.val = NumHthreads] ELSE m]
  BY DEF Respond, Told
<1>4. /\ buf' \in [Program -> Message] /\ buf'[curr_pid].type = m.type
      /\ m.type = "hthreads" => buf'[curr_pid].val = NumHthreads
  <2>1. buf \in [Program -> Message] /\ m \in Message /\ NumHthreads \in Values
    BY ServeFacts, ValuesFacts DEF IInv, TypeOK
  <2>2. /\ [m EXCEPT !.val = NumHthreads] \in Message
        /\ [m EXCEPT !.val = NumHthreads].type = m.type
        /\ [m EXCEPT !.val = NumHthreads].val = NumHthreads
    BY <2>1 DEF Message
  <2> QED  BY <1>3, <2>1, <2>2, ServeFacts
<1>5. /\ taken' \in [Program -> Nat]
      /\ taken'[curr_pid] = taken[curr_pid] + piled[curr_pid]
      /\ \A q \in Program : q # curr_pid => taken'[q] = taken[q]
  BY <1>2, <1>3, ServeFacts DEF IInv, TypeOK
<1>6. active' \subseteq active /\ (req[curr_pid] = "deactivate" => curr_pid \notin active')
  BY <1>1, <1>3
<1>7. IInv'
  BY <1>1, <1>3, <1>4, <1>5, <1>6, KeepTurn
<1> QED  BY <1>1, <1>3, <1>4, <1>7

LEMMA ServeInv == ASSUME IInv, Serve PROVE IInv'
BY StopInv, SwitchInv, TakeInv, RespondInv DEF Serve

LEMMA CopyOutInv == ASSUME IInv, CopyOut PROVE IInv'
<1>1. /\ bpc = "copyout" /\ bpc' = "signal"
      /\ mem' = [mem EXCEPT ![curr_pid] = buf[curr_pid]]
      /\ UNCHANGED <<front, request, reply, buf, curr_pid, nactive, active, taken>>
  BY DEF CopyOut
<1>2. /\ curr_pid \in Program /\ pc[curr_pid] = "wait" /\ Quiet(curr_pid)
      /\ mem' \in [Program -> Message] /\ mem'[curr_pid] = buf[curr_pid]
      /\ \A q \in Program : q # curr_pid => mem'[q] = mem[q]
  BY <1>1 DEF IInv, TypeOK, OneTurn
<1>3. \A q \in Program : (Served(q) <=> q = curr_pid) /\ (Served(q)' <=> q = curr_pid)
  BY <1>1 DEF IInv, OneTurn, Served, Parked, Quiet
<1>4. TypeOK'
  BY <1>1, <1>2 DEF IInv, TypeOK, front
<1>5. OneTurn'
  BY <1>1, <1>2 DEF IInv, OneTurn, Parked, Quiet, front
<1>6. CallsMatch'
  BY <1>1, <1>2, <1>3 DEF IInv, CallsMatch, ReplyTo, front
<1>7. OutOfTheWay'
  BY <1>1, <1>2, <1>3 DEF IInv, OutOfTheWay, front
<1>8. Accounted'
  BY <1>1, <1>2, <1>3 DEF IInv, Accounted, front
<1> QED  BY <1>4, <1>5, <1>6, <1>7, <1>8 DEF IInv

LEMMA SignalInv == ASSUME IInv, Signal PROVE IInv'
<1>1. /\ bpc = "signal" /\ bpc' = "poll"
      /\ reply' = [reply EXCEPT ![curr_pid] = TRUE]
      /\ UNCHANGED <<front, mem, request, buf, curr_pid, nactive, active, taken>>
  BY DEF Signal, Answered
<1>2. /\ curr_pid \in Program /\ pc[curr_pid] = "wait" /\ ~request[curr_pid]
      /\ reply' \in [Program -> BOOLEAN] /\ reply'[curr_pid]
      /\ \A q \in Program : q # curr_pid => reply'[q] = reply[q]
  BY <1>1 DEF IInv, TypeOK, OneTurn, Quiet
<1>3. \A q \in Program : (Served(q) <=> q = curr_pid) /\ (Served(q)' <=> q = curr_pid)
  BY <1>1, <1>2 DEF IInv, OneTurn, Served, Parked, Quiet
<1>4. TypeOK'
  BY <1>1, <1>2 DEF IInv, TypeOK, front
<1>5. OneTurn'
  BY <1>1, <1>2 DEF IInv, OneTurn, Parked, Quiet, front
<1>6. CallsMatch'
  BY <1>1, <1>2, <1>3 DEF IInv, CallsMatch, ReplyTo, front
<1>7. OutOfTheWay'
  BY <1>1, <1>2, <1>3 DEF IInv, OutOfTheWay, front
<1>8. Accounted'
  BY <1>1, <1>2, <1>3 DEF IInv, Accounted, front
<1> QED  BY <1>4, <1>5, <1>6, <1>7, <1>8 DEF IInv
---------------------------------------------------------------------------------------------
(* The invariant *)

LEMMA InitInv == AloneInit \/ AttachedInit => IInv
<1> SUFFICES ASSUME AloneInit \/ AttachedInit PROVE IInv
  OBVIOUS
<1>1. First \in Program /\ instr_batch_size > 0 /\ instr_batch_size \in Nat
  BY PtsChannelAssumption
<1>2. Zeroed \in Message /\ Resumed \in Message
  <2>1. 0 \in Values /\ {"constructor", "resume"} \subseteq {MessageType(k) : k \in Kinds}
    BY ValuesFacts DEF MessageType, Kinds, Plain, Waiting
  <2> QED  BY <2>1 DEF Zeroed, Resumed, Message
<1>3. /\ curr_pid = First /\ bpc = "poll" /\ active \subseteq Program
      /\ \A p \in Program : /\ ~request[p] /\ ~reply[p]
                            /\ piled[p] = 0 /\ sent[p] = 0 /\ taken[p] = 0 /\ slot[p] = 1
      /\ \/ /\ pc[First] = "boot" /\ mem[First].type = "constructor"
            /\ active = {First} /\ \A p \in Program : p # First => pc[p] = "gone"
         \/ /\ pc[First] = "run"
            /\ \A p \in Program : p # First => /\ pc[p] = "wait" /\ req[p] = "resume"
                                               /\ after[p] = "run"
  <2>1. CASE AloneInit
    BY <1>1, <2>1 DEF AloneInit, Idling, Zeroed
  <2>2. CASE AttachedInit
    BY <1>1, <2>2 DEF AttachedInit, Idling
  <2> QED  BY <2>1, <2>2
<1>4. TypeOK
  <2>1. CASE AloneInit
    BY <1>1, <1>2, <2>1 DEF AloneInit, Idling, TypeOK, Places, Idle, InCall, Kinds, Plain,
                            Waiting
  <2>2. CASE AttachedInit
    BY <1>1, <1>2, <2>2 DEF AttachedInit, Idling, TypeOK, Places, Idle, InCall, Kinds,
                            Plain, Waiting
  <2> QED  BY <2>1, <2>2
<1>5. \A p \in Program : ~Served(p)
  BY <1>1, <1>3 DEF Served
<1>6. OneTurn
  BY <1>1, <1>3 DEF OneTurn, Parked, Quiet, Waiting, Idle
<1>7. <<"resume", "run">> \in CallSteps
  BY DEF CallSteps, Calls
<1>8. CallsMatch
  BY <1>1, <1>3, <1>5, <1>7 DEF CallsMatch, InCall, Idle
<1>9. OutOfTheWay /\ Accounted
  BY <1>1, <1>3, <1>5 DEF OutOfTheWay, Accounted, InCall
<1> QED  BY <1>4, <1>6, <1>8, <1>9 DEF IInv

LEMMA StepInv == IInv /\ [Next]_vars => IInv'
<1> SUFFICES ASSUME IInv, [Next]_vars PROVE IInv'
  OBVIOUS
<1>1. ASSUME NEW p \in Program, Front(p) PROVE IInv'
  BY <1>1, BootInv, SendBatchInv, CallInv, AddInstructionInv, LowerInv, ReceiveInv, ReadInv
     DEF Front, Proceed
<1>2. CASE Back
  BY <1>2, PollInv, ServeInv, CopyOutInv, SignalInv DEF Back
<1>3. CASE UNCHANGED vars
  BY <1>3 DEF vars, front, back, IInv, TypeOK, OneTurn, CallsMatch, OutOfTheWay, Accounted,
              Served, Awaits, Parked, Quiet, ReplyTo
<1> QED  BY <1>1, <1>2, <1>3 DEF Next, Terminated

(* From an orderly start, in every reachable state only the program with the turn is on  *)
(* the move, and its message, flags and counts agree with how far its request has come.  *)
THEOREM Invariance == OrderlySpec => []IInv
BY InitInv, StepInv, PTL DEF OrderlySpec

(* No instruction is lost or taken twice on its way from the front-end to the cores      *)
(* (PTS::add_instruction, PTS.cpp:272-310, and the batch loop of main.cc).               *)
THEOREM InstructionsArriveOnce == OrderlySpec => []EachInstructionOnce
<1>1. ASSUME IInv, NEW p \in Program
      PROVE  /\ piled[p] <= instr_batch_size
             /\ pc[p] \in Idle => taken[p] + piled[p] = sent[p]
  <2>1. pc[p] \in Idle => ~Served(p)
    BY <1>1, OnTheMove DEF Idle
  <2> QED  BY <1>1, <2>1 DEF IInv, TypeOK, Accounted
<1>2. IInv => EachInstructionOnce
  BY <1>1 DEF EachInstructionOnce
<1> QED  BY <1>2, Invariance, PTL

(* A reply that is read is the one to the request that was made, and a program knows     *)
(* how many hardware threads there are before its first instruction.                    *)
THEOREM RepliesMatch == OrderlySpec => []ReplyMatchesRequest
<1>1. IInv => ReplyMatchesRequest
  BY OnTheMove DEF IInv, CallsMatch, ReplyTo, Accounted, ReplyMatchesRequest, Idle
<1> QED  BY <1>1, Invariance, PTL

---------------------------------------------------------------------------------------------
(* The channel implements turn taking *)

\* What the abstract protocol sees: the request in progress, and its answer once served.
AnswersAreServed ==
    \A p \in Program : AnswerOf(p) = IF Served(p) THEN req[p] ELSE "none"

LEMMA AnswerFacts == IInv => AnswersAreServed
<1> SUFFICES ASSUME IInv, NEW p \in Program
             PROVE  AnswerOf(p) = IF Served(p) THEN req[p] ELSE "none"
  BY DEF AnswersAreServed
<1>1. CASE Served(p)
  <2>1. /\ p = curr_pid /\ pc[p] \in {"wait", "read"}
        /\ reply[p] \/ pc[p] = "read" => bpc = "poll"
    BY <1>1 DEF IInv, OneTurn, Served, Quiet, Awaits, Idle
  <2>2. /\ bpc = "copyout" => buf[p].type = MessageType(req[p])
        /\ bpc # "copyout" => mem[p].type = MessageType(req[p])
        /\ bpc = "signal" => buf[p].type = MessageType(req[p])
    BY <2>1 DEF IInv, CallsMatch, ReplyTo, Idle
  <2>3. CASE bpc \in {"copyout", "signal"}
    <3>1. buf[p].type = MessageType(req[p])
      BY <2>2, <2>3
    <3> QED  BY <2>1, <2>3, <3>1, <1>1 DEF AnswerOf, AnswerIn
  <2>4. CASE bpc \notin {"copyout", "signal"}
    <3>1. /\ mem[p].type = MessageType(req[p])
          /\ reply[p] \/ pc[p] = "read"
      BY <1>1, <2>2, <2>4 DEF Served
    <3> QED  BY <1>1, <2>4, <3>1 DEF AnswerOf, AnswerIn
  <2> QED  BY <2>3, <2>4
<1>2. CASE ~Served(p)
  <2>1. ~reply[p] /\ pc[p] # "read" /\ (curr_pid = p => bpc \notin {"copyout", "signal"})
    BY <1>2 DEF IInv, OneTurn, Served, Parked, Quiet
  <2> QED  BY <1>2, <2>1 DEF AnswerOf
<1> QED  BY <1>1, <1>2

(* Every step of a front-end or of the simulator is a step of the turn-taking protocol   *)
(* (PtsTurn) or none: a call asks, the service of a request answers it or passes the     *)
(* turn, and the caller receives when it has read its message.                           *)
THEOREM Implementation == OrderlySpec => TakesTurns
<1> DEFINE ask == [p \in Program |-> AskedOf(p)]
           ans == [p \in Program |-> AnswerOf(p)]
<1>1. AloneInit \/ AttachedInit => Turn!Init
  <2> SUFFICES ASSUME AloneInit \/ AttachedInit PROVE Turn!Init
    OBVIOUS
  <2>1. IInv
    BY InitInv
  <2>2. curr_pid = First /\ First \in Program /\ bpc = "poll"
    BY PtsChannelAssumption DEF AloneInit, AttachedInit, Idling
  <2>3. ASSUME NEW p \in Program
        PROVE  /\ AskedOf(p) \in {"none"} \cup Waiting
               /\ AskedOf(p) = "none" <=> p = curr_pid
               /\ ~Served(p)
    <3>1. CASE AloneInit
      BY <2>2, <3>1 DEF AloneInit, Idling, AskedOf, Served, InCall, Waiting
    <3>2. CASE AttachedInit
      BY <2>2, <3>2 DEF AttachedInit, Idling, AskedOf, Served, InCall, Waiting
    <3> QED  BY <3>1, <3>2
  <2>4. ans = [p \in Program |-> "none"]
    BY <2>1, <2>3, AnswerFacts DEF AnswersAreServed
  <2> QED  BY <2>2, <2>3, <2>4 DEF Turn!Init
<1>2. IInv /\ IInv' /\ [Next]_vars => [Turn!Next]_Turn!vars
  <2> SUFFICES ASSUME IInv, IInv', [Next]_vars PROVE [Turn!Next]_Turn!vars
    OBVIOUS
  <2>1. ans = [p \in Program |-> IF Served(p) THEN req[p] ELSE "none"]
    BY AnswerFacts DEF AnswersAreServed
  <2>2. ans' = [p \in Program |-> IF Served(p)' THEN req'[p] ELSE "none"]
    <3>1. AnswersAreServed'
      BY AnswerFacts, PTL
    <3> QED  BY <3>1 DEF AnswersAreServed
  <2>3. ask = [p \in Program |-> AskedOf(p)] /\ ask' = [p \in Program |-> AskedOf(p)']
    OBVIOUS
  <2> HIDE DEF ask, ans
  <2>4. /\ curr_pid' = curr_pid /\ ask' = ask /\ ans' = ans => UNCHANGED Turn!vars
        /\ Turn!Next <=> \E p \in Program : \/ Turn!Ask(p) \/ Turn!Answer(p) \/ Turn!Receive(p)
                                            \/ \E q \in Program : Turn!Switch(p, q)
    BY DEF ask, ans, Turn!vars, Turn!Next
  <2>5. ASSUME NEW p \in Program,
               \/ Boot(p) \/ SendBatch(p) \/ Call(p) \/ AddInstruction(p)
        PROVE  [Turn!Next]_Turn!vars
    <3>1. pc[p] \in Idle /\ UNCHANGED <<request, reply, back>>
      BY <2>5 DEF Boot, SendBatch, Call, AddInstruction, Calls, Idle
    <3>2. p = curr_pid /\ bpc = "poll" /\ (\A q \in Program : ~Served(q)) /\ ~reply[p]
      BY <3>1, OnTheMove DEF Quiet, Idle
    <3>3. CASE UNCHANGED <<pc, req>>
      <4>1. \A q \in Program : AskedOf(q)' = AskedOf(q) /\ (Served(q)' <=> Served(q))
        BY <3>1, <3>3 DEF AskedOf, Served, back
      <4>2. ask' = ask /\ ans' = ans
        BY <2>1, <2>2, <2>3, <3>3, <4>1
      <4> QED  BY <2>4, <3>1, <4>2 DEF back
    <3>4. ASSUME NEW kind \in Kinds, NEW next, Enter(p, kind, next) PROVE Turn!Ask(p)
      <4>1. /\ pc'[p] = "lower" /\ req'[p] = kind
            /\ \A q \in Program : q # p => pc'[q] = pc[q] /\ req'[q] = req[q]
        BY <3>4 DEF Enter, IInv, TypeOK
      <4>2. \A q \in Program : ~Served(q)'
        BY <3>1, <3>2, <4>1 DEF Served, back, Idle, Quiet
      <4>3. ans' = ans
        BY <2>1, <2>2, <3>2, <4>2
      <4>4. /\ AskedOf(p) = "none" /\ AskedOf(p)' = kind
            /\ \A q \in Program : q # p => AskedOf(q)' = AskedOf(q)
        BY <3>1, <4>1 DEF AskedOf, InCall, Idle
      <4>5. ask' = [ask EXCEPT ![p] = kind]
        BY <2>3, <4>4
      <4>6. curr_pid' = curr_pid /\ ask[p] = "none" /\ kind \in Plain \cup (Waiting \cup Leaving)
        BY <2>3, <3>1, <3>4, <4>4 DEF back, Kinds
      <4> QED  BY <3>2, <4>3, <4>5, <4>6 DEF ask, ans, Turn!Ask, Turn!Switching
    <3>5. CASE Boot(p)
      BY <2>4, <3>4, <3>5 DEF Boot, Kinds, Plain
    <3>6. CASE SendBatch(p)
      <4>1. mem[p].type = "add"
        BY <3>2, <3>6 DEF SendBatch, IInv, Accounted
      <4> QED  BY <2>4, <3>4, <3>6, <4>1 DEF SendBatch, Kinds, Plain
    <3>7. CASE Call(p)
      <4>1. PICK c \in Calls[pc[p]] : Enter(p, c[1], c[2])
        BY <3>7 DEF Call
      <4>2. c[1] \in Kinds
        BY <3>7, CallFacts DEF Call
      <4> QED  BY <2>4, <3>4, <4>1, <4>2
    <3>8. CASE AddInstruction(p)
      BY <2>4, <3>3, <3>4, <3>8 DEF AddInstruction, Kinds, Plain
    <3> QED  BY <2>5, <3>5, <3>6, <3>7, <3>8
  <2>6. ASSUME NEW p \in Program, Lower(p) \/ Receive(p)
        PROVE  UNCHANGED Turn!vars
    <3>1. /\ UNCHANGED <<req, back>>
          /\ pc[p] \in InCall /\ pc'[p] \in InCall \cup {"gone"}
          /\ \A q \in Program : q # p => pc'[q] = pc[q]
      BY <2>6 DEF Lower, Receive, IInv, TypeOK, InCall
    <3>2. \A q \in Program : AskedOf(q)' = AskedOf(q)
      BY <3>1 DEF AskedOf
    <3>3. \A q \in Program : Served(q)' <=> Served(q)
      <4>1. CASE Lower(p)
        BY <4>1, <3>1, OnTheMove DEF Lower, Served, Quiet, back, IInv, TypeOK
      <4>2. CASE Receive(p)
        BY <4>2, <3>1 DEF Receive, Served, back, IInv, TypeOK
      <4> QED  BY <2>6, <4>1, <4>2
    <3>4. ask' = ask /\ ans' = ans /\ curr_pid' = curr_pid
      BY <2>1, <2>2, <2>3, <3>1, <3>2, <3>3 DEF back
    <3> QED  BY <2>4, <3>4
  <2>7. ASSUME NEW p \in Program, Read(p)
        PROVE  Turn!Receive(p)
    <3>1. /\ pc[p] = "read" /\ pc'[p] = after[p] /\ UNCHANGED <<req, reply, back>>
          /\ \A q \in Program : q # p => pc'[q] = pc[q]
      BY <2>7 DEF Read, IInv, TypeOK
    <3>2. /\ p = curr_pid /\ bpc = "poll" /\ ~reply[p] /\ Served(p)
          /\ \A q \in Program : q # p => ~Served(q)
      BY <3>1, OnTheMove DEF Quiet
    <3>3. after[p] \in Idle
      BY <3>1, StepFacts DEF IInv, CallsMatch, InCall
    <3>4. \A q \in Program : ~Served(q)'
      BY <3>1, <3>2, <3>3 DEF Served, back, Idle
    <3>5. /\ AskedOf(p) = req[p] /\ AskedOf(p)' = "none" /\ req[p] # "none"
          /\ \A q \in Program : q # p => AskedOf(q)' = AskedOf(q)
      BY <3>1, <3>3 DEF AskedOf, InCall, Idle, IInv, TypeOK, Kinds, Plain, Waiting, Leaving
    <3>6. /\ ask[p] = req[p] /\ ans[p] = req[p]
          /\ ask' = [ask EXCEPT ![p] = "none"] /\ ans' = [ans EXCEPT ![p] = "none"]
      BY <2>1, <2>2, <2>3, <3>2, <3>4, <3>5
    <3> QED  BY <3>1, <3>5, <3>6 DEF back, ask, ans, Turn!Receive
  <2>8. CASE Serve
    <3>1. /\ curr_pid \in Program /\ Awaits(curr_pid) /\ Quiet(curr_pid)
          /\ \A q \in Program : q # curr_pid => Parked(q) /\ Quiet(q)
          /\ \A q \in Program : ~Served(q)
          /\ UNCHANGED <<front, reply>>
      BY <2>8, ServeFacts DEF Serve
    <3>2. ask' = ask /\ ask[curr_pid] = req[curr_pid] /\ ans[curr_pid] = "none"
      BY <2>1, <2>3, <3>1 DEF AskedOf, Awaits, InCall, front
    <3>3. ASSUME bpc' = "copyout", curr_pid' \in Program
          PROVE  ans' = [ans EXCEPT ![curr_pid'] = req[curr_pid']]
      <4>1. \A q \in Program : Served(q)' <=> q = curr_pid'
        BY <3>1, <3>3 DEF Served, Quiet, Parked, Awaits, front
      <4> QED  BY <2>1, <2>2, <3>1, <3>3, <4>1 DEF front
    <3>4. CASE Stop(mem[curr_pid])
      <4>1. bpc' = "done" /\ curr_pid' = curr_pid
        BY <3>4 DEF Stop
      <4>2. \A q \in Program : ~Served(q)'
        BY <3>1, <4>1 DEF Served, Quiet, Awaits, front
      <4>3. ans' = ans
        BY <2>1, <2>2, <3>1, <4>2
      <4> QED  BY <2>4, <3>2, <4>1, <4>3
    <3>5. CASE SwitchProgram(mem[curr_pid])
      <4>1. /\ req[curr_pid] \in Waiting \cup Leaving
            /\ curr_pid' \in Program /\ req[curr_pid'] \in Waiting
            /\ pc[curr_pid'] = "wait" /\ bpc' = "copyout"
        BY <2>8, <3>5, SwitchInv DEF Serve
      <4>2. ask[curr_pid'] = req[curr_pid']
        BY <2>3, <4>1 DEF AskedOf, InCall
      <4>3. ans' = [ans EXCEPT ![curr_pid'] = req[curr_pid']]
        BY <3>3, <4>1
      <4>4. Turn!Switch(curr_pid, curr_pid')
        BY <3>2, <4>1, <4>2, <4>3 DEF ask, ans, Turn!Switch, Turn!Switching
      <4> QED  BY <2>4, <3>1, <4>1, <4>4
    <3>6. CASE TakeInstructions(mem[curr_pid]) \/ Respond(mem[curr_pid])
      <4>1. req[curr_pid] \in Plain /\ bpc' = "copyout" /\ curr_pid' = curr_pid
        BY <2>8, <3>6, TakeInv, RespondInv DEF Serve, Plain
      <4>2. ans' = [ans EXCEPT ![curr_pid] = req[curr_pid]]
        BY <3>1, <3>3, <4>1
      <4>3. Turn!Answer(curr_pid)
        BY <3>2, <4>1, <4>2 DEF ask, ans, Turn!Answer
      <4> QED  BY <2>4, <3>1, <4>3
    <3> QED  BY <2>8, <3>4, <3>5, <3>6 DEF Serve
  <2>9. CASE Poll \/ CopyOut \/ Signal
    <3>1. UNCHANGED <<front, curr_pid>>
      BY <2>9 DEF Poll, CopyOut, Signal
    <3>2. \A q \in Program : AskedOf(q)' = AskedOf(q)
      BY <3>1 DEF AskedOf, front
    <3>3. \A q \in Program : Served(q)' <=> Served(q)
      BY <2>9 DEF Poll, CopyOut, Signal, Answered, Served, front, IInv, TypeOK, OneTurn,
                  Awaits, Quiet
    <3>4. ask' = ask /\ ans' = ans
      BY <2>1, <2>2, <2>3, <3>1, <3>2, <3>3 DEF front
    <3> QED  BY <2>4, <3>1, <3>4
  <2>10. CASE UNCHANGED vars
    <3>1. \A q \in Program : AskedOf(q)' = AskedOf(q) /\ (Served(q)' <=> Served(q))
      BY <2>10 DEF vars, front, back, AskedOf, Served
    <3>2. ask' = ask /\ ans' = ans
      BY <2>1, <2>2, <2>3, <2>10, <3>1 DEF vars, front
    <3> QED  BY <2>4, <2>10, <3>2 DEF vars, back
  <2> QED  BY <2>4, <2>5, <2>6, <2>7, <2>8, <2>9, <2>10
           DEF Next, Front, Proceed, Back, Terminated
<1> QED  BY <1>1, <1>2, InitInv, StepInv, PTL DEF OrderlySpec, TakesTurns, Turn!Spec
=============================================================================================
