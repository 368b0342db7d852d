---------------------------- MODULE DaemonProofs ----------------------------
(* What TLAPS proves of Daemon, for any number of clients, servers and     *)
(* configurations, and of the client's link to it (DaemonLink.tla).        *)
EXTENDS Daemon, DaemonLink, TLAPS

\* A CASE with a true guard has its value.  The translation for the SMT solver infers no
\* types for a step that may use a CASE expression; for the large records of these
\* steps, inferring them would take it longer than it is given.
LEMMA Untyped == (CASE TRUE -> 0) = 0
  OBVIOUS
USE Untyped

Pcs == Waits \cup {"idle", "activate", "config", "sfinish", "deactivate", "teardown"}
FrameSet == [pc: Pcs, cfg: Configs \cup {None}, last: Configs \cup {None}, applied: BOOLEAN, seen: SUBSET Keys]

(* The points of activate(), where a frame has a configuration.            *)
Activating == {"activate", "name", "iface", "config", "peer", "speer", "sdel", "sfinish"}

(* The call stack: a frame that runs is the newest one.                    *)
StackInv ==
    /\ stack \in Seq(Sources)
    /\ frames \in [Sources -> FrameSet]
    /\ conn \in Configs \cup {None}
    /\ \A s \in Sources : frames[s].pc \in Activating => frames[s].cfg \in Configs
    /\ \A s \in Sources : frames[s].pc \notin Waits \cup {"idle"} => stack # <<>> /\ Head(stack) = s

(* A frame about to enter deactivate() has found the flag down.            *)
FlagInv ==
    /\ deactivating \in BOOLEAN
    /\ \A s \in Sources : frames[s].pc = "deactivate" => ~deactivating
    /\ OneDeactivation

(* A frame that may be on the stack.                                       *)
GoodFrame(f) == f \in FrameSet /\ (f.pc \in Activating => f.cfg \in Configs)

(* The frames the handlers push are such frames.                           *)
LEMMA CommandGood ==
    ASSUME NEW pc \in Pcs, NEW cfg \in Configs \cup {None}, NEW last \in Configs \cup {None}, NEW applied \in BOOLEAN,
           pc \in Activating => cfg \in Configs
    PROVE  GoodFrame(Command(pc, cfg, last, applied)) /\ Command(pc, cfg, last, applied).pc = pc
BY DEF GoodFrame, Command, FrameSet

(* Frame() makes a frame without a pending command.                        *)
LEMMA FrameGood ==
    ASSUME NEW pc \in Pcs, NEW cfg \in Configs \cup {None}, pc \in Activating => cfg \in Configs
    PROVE  GoodFrame(Frame(pc, cfg)) /\ Frame(pc, cfg).pc = pc
BY CommandGood DEF Frame

(* The frame of a source that is not on the stack.                         *)
LEMMA NoFrameGood == GoodFrame(NoFrame) /\ NoFrame.pc = "idle"
BY FrameGood DEF NoFrame, Pcs, Activating

(* The frame of checkHandshake() while it waits.                           *)
LEMMA PollGood == ASSUME NEW seen \in SUBSET Keys PROVE GoodFrame(Poll(seen)) /\ Poll(seen).pc = "poll"
BY DEF GoodFrame, Poll, FrameSet, Pcs, Waits, Activating

(* Dispatching a handler keeps the stack in order.                         *)
LEMMA PushKeeps ==
    ASSUME StackInv, NEW s \in Sources, Dispatch(s), NEW f, GoodFrame(f), Push(s, f), conn' = conn
    PROVE  StackInv'
<1>1. stack' \in Seq(Sources) /\ stack' # <<>> /\ Head(stack') = s
  BY DEF StackInv, Push
<1>2. \A t \in Sources : frames[t].pc \in Waits \cup {"idle"}
  BY DEF StackInv, Dispatch
<1>3. frames' \in [Sources -> FrameSet] /\ \A t \in Sources : frames'[t] = IF t = s THEN f ELSE frames[t]
  BY DEF StackInv, Push, GoodFrame
<1> QED
  BY <1>1, <1>2, <1>3 DEF StackInv, GoodFrame

(* So does a handler that goes on.                                         *)
LEMMA GotoKeeps ==
    ASSUME StackInv, NEW s \in Sources, stack # <<>>, Head(stack) = s, NEW f, GoodFrame(f), Goto(s, f),
           conn' \in Configs \cup {None}
    PROVE  StackInv'
<1>1. frames' \in [Sources -> FrameSet] /\ \A t \in Sources : frames'[t] = IF t = s THEN f ELSE frames[t]
  BY DEF StackInv, Goto, GoodFrame
<1> QED
  BY <1>1 DEF StackInv, GoodFrame, Goto

(* And one that returns.                                                   *)
LEMMA ReturnKeeps ==
    ASSUME StackInv, NEW s \in Sources, stack # <<>>, Head(stack) = s, Return(s), conn' \in Configs \cup {None}
    PROVE  StackInv'
<1>1. frames' \in [Sources -> FrameSet] /\ \A t \in Sources : frames'[t] = IF t = s THEN NoFrame ELSE frames[t]
  BY NoFrameGood DEF StackInv, Return, GoodFrame
<1>2. stack' \in Seq(Sources)
  BY DEF StackInv, Return
<1>3. \A t \in Sources : frames'[t].pc \in Waits \cup {"idle"}
  BY <1>1, NoFrameGood DEF StackInv, FrameSet
<1> QED
  BY <1>1, <1>2, <1>3, NoFrameGood DEF StackInv, GoodFrame

(* The flag when one frame moves without entering or leaving deactivate(). *)
Inside == {"del", "teardown"}
(* The flag then still tells who is inside.                                *)
LEMMA FlagKeeps ==
    ASSUME StackInv, FlagInv, NEW s \in Sources, NEW f, GoodFrame(f), frames' = [frames EXCEPT ![s] = f],
           deactivating' = deactivating, f.pc \in Inside <=> frames[s].pc \in Inside,
           f.pc = "deactivate" => ~deactivating
    PROVE  FlagInv'
<1>1. \A t \in Sources : frames'[t] = IF t = s THEN f ELSE frames[t]
  BY DEF StackInv
<1>2. Deactivators' = Deactivators
  BY <1>1 DEF Deactivators, Inside
<1> QED
  BY <1>1, <1>2 DEF FlagInv, OneDeactivation

(* A segment of a handler that neither enters nor leaves deactivate().     *)
Ordinary(s) ==
    \E f : /\ GoodFrame(f)
           /\ Goto(s, f) \/ (Return(s) /\ f = NoFrame)
           /\ f.pc \in Inside <=> frames[s].pc \in Inside
           /\ f.pc = "deactivate" => ~deactivating

(* Such a segment keeps the stack and the flag in order.                   *)
LEMMA OrdinaryKeeps ==
    ASSUME StackInv, FlagInv, NEW s \in Sources, stack # <<>>, Head(stack) = s, Ordinary(s),
           deactivating' = deactivating, conn' \in Configs \cup {None}
    PROVE  StackInv' /\ FlagInv'
<1>1. PICK f : /\ GoodFrame(f) /\ (Goto(s, f) \/ (Return(s) /\ f = NoFrame))
               /\ (f.pc \in Inside <=> frames[s].pc \in Inside) /\ (f.pc = "deactivate" => ~deactivating)
  BY DEF Ordinary
<1>2. StackInv'
  BY <1>1, GotoKeeps, ReturnKeeps
<1>3. frames' = [frames EXCEPT ![s] = f]
  BY <1>1 DEF Goto, Return
<1> QED
  BY <1>1, <1>2, <1>3, FlagKeeps

(* Going on to a point that is neither inside nor at deactivate().         *)
Plain == Pcs \ {"del", "teardown", "deactivate"}
(* Such a move is an ordinary segment.                                     *)
LEMMA GotoOrdinary ==
    ASSUME NEW s \in Sources, frames[s].pc \notin Inside, NEW pc \in Plain,
           NEW cfg \in Configs, NEW last \in Configs \cup {None}, NEW applied \in BOOLEAN,
           Goto(s, Command(pc, cfg, last, applied))
    PROVE  Ordinary(s)
<1> DEFINE f == Command(pc, cfg, last, applied)
<1>1. GoodFrame(f) /\ f.pc = pc
  BY CommandGood DEF Plain
<1>2. pc \notin Inside /\ pc # "deactivate"
  BY DEF Plain, Inside
<1> QED
  BY <1>1, <1>2 DEF Ordinary

(* So is a return from outside deactivate().                               *)
LEMMA ReturnOrdinary ==
    ASSUME NEW s \in Sources, frames[s].pc \notin Inside, Return(s)
    PROVE  Ordinary(s)
BY NoFrameGood DEF Ordinary, Inside

(* The segments of activate() before and after its waits.                  *)
LEMMA ActivateSegments ==
    ASSUME StackInv, NEW s \in Sources,
           \/ SwitchServer(s) \/ SwitchPeerAdded(s) \/ SwitchPeerRemoved(s) \/ FinishSwitch(s)
           \/ StartTunnel(s) \/ ReuseInterface(s) \/ TunnelNamed(s) \/ InterfaceSet(s)
           \/ ConfigureInterface(s) \/ PeerAdded(s)
    PROVE  /\ stack # <<>> /\ Head(stack) = s /\ Ordinary(s)
           /\ deactivating' = deactivating /\ conn' \in Configs \cup {None}
<1> DEFINE cfg == frames[s].cfg
<1>a. conn \in Configs \cup {None}
  BY DEF StackInv
<1>b. ASSUME NEW pc \in Activating, At(s, pc)
      PROVE  stack # <<>> /\ Head(stack) = s /\ cfg \in Configs /\ frames[s].pc \notin Inside
  BY <1>b DEF At, StackInv, Activating, Inside
<1>c. {"activate", "name", "iface", "config", "peer", "speer", "sdel", "sfinish"} \subseteq Plain \cap Activating
  BY DEF Plain, Pcs, Waits, Activating
<1>1. CASE SwitchServer(s)
  <2>1. \/ \E applied \in BOOLEAN : Goto(s, Command("speer", cfg, conn, applied))
        \/ Return(s)
    BY <1>1 DEF SwitchServer, Fail
  <2> QED
    BY <1>1, <2>1, <1>a, <1>b, <1>c, GotoOrdinary, ReturnOrdinary DEF SwitchServer
<1>2. CASE SwitchPeerAdded(s)
  <2>1. \/ \E pc \in {"sfinish", "sdel"}, applied \in BOOLEAN : Goto(s, Command(pc, cfg, None, applied))
        \/ Return(s)
    BY <1>2 DEF SwitchPeerAdded, Fail, Frame
  <2> QED
    BY <1>2, <2>1, <1>a, <1>b, <1>c, GotoOrdinary, ReturnOrdinary DEF SwitchPeerAdded
<1>3. CASE SwitchPeerRemoved(s)
  <2>1. Goto(s, Command("sfinish", cfg, None, FALSE)) \/ Return(s)
    BY <1>3 DEF SwitchPeerRemoved, Fail, Frame
  <2> QED
    BY <1>3, <2>1, <1>a, <1>b, <1>c, GotoOrdinary, ReturnOrdinary DEF SwitchPeerRemoved, daemonVars
<1>4. CASE FinishSwitch(s)
  BY <1>4, <1>b, <1>c, ReturnOrdinary DEF FinishSwitch, Fail
<1>5. CASE StartTunnel(s)
  <2>1. Goto(s, Command("name", cfg, None, FALSE)) \/ Return(s)
    BY <1>5 DEF StartTunnel, Fail, Frame
  <2> QED
    BY <1>5, <2>1, <1>a, <1>b, <1>c, GotoOrdinary, ReturnOrdinary DEF StartTunnel, daemonVars
<1>6. CASE ReuseInterface(s)
  <2>1. Goto(s, Command("config", cfg, None, FALSE))
    BY <1>6 DEF ReuseInterface, Frame
  <2> QED
    BY <1>6, <2>1, <1>a, <1>b, <1>c, GotoOrdinary DEF ReuseInterface, daemonVars
<1>7. CASE TunnelNamed(s)
  <2>1. \/ \E applied \in BOOLEAN : Goto(s, Command("iface", cfg, None, applied))
        \/ Return(s)
    BY <1>7 DEF TunnelNamed, Fail
  <2> QED
    BY <1>7, <2>1, <1>a, <1>b, <1>c, GotoOrdinary, ReturnOrdinary DEF TunnelNamed
<1>8. CASE InterfaceSet(s)
  <2>1. Goto(s, Command("config", cfg, None, FALSE)) \/ Return(s)
    BY <1>8 DEF InterfaceSet, Fail, Frame
  <2> QED
    BY <1>8, <2>1, <1>a, <1>b, <1>c, GotoOrdinary, ReturnOrdinary DEF InterfaceSet, daemonVars
<1>9. CASE ConfigureInterface(s)
  <2>1. \/ \E applied \in BOOLEAN : Goto(s, Command("peer", cfg, None, applied))
        \/ Return(s)
    BY <1>9 DEF ConfigureInterface, Fail
  <2> QED
    BY <1>9, <2>1, <1>a, <1>b, <1>c, GotoOrdinary, ReturnOrdinary DEF ConfigureInterface
<1>10. CASE PeerAdded(s)
  <2>1. Return(s)
    BY <1>10 DEF PeerAdded, Fail
  <2> QED
    BY <1>10, <2>1, <1>a, <1>b, <1>c, ReturnOrdinary DEF PeerAdded
<1> QED
  BY <1>1, <1>2, <1>3, <1>4, <1>5, <1>6, <1>7, <1>8, <1>9, <1>10

(* activate() before a replacement: it fails, or enters deactivate() with  *)
(* the flag down.                                                          *)
LEMMA ReplaceSegment ==
    ASSUME StackInv, NEW s \in Sources, ReplaceConnection(s)
    PROVE  /\ stack # <<>> /\ Head(stack) = s /\ Ordinary(s)
           /\ deactivating' = deactivating /\ conn' \in Configs \cup {None}
<1>1. stack # <<>> /\ Head(stack) = s /\ frames[s].cfg \in Configs /\ frames[s].pc \notin Inside
  BY DEF ReplaceConnection, At, StackInv, Activating, Inside
<1>2. deactivating' = deactivating /\ conn' \in Configs \cup {None}
  BY DEF ReplaceConnection, daemonVars, StackInv
<1>3. CASE deactivating
  BY <1>1, <1>2, <1>3, ReturnOrdinary DEF ReplaceConnection, Fail
<1>4. CASE ~deactivating
  <2> DEFINE f == Frame("deactivate", frames[s].cfg)
  <2>1. GoodFrame(f) /\ f.pc = "deactivate"
    BY <1>1, FrameGood DEF Pcs, Activating
  <2>2. Goto(s, f)
    BY <1>4 DEF ReplaceConnection
  <2> QED
    BY <1>1, <1>2, <1>4, <2>1, <2>2 DEF Ordinary, Inside
<1> QED
  BY <1>3, <1>4

(* deactivate() raises the flag; nobody else was inside.                   *)
LEMMA BeginKeeps ==
    ASSUME StackInv, FlagInv, NEW s \in Sources, BeginDeactivate(s)
    PROVE  StackInv' /\ FlagInv'
<1> DEFINE cfg == frames[s].cfg
<1>1. stack # <<>> /\ Head(stack) = s /\ cfg \in Configs \cup {None} /\ ~deactivating
  BY DEF BeginDeactivate, At, StackInv, FlagInv, FrameSet
<1>2. PICK pc \in Inside : Goto(s, Frame(pc, cfg))
  BY DEF BeginDeactivate, Inside
<1> DEFINE f == Frame(pc, cfg)
<1>3. GoodFrame(f) /\ f.pc = pc
  BY <1>1, <1>2, FrameGood DEF Pcs, Waits, Activating, Inside
<1>4. deactivating' = TRUE /\ conn' = conn
  BY DEF BeginDeactivate
<1>5. StackInv'
  BY <1>1, <1>2, <1>3, <1>4, GotoKeeps DEF StackInv
<1>6. \A t \in Sources : frames'[t] = IF t = s THEN f ELSE frames[t]
  BY <1>2 DEF Goto, StackInv
<1>7. Deactivators = {}
  BY <1>1 DEF FlagInv, OneDeactivation
<1>8. Deactivators' = {s}
  BY <1>3, <1>6, <1>7 DEF Deactivators, Inside
<1>9. \A t \in Sources : frames'[t].pc # "deactivate"
  <2>1. \A t \in Sources : frames[t].pc = "deactivate" => t = s
    BY <1>1 DEF StackInv, Waits
  <2> QED
    BY <1>3, <1>6, <2>1 DEF Inside
<1> QED
  BY <1>4, <1>5, <1>8, <1>9 DEF FlagInv, OneDeactivation

(* The wait inside deactivate() ends.                                      *)
LEMMA RemovedKeeps ==
    ASSUME StackInv, FlagInv, NEW s \in Sources, PeerRemoved(s)
    PROVE  StackInv' /\ FlagInv'
<1> DEFINE f == Frame("teardown", frames[s].cfg)
<1>1. stack # <<>> /\ Head(stack) = s /\ frames[s].cfg \in Configs \cup {None} /\ frames[s].pc = "del"
  BY DEF PeerRemoved, At, StackInv, FrameSet
<1>2. GoodFrame(f) /\ f.pc = "teardown"
  BY <1>1, FrameGood DEF Pcs, Activating
<1>3. Ordinary(s)
  BY <1>1, <1>2 DEF PeerRemoved, Ordinary, Inside
<1> QED
  BY <1>1, <1>3, OrdinaryKeeps DEF PeerRemoved, daemonVars, StackInv

(* deactivate() takes the flag down, and the only frame inside leaves.     *)
LEMMA TeardownKeeps ==
    ASSUME StackInv, FlagInv, NEW s \in Sources, Teardown(s)
    PROVE  StackInv' /\ FlagInv'
<1> DEFINE cfg == frames[s].cfg
<1>1. stack # <<>> /\ Head(stack) = s /\ cfg \in Configs \cup {None} /\ frames[s].pc = "teardown"
  BY DEF Teardown, At, StackInv, FrameSet
<1>2. deactivating' = FALSE /\ conn' = None
  BY DEF Teardown
<1>3. \/ Return(s)
      \/ cfg # None /\ Goto(s, Frame("activate", cfg))
  BY DEF Teardown, Fail
<1>4. cfg # None => GoodFrame(Frame("activate", cfg)) /\ Frame("activate", cfg).pc = "activate"
  BY <1>1, FrameGood DEF Pcs
<1>5. StackInv'
  BY <1>1, <1>2, <1>3, <1>4, GotoKeeps, ReturnKeeps
<1>6. PICK f : frames' = [frames EXCEPT ![s] = f] /\ f.pc \in {"idle", "activate"}
  BY <1>3, <1>4, NoFrameGood DEF Return, Goto
<1>7. \A t \in Sources : frames'[t] = IF t = s THEN f ELSE frames[t]
  BY <1>6 DEF StackInv
<1>8. \A t \in Deactivators : t = s
  BY <1>1 DEF FlagInv, OneDeactivation, Deactivators
<1>9. Deactivators' = {}
  BY <1>6, <1>7, <1>8 DEF Deactivators
<1> QED
  BY <1>2, <1>5, <1>9 DEF FlagInv, OneDeactivation

(* A dispatched handler starts outside deactivate().                       *)
LEMMA PushFlagKeeps ==
    ASSUME StackInv, FlagInv, NEW s \in Sources, Dispatch(s), NEW f, GoodFrame(f), Push(s, f),
           f.pc \notin Inside, f.pc = "deactivate" => ~deactivating, conn' = conn, deactivating' = deactivating
    PROVE  StackInv' /\ FlagInv'
<1>1. StackInv'
  BY PushKeeps
<1>2. frames[s].pc \notin Inside /\ frames' = [frames EXCEPT ![s] = f]
  BY DEF Dispatch, Push, Inside
<1> QED
  BY <1>1, <1>2, FlagKeeps

(* The stack and the flag where no handler moves.                          *)
LEMMA StutterKeeps ==
    ASSUME StackInv, FlagInv, UNCHANGED <<conn, deactivating, stack, frames>>
    PROVE  StackInv' /\ FlagInv'
BY DEF StackInv, FlagInv, OneDeactivation, Deactivators

(* Every step of the daemon keeps both.                                    *)
LEMMA StepKeeps ==
    ASSUME StackInv, FlagInv, [Next]_vars
    PROVE  StackInv' /\ FlagInv'
<1> Clients \subseteq Sources /\ Timer \in Sources /\ Closing \in Sources
  BY DEF Sources
<1>1. ASSUME NEW c \in Clients, NEW cfg \in Configs, Activate(c, cfg) PROVE StackInv' /\ FlagInv'
  <2>1. GoodFrame(Frame("activate", cfg)) /\ Frame("activate", cfg).pc = "activate"
    BY FrameGood DEF Pcs
  <2> QED
    BY <1>1, <2>1, PushFlagKeeps DEF Activate, daemonVars, Inside
<1>2. GoodFrame(Frame("deactivate", None)) /\ Frame("deactivate", None).pc = "deactivate"
  BY FrameGood DEF Pcs, Activating
<1>3. ASSUME NEW c \in Clients, Deactivate(c) PROVE StackInv' /\ FlagInv'
  BY <1>2, <1>3, PushFlagKeeps DEF Deactivate, daemonVars, Inside
<1>4. ASSUME NEW c \in Clients, GetStatus(c) PROVE StackInv' /\ FlagInv'
  <2>1. GoodFrame(Frame("status", None)) /\ Frame("status", None).pc = "status"
    BY FrameGood DEF Pcs, Waits, Activating
  <2> QED
    BY <1>4, <2>1, PushFlagKeeps DEF GetStatus, daemonVars, Inside
<1>5. ASSUME NEW c \in Clients, StatusAnswered(c) PROVE StackInv' /\ FlagInv'
  <2>1. Ordinary(c) /\ stack # <<>> /\ Head(stack) = c
    BY <1>5, ReturnOrdinary DEF StatusAnswered, At, Inside
  <2> QED
    BY <1>5, <2>1, OrdinaryKeeps DEF StatusAnswered, daemonVars, StackInv
<1>6. ASSUME NEW c \in Clients, OpenSocket(c) PROVE StackInv' /\ FlagInv'
  BY <1>6, StutterKeeps DEF OpenSocket, daemonVars
<1>7. ASSUME NEW c \in Clients, CloseSocket(c) PROVE StackInv' /\ FlagInv'
  <2>1. CASE open' = {} /\ ~deactivating
    BY <1>2, <1>7, <2>1, PushFlagKeeps DEF CloseSocket, daemonVars, Inside
  <2>2. CASE ~(open' = {} /\ ~deactivating)
    BY <1>7, <2>2, StutterKeeps DEF CloseSocket, daemonVars
  <2> QED
    BY <2>1, <2>2
<1>8. ASSUME NEW s \in Sources, Segment(s) PROVE StackInv' /\ FlagInv'
  BY <1>8, ActivateSegments, ReplaceSegment, OrdinaryKeeps, BeginKeeps, RemovedKeeps, TeardownKeeps DEF Segment
<1>9. CASE CheckHandshake
  <2> DEFINE f == Poll({k \in Keys : peers[k] = "shook"})
  <2>1. GoodFrame(f) /\ f.pc = "poll"
    BY PollGood
  <2>2. CASE Reachable
    BY <1>9, <2>1, <2>2, PushFlagKeeps DEF CheckHandshake, Inside
  <2>3. CASE ~Reachable
    BY <1>9, <2>3, StutterKeeps DEF CheckHandshake
  <2> QED
    BY <2>2, <2>3
<1>10. CASE HandshakeChecked
  <2>1. Ordinary(Timer) /\ stack # <<>> /\ Head(stack) = Timer
    BY <1>10, ReturnOrdinary DEF HandshakeChecked, At, Inside
  <2> QED
    BY <1>10, <2>1, OrdinaryKeeps DEF HandshakeChecked, StackInv
<1>11. CASE ReleaseOrphanSession
  <2>1. CASE ~deactivating
    BY <1>2, <1>11, <2>1, PushFlagKeeps DEF ReleaseOrphanSession, daemonVars, Inside
  <2>2. CASE deactivating
    BY <1>11, <2>2, StutterKeeps DEF ReleaseOrphanSession, daemonVars
  <2> QED
    BY <2>1, <2>2
<1>12. CASE TunnelReady
  BY <1>12, StutterKeeps DEF TunnelReady, daemonVars
<1>13. CASE TunnelDies
  BY <1>13, StutterKeeps DEF TunnelDies, daemonVars
<1>14. ASSUME NEW k \in Keys, Handshake(k) PROVE StackInv' /\ FlagInv'
  BY <1>14, StutterKeeps DEF Handshake, daemonVars
<1>15. CASE UNCHANGED vars
  BY <1>15, StutterKeeps DEF vars, daemonVars
<1> QED
  BY <1>1, <1>3, <1>4, <1>5, <1>6, <1>7, <1>8, <1>9, <1>10, <1>11, <1>12, <1>13, <1>14, <1>15 DEF Next

(* Both hold at the start.                                                 *)
LEMMA InitKeeps == Init => StackInv /\ FlagInv
<1> SUFFICES ASSUME Init PROVE StackInv /\ FlagInv
  OBVIOUS
<1>1. \A s \in Sources : frames[s] = NoFrame
  BY DEF Init
<1>2. frames \in [Sources -> FrameSet] /\ stack \in Seq(Sources)
  BY NoFrameGood DEF Init, GoodFrame
<1>3. StackInv
  BY <1>1, <1>2, NoFrameGood DEF Init, StackInv, Activating
<1>4. Deactivators = {}
  BY <1>1, NoFrameGood DEF Deactivators
<1> QED
  BY <1>1, <1>3, <1>4, NoFrameGood DEF Init, FlagInv, OneDeactivation

(* For any number of clients and any configurations, m_deactivating is set *)
(* exactly while one handler is inside deactivate(), however the handlers  *)
(* nest in the event loops of uapiCommand() and waitForTunnelName().       *)
THEOREM DeactivationExclusive == Spec => []OneDeactivation
<1>1. StackInv /\ FlagInv => OneDeactivation
  BY DEF FlagInv
<1> QED
  BY <1>1, InitKeeps, StepKeeps, PTL DEF Spec
-----------------------------------------------------------------------------
(* Every route around the tunnel is counted, and there is none without a   *)
(* monitor.                                                                *)
Counted == {a \in Addrs : excl[a] > 0}
RouteInv ==
    /\ rtm \in BOOLEAN
    /\ excl \in [Addrs -> Nat]
    /\ exr \subseteq Counted
    /\ NoRouteLeak

(* Configuring a tunnel counts every route that it adds, the server's      *)
(* too.                                                                    *)
LEMMA AddRoutes ==
    ASSUME RouteInv, NEW cfg \in Configs, AddExclusions(cfg), rtm' = rtm,
           exr' = exr \cup NewExclusions(cfg) \cup ServerRoute(cfg)
    PROVE  RouteInv'
<1>1. excl' \in [Addrs -> Nat]
  BY DEF AddExclusions, RouteInv
<1>2. \A a \in Addrs : excl[a] > 0 => excl'[a] > 0
  BY DEF AddExclusions, RouteInv, NewExclusions
<1>3. NewExclusions(cfg) \subseteq Counted'
  BY ConfigsAssumption DEF AddExclusions, RouteInv, NewExclusions, Counted
<1>4. ServerRoute(cfg) \subseteq Counted'
  <2> SUFFICES ASSUME cfg.server \notin BadAddrs, rtm PROVE cfg.server \in Counted'
    BY DEF ServerRoute
  <2>1. cfg.server \in Addrs /\ cfg.server \in cfg.excluded
    BY ConfigsAssumption
  <2>2. CASE excl[cfg.server] = 0
    BY <2>1, <2>2, <1>3 DEF NewExclusions
  <2>3. CASE excl[cfg.server] # 0
    BY <2>1, <2>3, <1>2 DEF RouteInv, Counted
  <2> QED
    BY <2>2, <2>3
<1>5. ~rtm => NewExclusions(cfg) = {} /\ ServerRoute(cfg) = {}
  BY DEF NewExclusions, ServerRoute
<1> QED
  BY <1>1, <1>2, <1>3, <1>4, <1>5 DEF RouteInv, NoRouteLeak, Counted

(* Dropping the exclusions of the old configuration drops the routes whose *)
(* last reference it was.                                                  *)
LEMMA DropRoutes ==
    ASSUME RouteInv, NEW cfg, DelExclusions(cfg), rtm' = rtm, NEW more,
           exr' = IF rtm THEN exr \ (LastExclusions(cfg) \cup more) ELSE exr
    PROVE  RouteInv'
<1>1. excl' \in [Addrs -> Nat]
  BY DEF DelExclusions, RouteInv
<1>2. \A a \in Counted \ LastExclusions(cfg) : excl'[a] > 0
  BY DEF DelExclusions, RouteInv, LastExclusions, Counted
<1> QED
  BY <1>1, <1>2 DEF RouteInv, NoRouteLeak, Counted

(* A step that leaves the counts and the monitor alone and adds no route.  *)
LEMMA SameRoutes ==
    ASSUME RouteInv, UNCHANGED <<rtm, excl>>, exr' \subseteq exr
    PROVE  RouteInv'
BY DEF RouteInv, NoRouteLeak, Counted

(* Every step of a handler.                                                *)
LEMMA SegmentRoutes ==
    ASSUME StackInv, RouteInv, NEW s \in Sources, Segment(s)
    PROVE  RouteInv'
<1> DEFINE cfg == frames[s].cfg
<1>1. CASE SwitchServer(s)
  <2>1. cfg \in Configs
    BY <1>1 DEF SwitchServer, At, StackInv, Activating
  <2> QED
    BY <1>1, <2>1, AddRoutes DEF SwitchServer
<1>2. CASE SwitchPeerAdded(s)
  <2> DEFINE last == frames[s].last
  <2>1. CASE UNCHANGED <<excl, exr>>
    BY <1>2, <2>1, SameRoutes DEF SwitchPeerAdded
  <2>2. CASE DelExclusions(last) /\ exr' = IF rtm THEN exr \ LastExclusions(last) ELSE exr
    <3>1. exr' = IF rtm THEN exr \ (LastExclusions(last) \cup {}) ELSE exr
      BY <2>2
    <3> QED
      BY <1>2, <2>2, <3>1, DropRoutes DEF SwitchPeerAdded
  <2>3. CASE DelExclusions(last) /\ exr' = IF rtm THEN exr \ (LastExclusions(last) \cup ServerRoute(last)) ELSE exr
    BY <1>2, <2>3, DropRoutes DEF SwitchPeerAdded
  <2> QED
    BY <1>2, <2>1, <2>2, <2>3 DEF SwitchPeerAdded
<1>3. CASE ConfigureInterface(s)
  <2>1. cfg \in Configs
    BY <1>3 DEF ConfigureInterface, At, StackInv, Activating
  <2>2. CASE AddExclusions(cfg) /\ exr' = exr \cup NewExclusions(cfg) \cup ServerRoute(cfg)
    BY <1>3, <2>1, <2>2, AddRoutes DEF ConfigureInterface
  <2>3. CASE UNCHANGED <<excl, exr>>
    BY <1>3, <2>3, SameRoutes DEF ConfigureInterface
  <2> QED
    BY <1>3, <2>2, <2>3 DEF ConfigureInterface
<1>4. CASE Teardown(s)
  <2>1. excl' \in [Addrs -> Nat] /\ rtm' = FALSE
    BY <1>4 DEF Teardown
  <2>2. exr' = {}
    BY <1>4 DEF Teardown, RouteInv, NoRouteLeak, Counted
  <2> QED
    BY <2>1, <2>2 DEF RouteInv, NoRouteLeak
<1>5. CASE TunnelNamed(s)
  <2>1. CASE rtm' = TRUE
    BY <1>5, <2>1 DEF TunnelNamed, RouteInv, NoRouteLeak, Counted
  <2>2. CASE UNCHANGED rtm
    BY <1>5, <2>2, SameRoutes DEF TunnelNamed
  <2> QED
    BY <1>5, <2>1, <2>2 DEF TunnelNamed
<1>6. CASE BeginDeactivate(s)
  BY <1>6, SameRoutes DEF BeginDeactivate
<1>7. CASE \/ SwitchPeerRemoved(s) \/ FinishSwitch(s) \/ ReplaceConnection(s) \/ StartTunnel(s) \/ ReuseInterface(s)
           \/ InterfaceSet(s) \/ PeerAdded(s) \/ PeerRemoved(s)
  <2>1. UNCHANGED <<rtm, excl, exr>>
    BY <1>7 DEF SwitchPeerRemoved, FinishSwitch, ReplaceConnection, StartTunnel, ReuseInterface, InterfaceSet,
                PeerAdded, PeerRemoved, daemonVars
  <2> QED
    BY <2>1, SameRoutes
<1> QED
  BY <1>1, <1>2, <1>3, <1>4, <1>5, <1>6, <1>7 DEF Segment

(* Every step of the daemon.                                               *)
LEMMA StepRoutes ==
    ASSUME StackInv, RouteInv, [Next]_vars
    PROVE  RouteInv'
<1>1. CASE \E s \in Sources : Segment(s)
  BY <1>1, SegmentRoutes
<1>2. CASE ~\E s \in Sources : Segment(s)
  <2>1. UNCHANGED <<rtm, excl, exr>>
    BY <1>2 DEF Next, Activate, Deactivate, GetStatus, StatusAnswered, OpenSocket, CloseSocket, CheckHandshake,
                HandshakeChecked, ReleaseOrphanSession, TunnelReady, TunnelDies, Handshake, daemonVars, vars
  <2> QED
    BY <2>1, SameRoutes
<1> QED
  BY <1>1, <1>2

(* At start there is no route.                                             *)
LEMMA InitRoutes == Init => RouteInv
<1> SUFFICES ASSUME Init PROVE RouteInv
  OBVIOUS
<1>1. rtm \in BOOLEAN /\ exr = {}
  BY Zenon DEF Init
<1>2. excl \in [Addrs -> Nat]
  BY DEF Init
<1> QED
  BY <1>1, <1>2 DEF RouteInv, NoRouteLeak

(* For any number of clients and any configurations, no route around the   *)
(* tunnel survives the route monitor that could remove it.                 *)
THEOREM NoRouteLeaks == Spec => []NoRouteLeak
<1>1. RouteInv => NoRouteLeak
  BY DEF RouteInv
<1> QED
  BY <1>1, InitRoutes, InitKeeps, StepKeeps, StepRoutes, PTL DEF Spec
-----------------------------------------------------------------------------
(* A switch that waits for its new peer knows the configuration it         *)
(* replaces.                                                               *)
SwitchInv == \A s \in Sources : frames[s].pc = "speer" => frames[s].last \in Configs

(* Only the frame of s moves, and not to a waiting switch.                 *)
Elsewhere(s) == frames'[s].pc # "speer" /\ \A t \in Sources : t # s => frames'[t] = frames[t]

(* Every step of a handler: only switchServer() itself makes such a frame. *)
LEMMA SegmentFrame ==
    ASSUME StackInv, NEW s \in Sources, Segment(s), ~SwitchServer(s)
    PROVE  Elsewhere(s)
<1>0. frames \in [Sources -> FrameSet]
  BY DEF StackInv
<1>1. CASE SwitchPeerAdded(s)
  BY <1>0, <1>1 DEF Frame, Command, NoFrame, SwitchPeerAdded, Goto, Fail, Return, Elsewhere
<1>2. CASE SwitchPeerRemoved(s)
  BY <1>0, <1>2 DEF Frame, Command, NoFrame, SwitchPeerRemoved, Goto, Fail, Return, Elsewhere
<1>3. CASE FinishSwitch(s)
  BY <1>0, <1>3, SMTT(30) DEF Frame, Command, NoFrame, FinishSwitch, Goto, Fail, Return, Elsewhere
<1>4. CASE ReplaceConnection(s)
  BY <1>0, <1>4 DEF Frame, Command, NoFrame, ReplaceConnection, Goto, Fail, Return, Elsewhere
<1>5. CASE StartTunnel(s)
  BY <1>0, <1>5 DEF Frame, Command, NoFrame, StartTunnel, Goto, Fail, Return, Elsewhere
<1>6. CASE ReuseInterface(s)
  BY <1>0, <1>6 DEF Frame, Command, ReuseInterface, Goto, Elsewhere
<1>7. CASE TunnelNamed(s)
  BY <1>0, <1>7 DEF Frame, Command, NoFrame, TunnelNamed, Goto, Fail, Return, Elsewhere
<1>8. CASE InterfaceSet(s)
  BY <1>0, <1>8 DEF Frame, Command, NoFrame, InterfaceSet, Goto, Fail, Return, Elsewhere
<1>9. CASE ConfigureInterface(s)
  BY <1>0, <1>9 DEF Frame, Command, NoFrame, ConfigureInterface, Goto, Fail, Return, Elsewhere
<1>10. CASE PeerAdded(s)
  BY <1>0, <1>10, SMTT(30) DEF Frame, Command, NoFrame, PeerAdded, Goto, Fail, Return, Elsewhere
<1>11. CASE BeginDeactivate(s)
  BY <1>0, <1>11 DEF Frame, Command, BeginDeactivate, Goto, Elsewhere
<1>12. CASE PeerRemoved(s)
  BY <1>0, <1>12 DEF Frame, Command, PeerRemoved, Goto, Elsewhere
<1>13. CASE Teardown(s)
  BY <1>0, <1>13 DEF Frame, Command, NoFrame, Teardown, Goto, Fail, Return, Elsewhere
<1> QED
  BY <1>1, <1>2, <1>3, <1>4, <1>5, <1>6, <1>7, <1>8, <1>9, <1>10, <1>11, <1>12, <1>13 DEF Segment

(* Every step of the daemon.                                               *)
LEMMA StepSwitch ==
    ASSUME StackInv, SwitchInv, [Next]_vars
    PROVE  SwitchInv'
<1>0. frames \in [Sources -> FrameSet]
  BY DEF StackInv
<1>1. ASSUME NEW s \in Sources, SwitchServer(s) PROVE SwitchInv'
  <2> DEFINE cfg == frames[s].cfg
  <2>1. conn \in Configs
    BY <1>1 DEF SwitchServer, SupportServerSwitching, StackInv
  <2>2. (\E applied \in BOOLEAN : Goto(s, Command("speer", cfg, conn, applied))) \/ Return(s)
    BY <1>1 DEF SwitchServer, Fail
  <2>3. CASE Return(s)
    BY <1>0, <2>3 DEF Frame, Command, NoFrame, Return, SwitchInv
  <2>4. ASSUME NEW applied \in BOOLEAN, Goto(s, Command("speer", cfg, conn, applied)) PROVE SwitchInv'
    <3>1. frames'[s].last = conn
      BY <1>0, <2>4 DEF Command, Goto
    <3> QED
      BY <1>0, <2>1, <2>4, <3>1 DEF Goto, SwitchInv
  <2> QED
    BY <2>2, <2>3, <2>4
<1>2. ASSUME NEW s \in Sources, Elsewhere(s) PROVE SwitchInv'
  BY <1>2 DEF Elsewhere, SwitchInv
<1>3. Timer \in Sources /\ Closing \in Sources /\ Clients \subseteq Sources
  BY DEF Sources
<1>4. ASSUME NEW c \in Clients, (\E cfg \in Configs : Activate(c, cfg)) \/ Deactivate(c) \/ GetStatus(c) \/ StatusAnswered(c)
      PROVE Elsewhere(c)
  BY <1>0, <1>3, <1>4, SMTT(30) DEF Frame, Command, NoFrame, Activate, Deactivate, GetStatus, StatusAnswered, Push, Return, Elsewhere
<1>5. ASSUME (\E c \in Clients : CloseSocket(c)) \/ ReleaseOrphanSession PROVE UNCHANGED frames \/ Elsewhere(Closing)
  BY <1>0, <1>3, <1>5, SMTT(30) DEF Frame, Command, CloseSocket, ReleaseOrphanSession, Push, Elsewhere
<1>6. ASSUME CheckHandshake \/ HandshakeChecked PROVE UNCHANGED frames \/ Elsewhere(Timer)
  BY <1>0, <1>3, <1>6, SMTT(30) DEF Frame, Command, NoFrame, Poll, CheckHandshake, HandshakeChecked, Push, Return, Elsewhere
<1>7. ASSUME \/ UNCHANGED vars \/ TunnelReady \/ TunnelDies \/ (\E k \in Keys : Handshake(k)) \/ (\E c \in Clients : OpenSocket(c))
      PROVE UNCHANGED frames
  BY <1>7 DEF TunnelReady, TunnelDies, Handshake, OpenSocket, vars
<1>8. UNCHANGED frames => SwitchInv'
  BY DEF SwitchInv
<1> QED
  BY <1>1, <1>2, <1>3, <1>4, <1>5, <1>6, <1>7, <1>8, SegmentFrame DEF Next

(* Adding the exclusions of a configuration adds the routes it counts.     *)
LEMMA AddExclusionRoutes ==
    ASSUME RouteInv, ExclusionsHaveRoutes, NEW cfg, AddExclusions(cfg), exr \cup NewExclusions(cfg) \subseteq exr'
    PROVE  ExclusionsHaveRoutes'
BY DEF RouteInv, ExclusionsHaveRoutes, AddExclusions

(* Dropping them keeps the routes that are still counted; a server's route *)
(* goes whatever its count.                                                *)
LEMMA DropExclusionRoutes ==
    ASSUME RouteInv, ExclusionsHaveRoutes, NEW cfg, DelExclusions(cfg), exr \ (LastExclusions(cfg) \cup Servers) \subseteq exr'
    PROVE  ExclusionsHaveRoutes'
BY DEF RouteInv, ExclusionsHaveRoutes, DelExclusions, LastExclusions

(* The route of a server is one of Servers.                                *)
LEMMA ServerRouteIsServers == ASSUME NEW cfg \in Configs PROVE ServerRoute(cfg) \subseteq Servers
BY DEF ServerRoute, Servers

(* Every step of the daemon.                                               *)
LEMMA StepExclusions ==
    ASSUME StackInv, SwitchInv, RouteInv, ExclusionsHaveRoutes, [Next]_vars
    PROVE  ExclusionsHaveRoutes'
<1>1. ASSUME NEW s \in Sources, SwitchServer(s) PROVE ExclusionsHaveRoutes'
  BY <1>1, AddExclusionRoutes DEF SwitchServer
<1>2. ASSUME NEW s \in Sources, ConfigureInterface(s) PROVE ExclusionsHaveRoutes'
  <2>1. UNCHANGED <<excl, exr>> \/ (AddExclusions(frames[s].cfg) /\ exr \cup NewExclusions(frames[s].cfg) \subseteq exr')
    BY <1>2 DEF ConfigureInterface
  <2>2. UNCHANGED <<excl, exr>> => ExclusionsHaveRoutes'
    BY DEF ExclusionsHaveRoutes
  <2> QED
    BY <2>1, <2>2, AddExclusionRoutes
<1>3. ASSUME NEW s \in Sources, SwitchPeerAdded(s) PROVE ExclusionsHaveRoutes'
  <2> DEFINE last == frames[s].last
  <2>1. last \in Configs
    BY <1>3 DEF SwitchPeerAdded, At, SwitchInv
  <2>2. ServerRoute(last) \subseteq Servers
    BY <2>1, ServerRouteIsServers
  <2>3. UNCHANGED <<excl, exr>> \/ (DelExclusions(last) /\ exr \ (LastExclusions(last) \cup Servers) \subseteq exr')
    BY <1>3, <2>2 DEF SwitchPeerAdded
  <2>4. UNCHANGED <<excl, exr>> => ExclusionsHaveRoutes'
    BY DEF ExclusionsHaveRoutes
  <2> QED
    BY <2>3, <2>4, DropExclusionRoutes
<1>4. ASSUME NEW s \in Sources, BeginDeactivate(s) PROVE ExclusionsHaveRoutes'
  <2>1. excl' = excl /\ exr \ Servers \subseteq exr'
    BY <1>4, ServerRouteIsServers DEF BeginDeactivate, StackInv
  <2> QED
    BY <2>1 DEF ExclusionsHaveRoutes
<1>5. ASSUME NEW s \in Sources, Teardown(s) PROVE ExclusionsHaveRoutes'
  BY <1>5 DEF Teardown, ExclusionsHaveRoutes
<1>6. CASE UNCHANGED <<excl, exr>>
  BY <1>6 DEF ExclusionsHaveRoutes
<1>7. ASSUME NEW s \in Sources, Segment(s)
      PROVE  \/ UNCHANGED <<excl, exr>> \/ SwitchServer(s) \/ ConfigureInterface(s) \/ SwitchPeerAdded(s)
             \/ BeginDeactivate(s) \/ Teardown(s)
  BY <1>7 DEF Segment, SwitchPeerRemoved, FinishSwitch, ReplaceConnection, StartTunnel, ReuseInterface, TunnelNamed, InterfaceSet,
              PeerAdded, PeerRemoved, daemonVars
<1>8. ASSUME ~\E s \in Sources : Segment(s) PROVE UNCHANGED <<excl, exr>>
  BY <1>8 DEF Next, Activate, Deactivate, GetStatus, StatusAnswered, OpenSocket, CloseSocket, CheckHandshake,
              HandshakeChecked, ReleaseOrphanSession, TunnelReady, TunnelDies, Handshake, daemonVars, vars
<1> QED
  BY <1>1, <1>2, <1>3, <1>4, <1>5, <1>6, <1>7, <1>8

(* For any number of clients and any configurations: an excluded address   *)
(* that is counted has its route, also while handlers wait below others    *)
(* and when the wireguard-go process has died.                             *)
THEOREM ExclusionsAreRouted == Spec => []ExclusionsHaveRoutes
<1>1. Init => RouteInv /\ SwitchInv /\ ExclusionsHaveRoutes
  <2> SUFFICES ASSUME Init PROVE RouteInv /\ SwitchInv /\ ExclusionsHaveRoutes
    OBVIOUS
  <2>1. RouteInv
    BY InitRoutes
  <2>2. SwitchInv
    BY DEF Frame, Command, NoFrame, Init, SwitchInv
  <2>3. ExclusionsHaveRoutes
    BY DEF Init, ExclusionsHaveRoutes
  <2> QED
    BY <2>1, <2>2, <2>3
<1> QED
  BY <1>1, InitKeeps, StepKeeps, StepRoutes, StepSwitch, StepExclusions, PTL DEF Spec

-----------------------------------------------------------------------------
(* DaemonLink: the values of the two ends.                                 *)
LinkStates == {"initializing", "ready"}
LinkSet == [state : LinkStates, retry : Nat, timer : BOOLEAN, sock : BOOLEAN]
Requests == {"status", "activate", "deactivate"}
Replies == {"status", "connected", "disconnected"}
Shown == {"Disconnected", "Connecting", "Connected"}
LinkRefs == LinkIds \cup {NoLink}
EndsSet ==
    [up : BOOLEAN, made : 0 .. MaxLinks, cur : LinkRefs, link : LinkSet, ends : SUBSET LinkIds, queued : SUBSET LinkIds,
     toDaemon : [LinkIds -> Seq(Requests)], toClient : Seq(Replies), shown : Shown, conn : LinkRefs, shook : BOOLEAN, lost : BOOLEAN]

(* A reply of this name is under way.                                      *)
UnderWay(s, msg) == \E m \in DOMAIN s.toClient : s.toClient[m] = msg

(* The client's end.                                                       *)
ClientEnd(s) ==
    /\ (s.cur # NoLink => s.cur = s.made) /\ \A i \in s.ends \cup s.queued : i <= s.made
    /\ s.ends \cap s.queued = {}
    /\ s.cur = NoLink => s.toClient = <<>> /\ s.link.state = "initializing"  /\ ~s.link.timer
    /\ s.cur # NoLink /\ ~s.link.sock => s.cur \notin s.ends \cup s.queued /\ s.toClient = <<>>
    /\ s.cur \in s.queued => s.link.state = "initializing" /\ s.toClient = <<>>
    /\ s.link.timer => ~s.link.sock
    /\ s.shown = "Connected" => s.link.state = "ready" /\ s.link.sock

(* While an older socket is still to be read, the current one has not got  *)
(* its first status, so it ignores what it is told.                        *)
OldFirst(s) ==
    s.cur \in s.ends /\ (\E j \in LinkIds : j < s.cur /\ s.toDaemon[j] # <<>>) =>
        s.link.state = "initializing" /\ ~UnderWay(s, "status")

(* The reply at position k will be listened to.                            *)
Heard(s, k) == s.link.state = "ready" \/ \E m \in DOMAIN s.toClient : m < k /\ s.toClient[m] = "status"

(* Without an activation in force, what the client shows or will be told   *)
(* to show is taken back by a later message.                               *)
TakenBack(s) ==
    s.conn = NoLink /\ s.cur \in s.ends =>
        /\ s.shown = "Connected" => UnderWay(s, "disconnected")
        /\ \A k \in DOMAIN s.toClient : s.toClient[k] = "connected" /\ Heard(s, k) =>
              \E m \in DOMAIN s.toClient : k < m /\ s.toClient[m] = "disconnected"

Linked(s) == s \in EndsSet /\ ClientEnd(s) /\ OldFirst(s) /\ TakenBack(s)
LinkInv == Linked(dl)

-----------------------------------------------------------------------------
(* Two states that differ in the socket of the current link at most.       *)
OnlyWritten(t, s) ==
    /\ t \in EndsSet
    /\ t.up = s.up /\ t.made = s.made /\ t.cur = s.cur /\ t.link = s.link /\ t.ends = s.ends /\ t.queued = s.queued
    /\ t.toClient = s.toClient /\ t.shown = s.shown /\ t.conn = s.conn /\ t.shook = s.shook /\ t.lost = s.lost
    /\ \A j \in LinkIds : j # s.cur => t.toDaemon[j] = s.toDaemon[j]

(* write()                                                                 *)
LEMMA WriteOnly ==
    ASSUME NEW s \in EndsSet, NEW msg \in Requests
    PROVE  OnlyWritten(write(s, msg), s)
<1>1. CASE s.link.sock /\ s.cur \in s.ends \cup s.queued
  <2> DEFINE d == [s.toDaemon EXCEPT ![s.cur] = Append(s.toDaemon[s.cur], msg)]
  <2>1. s.cur \in LinkIds /\ s.toDaemon \in [LinkIds -> Seq(Requests)]
    BY <1>1 DEF EndsSet
  <2>2. d \in [LinkIds -> Seq(Requests)] /\ \A j \in LinkIds : j # s.cur => d[j] = s.toDaemon[j]
    BY <2>1
  <2>3. write(s, msg) = [s EXCEPT !.toDaemon = d]
    BY <1>1 DEF write
  <2> HIDE DEF d
  <2>4. [s EXCEPT !.toDaemon = d] \in EndsSet
    BY <2>2 DEF EndsSet
  <2> QED
    BY <2>2, <2>3, <2>4 DEF OnlyWritten, EndsSet
<1>2. CASE ~(s.link.sock /\ s.cur \in s.ends \cup s.queued)
  BY <1>2 DEF write, OnlyWritten
<1> QED
  BY <1>1, <1>2

(* What is in the current socket does not matter to the invariant.         *)
LEMMA OnlyLinked ==
    ASSUME NEW s, Linked(s), NEW t, OnlyWritten(t, s)
    PROVE  Linked(t)
<1>0. LinkIds \subseteq Nat /\ t.cur = s.cur
  BY DEF LinkIds, OnlyWritten
<1>1. OldFirst(t)
  BY <1>0 DEF OnlyWritten, Linked, OldFirst, UnderWay
<1>2. ClientEnd(t)
  BY DEF OnlyWritten, Linked, ClientEnd
<1>3. TakenBack(t)
  BY SMTT(30) DEF OnlyWritten, Linked, TakenBack, Heard, UnderWay
<1> QED
  BY <1>1, <1>2, <1>3 DEF Linked, OnlyWritten

(* So write() keeps the invariant.                                         *)
LEMMA WriteLinked ==
    ASSUME NEW s, Linked(s), NEW msg \in Requests
    PROVE  Linked(write(s, msg)) /\ OnlyWritten(write(s, msg), s)
BY WriteOnly, OnlyLinked DEF Linked

(* deactivate() and the end of a protocol object.                          *)
LEMMA DeactivateLinked ==
    ASSUME NEW s, Linked(s)
    PROVE  LET t == deactivate(s) IN Linked(t) /\ t.cur = s.cur /\ t.made = s.made
<1> DEFINE w == IF s.link.state = "ready" THEN write(s, "deactivate") ELSE s
           t == [w EXCEPT !.shown = "Disconnected"]
<1>1. "deactivate" \in Requests /\ "Disconnected" \in Shown
  BY DEF Requests, Shown
<1>2. Linked(w) /\ w.cur = s.cur /\ w.made = s.made
  BY <1>1, WriteLinked DEF OnlyWritten
<1>3. deactivate(s) = t
  BY DEF deactivate
<1> HIDE DEF w
<1>4. t \in EndsSet
  BY <1>1, <1>2 DEF Linked, EndsSet
<1>5. /\ t.up = w.up /\ t.made = w.made /\ t.cur = w.cur /\ t.link = w.link /\ t.ends = w.ends /\ t.queued = w.queued
      /\ t.toDaemon = w.toDaemon /\ t.toClient = w.toClient /\ t.conn = w.conn /\ t.shown = "Disconnected"
  BY <1>2 DEF Linked, EndsSet
<1>6. ClientEnd(t)
  BY <1>2, <1>5 DEF Linked, ClientEnd
<1>7. OldFirst(t) /\ TakenBack(t)
  BY <1>2, <1>5 DEF Linked, OldFirst, TakenBack, Heard, UnderWay
<1> QED
  BY <1>2, <1>3, <1>4, <1>5, <1>6, <1>7 DEF Linked

(* The parts of the state have the sets the code gives them.               *)
LEMMA LinkParts ==
    /\ NewLink \in LinkSet /\ NewLink.state = "initializing" /\ NewLink.timer = FALSE /\ NewLink.sock = FALSE
    /\ <<>> \in Seq(Replies) /\ NoLink \in LinkRefs /\ NoLink \notin LinkIds
    /\ LinkIds \subseteq LinkRefs /\ LinkIds \subseteq Nat /\ LinkRefs \subseteq Nat
    /\ "Connecting" \in Shown /\ "Connected" \in Shown /\ "Disconnected" \in Shown
    /\ "status" \in Requests /\ "activate" \in Requests /\ "deactivate" \in Requests
BY DEF NewLink, LinkSet, LinkStates, Replies, NoLink, LinkRefs, LinkIds, Shown, Requests

(* The client drops the socket of its current link.                        *)
LEMMA DestroyLinked ==
    ASSUME NEW s, Linked(s)
    PROVE  LET t == Destroy(s) IN Linked(t) /\ t.cur = NoLink /\ t.made = s.made
<1> DEFINE w == deactivate(s)
           t == [w EXCEPT !.cur = NoLink, !.link = NewLink, !.toClient = <<>>]
<1>1. Linked(w) /\ w.made = s.made
  BY DeactivateLinked
<1>1a. w.shown = "Disconnected"
  <2>1. "deactivate" \in Requests
    BY DEF Requests
  <2>2. (IF s.link.state = "ready" THEN write(s, "deactivate") ELSE s) \in EndsSet
    BY <2>1, WriteLinked DEF Linked
  <2> QED
    BY <2>2 DEF deactivate, EndsSet
<1>2. Destroy(s) = t
  BY DEF Destroy
<1> HIDE DEF w
<1>3. t \in EndsSet
  BY <1>1, LinkParts DEF Linked, EndsSet
<1>4. /\ t.up = w.up /\ t.made = w.made /\ t.cur = NoLink /\ t.link = NewLink /\ t.ends = w.ends /\ t.queued = w.queued
      /\ t.toClient = <<>> /\ t.shown = w.shown
  BY <1>1 DEF Linked, EndsSet
<1> HIDE DEF t
<1>5. NoLink \notin t.ends /\ NoLink \notin t.queued /\ t.made \in Nat
  BY <1>3, LinkParts DEF EndsSet, NoLink
<1>6. t.cur \notin t.ends /\ t.cur \notin t.queued
  BY <1>4, <1>5
<1>7. ClientEnd(t)
  <2>1. (\A i \in t.ends \cup t.queued : i <= t.made) /\ t.ends \cap t.queued = {}
    BY <1>1, <1>4 DEF Linked, ClientEnd
  <2> QED
    BY <2>1, <1>1a, <1>4, <1>5, <1>6, LinkParts DEF ClientEnd
<1>8. OldFirst(t) /\ TakenBack(t)
  BY <1>6 DEF OldFirst, TakenBack
<1> QED
  BY <1>1, <1>2, <1>3, <1>4, <1>7, <1>8 DEF Linked

(* A change of the link and of what is shown, nothing else.                *)
OnlyLink(t, s) ==
    /\ t \in EndsSet
    /\ t.up = s.up /\ t.made = s.made /\ t.cur = s.cur /\ t.ends = s.ends /\ t.queued = s.queued
    /\ t.toDaemon = s.toDaemon /\ t.toClient = s.toClient /\ t.conn = s.conn

(* disconnectInternal(), of an object whose socket is not being accepted.  *)
LEMMA DisconnectLinked ==
    ASSUME NEW s \in EndsSet
    PROVE  LET t == disconnectInternal(s)
           IN  OnlyLink(t, s) /\ t.link.state = "ready" /\ ~t.link.timer /\ t.link.sock = s.link.sock /\ t.shown = "Disconnected"
<1> DEFINE l == [s.link EXCEPT !.state = "ready", !.retry = 0, !.timer = FALSE]
<1>1. s.link \in LinkSet /\ "ready" \in LinkStates
  BY DEF EndsSet, LinkStates
<1>2. l \in LinkSet /\ l.state = "ready" /\ l.timer = FALSE /\ l.sock = s.link.sock
  BY <1>1 DEF LinkSet
<1>3. disconnectInternal(s) = [s EXCEPT !.link = l, !.shown = "Disconnected"]
  BY DEF disconnectInternal, EndsSet
<1> HIDE DEF l
<1> DEFINE x == [s EXCEPT !.link = l, !.shown = "Disconnected"]
<1>4. OnlyLink(x, s) /\ x.link = l /\ x.shown = "Disconnected"
  <2>1. x \in EndsSet
    BY <1>2, LinkParts DEF EndsSet
  <2> QED
    BY <2>1 DEF OnlyLink, EndsSet
<1> HIDE DEF x
<1> QED
  BY <1>2, <1>3, <1>4 DEF x

(* errorOccurred(), once the socket is gone.                               *)
LEMMA ErrorLinked ==
    ASSUME NEW s, Linked(s), s.cur # NoLink, ~s.link.sock
    PROVE  LET t == errorOccurred(s) IN Linked(t) /\ t.cur = s.cur /\ t.made = s.made /\ ~t.link.sock /\ t.link \in LinkSet
<1> DEFINE t == errorOccurred(s)
<1>1. OnlyLink(t, s) /\ t.link \in LinkSet /\ ~t.link.sock /\ t.shown # "Connected"
  <2>1. CASE s.link.state = "initializing" /\ s.link.retry < LinkRetries
    <3> DEFINE l == [s.link EXCEPT !.retry = s.link.retry + 1, !.timer = TRUE]
    <3>1. s.link \in LinkSet /\ s.link.retry + 1 \in Nat /\ s \in EndsSet /\ s.shown \in Shown
      BY SMTT(30) DEF Linked, EndsSet, LinkSet
    <3>1a. "ready" \in LinkStates
      BY DEF LinkStates
    <3>2. l \in LinkSet /\ l.sock = s.link.sock
      BY <3>1, <3>1a DEF LinkSet
    <3>3. t = [s EXCEPT !.link = l]
      BY <2>1, <3>1 DEF errorOccurred, EndsSet
    <3> HIDE DEF l, t
    <3>3a. [s EXCEPT !.link = l] = [s EXCEPT !.link = l, !.shown = s.shown]
      BY <3>1 DEF EndsSet
    <3> DEFINE x == [s EXCEPT !.link = l, !.shown = s.shown]
    <3>3b. OnlyLink(x, s) /\ x.link = l /\ x.shown = s.shown
      <4>1. x \in EndsSet
        BY <3>1, <3>2 DEF EndsSet
      <4> QED
        BY <3>1, <4>1 DEF OnlyLink, EndsSet
    <3>3c. t = x
      BY <3>3, <3>3a
    <3> HIDE DEF x
    <3>4. OnlyLink(t, s) /\ t.link = l /\ t.shown = s.shown
      BY <3>3b, <3>3c
    <3> QED
      BY <3>2, <3>4 DEF Linked, ClientEnd
  <2>2. CASE ~(s.link.state = "initializing" /\ s.link.retry < LinkRetries)
    <3>1. t = disconnectInternal(s) /\ s \in EndsSet
      BY <2>2 DEF errorOccurred, Linked
    <3>2. OnlyLink(t, s) /\ t.link.sock = s.link.sock /\ t.shown = "Disconnected"
      BY <3>1, DisconnectLinked
    <3> QED
      BY <3>2 DEF OnlyLink, EndsSet
  <2> QED
    BY <2>1, <2>2
<1> HIDE DEF t
<1>2. t.cur \notin t.ends /\ t.cur \notin t.queued /\ t.cur # NoLink
  BY <1>1 DEF OnlyLink, Linked, ClientEnd
<1>3. ClientEnd(t)
  BY <1>1, <1>2 DEF OnlyLink, Linked, ClientEnd
<1>4. OldFirst(t) /\ TakenBack(t)
  BY <1>2 DEF OldFirst, TakenBack
<1> QED
  BY <1>1, <1>3, <1>4 DEF Linked, OnlyLink, t

(* initializeInternal(), of an object without a socket.                    *)
LEMMA InitializeLinked ==
    ASSUME NEW s, Linked(s), s.cur # NoLink, ~s.link.sock
    PROVE  LET t == initializeInternal(s) IN Linked(t) /\ t.cur = s.cur /\ t.link \in LinkSet
<1> DEFINE l == [s.link EXCEPT !.state = "initializing", !.timer = FALSE]
           t == [s EXCEPT !.link = l]
<1>1. s.link \in LinkSet /\ s \in EndsSet /\ s.shown \in Shown /\ "initializing" \in LinkStates
  BY DEF Linked, EndsSet, LinkStates
<1>2. l \in LinkSet /\ l.state = "initializing" /\ l.timer = FALSE /\ l.sock = s.link.sock
  BY <1>1 DEF LinkSet
<1>3. [s EXCEPT !.link.state = "initializing", !.link.timer = FALSE] = t
  BY <1>1 DEF EndsSet
<1> HIDE DEF l
<1>4. t = [s EXCEPT !.link = l, !.shown = s.shown]
  BY <1>1 DEF EndsSet
<1>5. OnlyLink(t, s) /\ t.link = l /\ t.shown = s.shown
  <2> DEFINE x == [s EXCEPT !.link = l, !.shown = s.shown]
  <2>1. OnlyLink(x, s) /\ x.link = l /\ x.shown = s.shown
    <3>1. x \in EndsSet
      BY <1>1, <1>2 DEF EndsSet
    <3> QED
      BY <1>1, <3>1 DEF OnlyLink, EndsSet
  <2>2. t = x
    BY <1>4
  <2> HIDE DEF x, t
  <2> QED
    BY <2>1, <2>2
<1> HIDE DEF t
<1>5a. s.shown # "Connected"
  BY DEF Linked, ClientEnd
<1>6. t.cur \notin t.ends /\ t.cur \notin t.queued /\ t.cur # NoLink
  BY <1>5 DEF OnlyLink, Linked, ClientEnd
<1>7. ClientEnd(t)
  BY <1>2, <1>5, <1>5a, <1>6 DEF OnlyLink, Linked, ClientEnd
<1>8. Linked(t)
  BY <1>5, <1>6, <1>7 DEF OldFirst, TakenBack, Linked, OnlyLink
<1>9. CASE ~s.up
  <2>1. initializeInternal(s) = errorOccurred(t)
    BY <1>3, <1>9 DEF initializeInternal
  <2> QED
    BY <2>1, <1>2, <1>5, <1>6, <1>8, ErrorLinked DEF OnlyLink
<1>10. CASE s.up
  <2> DEFINE k == [l EXCEPT !.sock = TRUE]
             q == t.queued \cup {s.cur}
             u == [t EXCEPT !.link = k, !.queued = q]
  <2>1. k \in LinkSet /\ k.state = "initializing" /\ k.timer = FALSE /\ k.sock = TRUE
    BY <1>1, <1>2 DEF LinkSet
  <2>2. s.cur \in LinkIds /\ q \in SUBSET LinkIds /\ t \in EndsSet /\ s.cur = t.cur
    BY <1>5, <1>1, <1>6 DEF OnlyLink, EndsSet, LinkRefs
  <2>3. [t EXCEPT !.link.sock = TRUE, !.queued = @ \cup {s.cur}] = u
    BY <2>2, <1>5 DEF EndsSet
  <2> HIDE DEF k, q
  <2>4. u \in EndsSet
    BY <2>1, <2>2 DEF EndsSet
  <2>5. /\ u.cur = t.cur /\ u.made = t.made /\ u.link = k /\ u.ends = t.ends /\ u.queued = q
        /\ u.toClient = t.toClient /\ u.shown = t.shown
    BY <2>2 DEF EndsSet
  <2> HIDE DEF u
  <2>5a. t.toClient = <<>>
    BY <1>5, <1>6 DEF OnlyLink, Linked, ClientEnd
  <2>6. (\A i \in u.ends \cup u.queued : i <= u.made) /\ u.ends \cap u.queued = {}
    <3>1. t.cur = t.made /\ t.made \in Nat
      BY <1>6, <1>7, <2>2 DEF ClientEnd, EndsSet
    <3> QED
      BY <1>6, <1>7, <2>2, <2>5, <3>1, SMTT(30) DEF ClientEnd, q
  <2>7. ClientEnd(u)
    BY <1>5, <1>5a, <1>6, <1>7, <2>1, <2>5, <2>5a, <2>6 DEF ClientEnd
  <2>8. Linked(u)
    BY <1>6, <2>4, <2>5, <2>7 DEF Linked, OldFirst, TakenBack
  <2>9. initializeInternal(s) = write(u, "status")
    BY <1>3, <1>10, <2>1, <2>3, <2>5 DEF initializeInternal, checkStatus
  <2> QED
    BY <2>2, <2>4, <2>5, <2>8, <2>9, WriteLinked, LinkParts, SMTT(30) DEF OnlyWritten, EndsSet
<1> QED
  BY <1>9, <1>10

(* A reply is appended, or the first one is taken.                         *)
LEMMA ReplyAppended ==
    ASSUME NEW q \in Seq(Replies), NEW msg \in Replies
    PROVE  /\ Append(q, msg) \in Seq(Replies)
           /\ DOMAIN q \subseteq Nat /\ DOMAIN Append(q, msg) = DOMAIN q \cup {Len(q) + 1} /\ Len(q) \in Nat
           /\ \A k \in DOMAIN q : Append(q, msg)[k] = q[k] /\ k < Len(q) + 1
           /\ Append(q, msg)[Len(q) + 1] = msg
OBVIOUS

(* The client takes the first reply.                                       *)
LEMMA ReplyTaken ==
    ASSUME NEW q \in Seq(Replies), q # <<>>
    PROVE  /\ Tail(q) \in Seq(Replies) /\ Head(q) \in Replies
           /\ 1 \in DOMAIN q /\ q[1] = Head(q) /\ DOMAIN q \subseteq Nat /\ DOMAIN Tail(q) \subseteq Nat
           /\ \A k \in DOMAIN Tail(q) : k + 1 \in DOMAIN q /\ Tail(q)[k] = q[k + 1] /\ 1 < k + 1
           /\ \A m \in DOMAIN q : m # 1 => m - 1 \in DOMAIN Tail(q) /\ Tail(q)[m - 1] = q[m]
OBVIOUS

(* No link at first.                                                       *)
LEMMA LinkInitOK == LinkInit => LinkInv
<1> SUFFICES ASSUME LinkInit PROVE Linked(dl)
  BY DEF LinkInv
<1>1. dl \in EndsSet
  <2>1. MaxLinks \in Nat
    BY LinkAssumption
  <2>2. 0 \in 0 .. MaxLinks /\ {} \in SUBSET LinkIds
    BY <2>1
  <2>3. [i \in LinkIds |-> <<>>] \in [LinkIds -> Seq(Requests)]
    OBVIOUS
  <2> QED
    BY <2>2, <2>3, LinkParts DEF LinkInit, EndsSet
<1>2. dl.cur = NoLink /\ dl.link = NewLink /\ dl.ends = {} /\ dl.queued = {} /\ dl.toClient = <<>> /\ dl.shown = "Disconnected"
  BY DEF LinkInit
<1> QED
  BY <1>1, <1>2, LinkParts DEF Linked, ClientEnd, OldFirst, TakenBack

(* connectToDaemon(): a new socket.                                        *)
LEMMA ConnectKeeps == LinkInv /\ LinkConnect => LinkInv'
<1> SUFFICES ASSUME Linked(dl), LinkConnect PROVE Linked(dl')
  BY DEF LinkInv
<1> DEFINE old == IF dl.cur = NoLink THEN dl ELSE Destroy(deactivate(dl))
           f == [old EXCEPT !.made = dl.made + 1, !.cur = dl.made + 1, !.link = NewLink]
           new == initializeInternal(f)
           w == write(new, "activate")
<1>1. Linked(old) /\ old.cur = NoLink /\ old.made = dl.made
  BY DeactivateLinked, DestroyLinked
<1>2. dl' = [w EXCEPT !.shown = "Connecting", !.lost = ~new.link.sock]
  <2>1. [old EXCEPT !.made = @ + 1, !.cur = dl.made + 1, !.link = NewLink] = f
    BY <1>1
  <2> QED
    BY <2>1 DEF LinkConnect
<1> HIDE DEF old
<1>3. dl.made + 1 \in 0 .. MaxLinks /\ dl.made + 1 \in LinkIds /\ dl.made \in Nat
  BY LinkAssumption DEF LinkConnect, Linked, EndsSet, LinkIds
<1>4. f \in EndsSet
  <2>1. old \in EndsSet /\ dl.made + 1 \in LinkRefs
    BY <1>1, <1>3, LinkParts DEF Linked
  <2> QED
    BY <2>1, <1>3, LinkParts DEF EndsSet
<1>5. /\ f.made = dl.made + 1 /\ f.cur = dl.made + 1 /\ f.link = NewLink /\ f.ends = old.ends /\ f.queued = old.queued
      /\ f.toClient = old.toClient /\ f.shown = old.shown
  BY <1>1 DEF Linked, EndsSet
<1> HIDE DEF f
<1>6. \A i \in old.ends \cup old.queued : i <= dl.made /\ i \in Nat
  BY <1>1, LinkParts DEF Linked, ClientEnd, EndsSet
<1>7. f.cur \notin f.ends /\ f.cur \notin f.queued /\ f.cur # NoLink
  BY <1>3, <1>5, <1>6 DEF NoLink
<1>8. ClientEnd(f)
  <2>1. \A i \in f.ends \cup f.queued : i <= f.made
    BY <1>3, <1>5, <1>6
  <2>2. old.toClient = <<>> /\ old.shown # "Connected" /\ old.ends \cap old.queued = {}
    BY <1>1 DEF Linked, ClientEnd
  <2> QED
    BY <2>1, <2>2, <1>5, <1>7, LinkParts DEF ClientEnd
<1>9. Linked(f)
  BY <1>4, <1>7, <1>8 DEF Linked, OldFirst, TakenBack
<1>10. Linked(new) /\ new.link \in LinkSet
  BY <1>5, <1>7, <1>9, LinkParts, InitializeLinked
<1> HIDE DEF new
<1>11. Linked(w)
  BY <1>10, WriteLinked, LinkParts
<1> HIDE DEF w
<1>12. PICK b \in BOOLEAN : b = ~new.link.sock
  OBVIOUS
<1> DEFINE t == [w EXCEPT !.shown = "Connecting", !.lost = b]
<1>13. dl' = t
  BY <1>2, <1>12, Zenon
<1>14. t \in EndsSet
  BY <1>11, LinkParts DEF Linked, EndsSet
<1>15. /\ t.made = w.made /\ t.cur = w.cur /\ t.link = w.link /\ t.ends = w.ends /\ t.queued = w.queued
       /\ t.toDaemon = w.toDaemon /\ t.toClient = w.toClient /\ t.conn = w.conn /\ t.shown = "Connecting"
  BY <1>11 DEF Linked, EndsSet
<1> HIDE DEF t
<1>16. ClientEnd(t)
  BY <1>11, <1>15 DEF Linked, ClientEnd
<1>17. OldFirst(t) /\ TakenBack(t)
  BY <1>11, <1>15, SMTT(30) DEF Linked, OldFirst, TakenBack, Heard, UnderWay
<1> QED
  BY <1>13, <1>14, <1>16, <1>17 DEF Linked

(* The user disconnects.                                                   *)
LEMMA DisconnectKeeps == LinkInv /\ LinkDisconnect => LinkInv'
BY DeactivateLinked, DestroyLinked DEF LinkInv, LinkDisconnect

(* The retry timer fires.                                                  *)
LEMMA RetryKeeps == LinkInv /\ RetryTimeout => LinkInv'
<1> SUFFICES ASSUME Linked(dl), RetryTimeout PROVE Linked(dl')
  BY DEF LinkInv
<1>1. dl.cur # NoLink /\ ~dl.link.sock /\ dl' = initializeInternal(dl)
  BY DEF RetryTimeout, Linked, ClientEnd
<1> QED
  BY <1>1, InitializeLinked

(* The client reads a reply.  Its first status makes it listen, and no     *)
(* older socket is then left to be read; "disconnected" is behind every    *)
(* "connected" of a session that is over.                                  *)
LEMMA ClientReadsKeeps == LinkInv /\ ClientReads => LinkInv'
<1> SUFFICES ASSUME Linked(dl), ClientReads PROVE Linked(dl')
  BY DEF LinkInv
<1> DEFINE q == dl.toClient
           s == [dl EXCEPT !.toClient = Tail(q)]
           msg == Head(q)
<1>1. dl \in EndsSet /\ q \in Seq(Replies) /\ q # <<>> /\ dl.cur # NoLink /\ dl' = parseReply(s, msg)
  BY DEF ClientReads, Linked, EndsSet
<1>2. dl.link.sock /\ dl.cur \notin dl.queued /\ dl.link \in LinkSet /\ dl.link.state \in LinkStates
  BY <1>1 DEF Linked, ClientEnd, EndsSet, LinkSet
<1>3. s \in EndsSet
  BY <1>1, ReplyTaken DEF EndsSet
<1>4. /\ s.made = dl.made /\ s.cur = dl.cur /\ s.link = dl.link /\ s.ends = dl.ends /\ s.queued = dl.queued
      /\ s.toDaemon = dl.toDaemon /\ s.toClient = Tail(q) /\ s.conn = dl.conn /\ s.shown = dl.shown
  BY <1>1 DEF EndsSet
<1> HIDE DEF s
<1>5. ClientEnd(s)
  BY <1>1, <1>2, <1>4 DEF Linked, ClientEnd
<1>6. OldFirst(s)
  <2>1. UnderWay(s, "status") => UnderWay(dl, "status")
    BY <1>1, <1>4, ReplyTaken, SMTT(30) DEF UnderWay
  <2> QED
    BY <2>1, <1>4 DEF Linked, OldFirst
(* What is heard after the step was heard before it.                       *)
<1>7. ASSUME NEW t, t.toClient = Tail(q), t.conn = dl.conn, t.cur = dl.cur, t.ends = dl.ends,
             \A k \in DOMAIN Tail(q) : Heard(t, k) => Heard(dl, k + 1),
             t.shown = "Connected" /\ t.conn = NoLink /\ t.cur \in t.ends => UnderWay(t, "disconnected")
      PROVE  TakenBack(t)
  <2> SUFFICES ASSUME t.conn = NoLink, t.cur \in t.ends, NEW k \in DOMAIN t.toClient, t.toClient[k] = "connected", Heard(t, k)
               PROVE  \E m \in DOMAIN t.toClient : k < m /\ t.toClient[m] = "disconnected"
    BY <1>7 DEF TakenBack
  <2>1. k + 1 \in DOMAIN q /\ q[k + 1] = "connected" /\ Heard(dl, k + 1) /\ k \in Nat
    BY <1>1, <1>7, ReplyTaken
  <2>2. PICK m \in DOMAIN q : k + 1 < m /\ q[m] = "disconnected"
    BY <1>7, <2>1 DEF Linked, TakenBack
  <2>3. m - 1 \in DOMAIN Tail(q) /\ Tail(q)[m - 1] = "disconnected" /\ m \in Nat
    BY <1>1, <2>1, <2>2, ReplyTaken, SMTT(30)
  <2> QED
    BY <1>7, <2>1, <2>2, <2>3, SMTT(30)
<1>8. ASSUME NEW t, t.toClient = Tail(q), t.link.state = dl.link.state, NEW k \in DOMAIN Tail(q), Heard(t, k)
      PROVE  Heard(dl, k + 1)
  BY <1>1, <1>8, ReplyTaken DEF Heard
<1>9. CASE dl.link.state = "initializing" /\ msg = "status"
  <2> DEFINE l == [dl.link EXCEPT !.state = "ready"]
             t == [s EXCEPT !.link = l]
  <2>1. l \in LinkSet /\ l.state = "ready" /\ l.timer = dl.link.timer /\ l.sock = dl.link.sock
    BY <1>2 DEF LinkSet, LinkStates
  <2>2. dl' = t
    BY <1>1, <1>3, <1>4, <1>9 DEF parseReply, EndsSet
  <2> HIDE DEF l
  <2>3. t \in EndsSet
    BY <1>3, <2>1 DEF EndsSet
  <2>4. /\ t.made = s.made /\ t.cur = s.cur /\ t.link = l /\ t.ends = s.ends /\ t.queued = s.queued
        /\ t.toDaemon = s.toDaemon /\ t.toClient = s.toClient /\ t.conn = s.conn /\ t.shown = s.shown
    BY <1>3 DEF EndsSet
  <2> HIDE DEF t
  <2>5. UnderWay(dl, "status")
    BY <1>1, <1>9, ReplyTaken DEF UnderWay
  <2>6. ClientEnd(t)
    BY <1>1, <1>2, <1>4, <1>5, <2>1, <2>4 DEF ClientEnd
  <2>7. OldFirst(t)
    BY <1>4, <2>4, <2>5 DEF Linked, OldFirst
  <2>8. t.shown # "Connected"
    BY <1>4, <1>9, <2>4 DEF Linked, ClientEnd
  <2>9. \A k \in DOMAIN Tail(q) : Heard(dl, k + 1)
    BY <1>1, <1>9, ReplyTaken DEF Heard
  <2>10. TakenBack(t)
    BY <1>4, <1>7, <2>4, <2>8, <2>9
  <2> QED
    BY <2>2, <2>3, <2>6, <2>7, <2>10 DEF Linked
<1>10. CASE dl.link.state # "ready" /\ msg # "status"
  <2>1. dl' = s
    BY <1>1, <1>4, <1>10 DEF parseReply
  <2>2. s.shown # "Connected"
    BY <1>4, <1>10 DEF Linked, ClientEnd
  <2>3. TakenBack(s)
    BY <1>4, <1>7, <1>8, <2>2
  <2> QED
    BY <1>3, <1>5, <1>6, <2>1, <2>3 DEF Linked
<1>11. CASE dl.link.state = "ready" /\ msg = "disconnected"
  <2> DEFINE t == disconnectInternal(s)
  <2>1. dl' = t
    BY <1>1, <1>4, <1>11 DEF parseReply
  <2>2. OnlyLink(t, s) /\ t.link.state = "ready" /\ ~t.link.timer /\ t.link.sock = s.link.sock /\ t.shown = "Disconnected"
    BY <1>3, DisconnectLinked
  <2> HIDE DEF t
  <2>3. ClientEnd(t)
    BY <1>1, <1>2, <1>4, <1>5, <2>2 DEF ClientEnd, OnlyLink
  <2>4. OldFirst(t)
    BY <1>4, <1>6, <1>11, <2>2 DEF OldFirst, OnlyLink, UnderWay
  <2>5. TakenBack(t)
    BY <1>4, <1>7, <1>8, <1>11, <2>2 DEF OnlyLink
  <2> QED
    BY <2>1, <2>2, <2>3, <2>4, <2>5 DEF Linked, OnlyLink
<1>12. CASE dl.link.state = "ready" /\ msg = "connected"
  <2> DEFINE w == checkStatus(s)
             t == [w EXCEPT !.shown = "Connected"]
  <2>1. dl' = t
    BY <1>1, <1>4, <1>12 DEF parseReply
  <2>2. OnlyWritten(w, s)
    BY <1>3, WriteOnly, LinkParts DEF checkStatus, OnlyWritten
  <2> HIDE DEF w
  <2>3. t \in EndsSet
    BY <2>2, LinkParts DEF EndsSet, OnlyWritten
  <2>4. /\ t.made = w.made /\ t.cur = w.cur /\ t.link = w.link /\ t.ends = w.ends /\ t.queued = w.queued
        /\ t.toDaemon = w.toDaemon /\ t.toClient = w.toClient /\ t.conn = w.conn /\ t.shown = "Connected"
    BY <2>2 DEF OnlyWritten, EndsSet
  <2> HIDE DEF t
  <2>5. ClientEnd(t)
    BY <1>1, <1>2, <1>4, <1>5, <1>12, <2>2, <2>4, SMTT(30) DEF ClientEnd, OnlyWritten
  <2>6. OldFirst(t)
    <3>1. t.cur = s.cur /\ t.cur \in Nat /\ t.ends = s.ends /\ t.link = s.link /\ t.toClient = s.toClient
      BY <2>2, <2>3, <2>4, LinkParts DEF OnlyWritten, EndsSet
    <3>2. \A j \in LinkIds : j < t.cur => t.toDaemon[j] = s.toDaemon[j]
      BY <2>2, <2>4, <3>1, LinkParts, SMTT(30) DEF OnlyWritten
    <3> QED
      BY <1>6, <3>1, <3>2 DEF OldFirst, UnderWay
  <2>7. t.conn = NoLink /\ t.cur \in t.ends => UnderWay(t, "disconnected")
    <3> SUFFICES ASSUME dl.conn = NoLink, dl.cur \in dl.ends PROVE UnderWay(t, "disconnected")
      BY <1>4, <2>2, <2>4 DEF OnlyWritten
    <3>1. PICK m \in DOMAIN q : 1 < m /\ q[m] = "disconnected"
      BY <1>1, <1>12, ReplyTaken DEF Linked, TakenBack, Heard
    <3>2. m - 1 \in DOMAIN Tail(q) /\ Tail(q)[m - 1] = "disconnected"
      BY <1>1, <3>1, ReplyTaken, SMTT(30)
    <3> QED
      BY <1>4, <2>2, <2>4, <3>2, SMTT(30) DEF OnlyWritten, UnderWay
  <2>8. TakenBack(t)
    BY <1>4, <1>7, <1>8, <2>2, <2>4, <2>7 DEF OnlyWritten
  <2> QED
    BY <2>1, <2>3, <2>5, <2>6, <2>8 DEF Linked
<1>13. CASE dl.link.state = "ready" /\ msg = "status"
  <2>1. dl' = s
    BY <1>1, <1>4, <1>13 DEF parseReply
  <2>2. s.shown = "Connected" /\ s.conn = NoLink /\ s.cur \in s.ends => UnderWay(s, "disconnected")
    <3> SUFFICES ASSUME dl.shown = "Connected", dl.conn = NoLink, dl.cur \in dl.ends PROVE UnderWay(s, "disconnected")
      BY <1>4
    <3>1. PICK m \in DOMAIN q : q[m] = "disconnected"
      BY DEF Linked, TakenBack, UnderWay
    <3>2. m - 1 \in DOMAIN Tail(q) /\ Tail(q)[m - 1] = "disconnected"
      BY <1>1, <1>13, <3>1, ReplyTaken
    <3> QED
      BY <1>4, <3>2 DEF UnderWay
  <2>3. TakenBack(s)
    BY <1>4, <1>7, <1>8, <2>2
  <2> QED
    BY <1>3, <1>5, <1>6, <2>1, <2>3 DEF Linked
<1>14. msg \in {"status", "connected", "disconnected"} /\ dl.link.state \in {"initializing", "ready"}
  BY <1>1, <1>2, ReplyTaken DEF Replies, LinkStates
<1> QED
  BY <1>9, <1>10, <1>11, <1>12, <1>13, <1>14

(* The socket reports that the daemon's end is gone.                       *)
LEMMA ClientSeesCloseKeeps == LinkInv /\ ClientSeesClose => LinkInv'
<1> SUFFICES ASSUME Linked(dl), ClientSeesClose PROVE Linked(dl')
  BY DEF LinkInv
<1> DEFINE l == [dl.link EXCEPT !.sock = FALSE]
           s == [dl EXCEPT !.link = l]
           t == errorOccurred(s)
<1>1. dl \in EndsSet /\ dl.link \in LinkSet /\ dl.cur # NoLink /\ dl.cur \notin dl.ends \cup dl.queued /\ dl.toClient = <<>>
  BY DEF ClientSeesClose, Linked, EndsSet
<1>2. l \in LinkSet /\ l.state = dl.link.state /\ l.timer = dl.link.timer /\ ~l.sock
  BY <1>1 DEF LinkSet
<1>3. dl' = errorOccurred(t)
  <2>1. [dl EXCEPT !.link.sock = FALSE] = s
    BY <1>1 DEF EndsSet
  <2> QED
    BY <2>1 DEF ClientSeesClose
<1> HIDE DEF l
<1>4. s \in EndsSet
  BY <1>1, <1>2 DEF EndsSet
<1>5. /\ s.made = dl.made /\ s.cur = dl.cur /\ s.link = l /\ s.ends = dl.ends /\ s.queued = dl.queued
      /\ s.toClient = dl.toClient /\ s.shown = dl.shown
  BY <1>1 DEF EndsSet
<1> HIDE DEF s
<1>6. Linked(t) /\ t.cur # NoLink /\ ~t.link.sock
  <2>1. CASE dl.link.state = "initializing"
    <3>1. ClientEnd(s)
      BY <1>1, <1>2, <1>5, <2>1 DEF ClientEnd, Linked
    <3>2. Linked(s)
      BY <1>1, <1>4, <1>5, <3>1 DEF Linked, OldFirst, TakenBack
    <3> QED
      BY <1>1, <1>2, <1>5, <3>2, ErrorLinked
  <2>2. CASE dl.link.state # "initializing"
    <3>1. t = disconnectInternal(s)
      BY <1>2, <1>5, <2>2 DEF errorOccurred
    <3>2. OnlyLink(t, s) /\ t.link.state = "ready" /\ ~t.link.timer /\ t.link.sock = s.link.sock /\ t.shown = "Disconnected"
      BY <1>4, <3>1, DisconnectLinked
    <3> HIDE DEF t
    <3>3. ClientEnd(t)
      BY <1>1, <1>2, <1>5, <3>2 DEF ClientEnd, OnlyLink, Linked
    <3> QED
      BY <1>1, <1>2, <1>5, <3>2, <3>3 DEF Linked, OldFirst, TakenBack, OnlyLink
  <2> QED
    BY <2>1, <2>2
<1> QED
  BY <1>3, <1>6, ErrorLinked

(* The daemon accepts a connection.                                        *)
LEMMA DaemonAcceptsKeeps == ASSUME NEW i \in LinkIds PROVE LinkInv /\ DaemonAccepts(i) => LinkInv'
<1> SUFFICES ASSUME Linked(dl), DaemonAccepts(i) PROVE Linked(dl')
  BY DEF LinkInv
<1> DEFINE e == dl.ends \cup {i}
           q == dl.queued \ {i}
           t == [dl EXCEPT !.queued = q, !.ends = e]
<1>1. dl \in EndsSet /\ i \in dl.queued /\ dl' = t /\ e \in SUBSET LinkIds /\ q \in SUBSET LinkIds
  BY DEF DaemonAccepts, Linked, EndsSet
<1>2. e \cup q = dl.ends \cup dl.queued /\ e \cap q = {} /\ (dl.cur \in e => dl.cur \in dl.ends \/ dl.cur \in dl.queued) /\ q \subseteq dl.queued
  BY <1>1 DEF Linked, ClientEnd
<1> HIDE DEF e, q
<1>3. t \in EndsSet
  BY <1>1 DEF EndsSet
<1>4. /\ t.made = dl.made /\ t.cur = dl.cur /\ t.link = dl.link /\ t.ends = e /\ t.queued = q
      /\ t.toDaemon = dl.toDaemon /\ t.toClient = dl.toClient /\ t.conn = dl.conn /\ t.shown = dl.shown
  BY <1>1 DEF EndsSet
<1> HIDE DEF t
<1>5. ClientEnd(t)
  BY <1>2, <1>4 DEF Linked, ClientEnd
<1>6. CASE dl.cur \in dl.ends
  BY <1>1, <1>3, <1>4, <1>5, <1>6, SMTT(30) DEF Linked, OldFirst, TakenBack, UnderWay, Heard
<1>7. CASE dl.cur \notin dl.ends /\ dl.cur \in e
  <2>1. dl.link.state = "initializing" /\ dl.toClient = <<>> /\ dl.shown # "Connected"
    BY <1>2, <1>7 DEF Linked, ClientEnd
  <2> QED
    BY <1>1, <1>3, <1>4, <1>5, <2>1, SMTT(30) DEF Linked, OldFirst, TakenBack, UnderWay
<1>8. CASE dl.cur \notin e
  BY <1>1, <1>3, <1>4, <1>5, <1>8 DEF Linked, OldFirst, TakenBack
<1> QED
  BY <1>6, <1>7, <1>8

(* The daemon learns that a client's socket is closed.                     *)
LEMMA DaemonSeesCloseKeeps == ASSUME NEW i \in LinkIds PROVE LinkInv /\ DaemonSeesClose(i) => LinkInv'
<1> SUFFICES ASSUME Linked(dl), DaemonSeesClose(i) PROVE Linked(dl')
  BY DEF LinkInv
<1> DEFINE e == dl.ends \ {i}
           c == IF e = {} THEN NoLink ELSE dl.conn
<1>1. dl \in EndsSet /\ i # dl.cur /\ e \in SUBSET LinkIds /\ c \in LinkRefs
  BY LinkParts DEF DaemonSeesClose, Linked, EndsSet
<1>1a. PICK b \in BOOLEAN : b = IF e = {} THEN FALSE ELSE dl.shook
  BY <1>1 DEF EndsSet
<1> DEFINE t == [dl EXCEPT !.ends = e, !.conn = c, !.shook = b]
<1>2. dl' = t
  BY <1>1, <1>1a DEF DaemonSeesClose, EndsSet
<1>3. (c = dl.conn \/ e = {}) /\ (dl.cur \in e <=> dl.cur \in dl.ends) /\ e \subseteq dl.ends
  BY <1>1
<1> HIDE DEF e, c
<1>4. t \in EndsSet
  BY <1>1 DEF EndsSet
<1>5. /\ t.made = dl.made /\ t.cur = dl.cur /\ t.link = dl.link /\ t.ends = e /\ t.queued = dl.queued
      /\ t.toDaemon = dl.toDaemon /\ t.toClient = dl.toClient /\ t.conn = c /\ t.shown = dl.shown
  BY <1>1 DEF EndsSet
<1> HIDE DEF t
<1>6. ClientEnd(t)
  BY <1>3, <1>5 DEF Linked, ClientEnd
<1>7. OldFirst(t)
  BY <1>3, <1>5 DEF Linked, OldFirst, UnderWay
<1>8. TakenBack(t)
  BY <1>3, <1>5, SMTT(30) DEF Linked, TakenBack, UnderWay, Heard
<1> QED
  BY <1>2, <1>4, <1>6, <1>7, <1>8 DEF Linked

(* The daemon stops.                                                       *)
LEMMA DaemonGoneKeeps == LinkInv /\ DaemonGone => LinkInv'
<1> SUFFICES ASSUME Linked(dl), DaemonGone PROVE Linked(dl')
  BY DEF LinkInv
<1>1. PICK b \in BOOLEAN : b = (dl.lost \/ dl.shown = "Connecting")
  OBVIOUS
<1> DEFINE e == [i \in LinkIds |-> <<>>]
           s == [dl EXCEPT !.up = FALSE, !.ends = {}, !.queued = {}]
           t == [s EXCEPT !.conn = NoLink, !.shook = FALSE, !.toDaemon = e, !.lost = b]
<1>2. dl' = t
  BY <1>1 DEF DaemonGone
<1>3. e \in [LinkIds -> Seq(Requests)] /\ dl \in EndsSet /\ {} \in SUBSET LinkIds
  BY DEF Linked
<1> HIDE DEF e
<1>4. s \in EndsSet
  BY <1>3 DEF EndsSet
<1>5. /\ s.made = dl.made /\ s.cur = dl.cur /\ s.link = dl.link /\ s.ends = {} /\ s.queued = {}
      /\ s.toClient = dl.toClient /\ s.shown = dl.shown
  BY <1>3 DEF EndsSet
<1> HIDE DEF s
<1>6. t \in EndsSet
  BY <1>3, <1>4, LinkParts DEF EndsSet
<1>7. /\ t.made = s.made /\ t.cur = s.cur /\ t.link = s.link /\ t.ends = s.ends /\ t.queued = s.queued
      /\ t.toClient = s.toClient /\ t.shown = s.shown
  BY <1>4 DEF EndsSet
<1> HIDE DEF t
<1>8. ClientEnd(t)
  BY <1>5, <1>7 DEF Linked, ClientEnd
<1> QED
  BY <1>2, <1>5, <1>6, <1>7, <1>8 DEF Linked, OldFirst, TakenBack

(* The daemon runs again.                                                  *)
LEMMA DaemonBackKeeps == LinkInv /\ DaemonBack => LinkInv'
<1> SUFFICES ASSUME Linked(dl), DaemonBack PROVE Linked(dl')
  BY DEF LinkInv
<1> DEFINE t == [dl EXCEPT !.up = TRUE]
<1>1. dl' = t /\ dl \in EndsSet
  BY DEF DaemonBack, Linked
<1>2. t \in EndsSet
  BY <1>1 DEF EndsSet
<1>3. /\ t.made = dl.made /\ t.cur = dl.cur /\ t.link = dl.link /\ t.ends = dl.ends /\ t.queued = dl.queued
      /\ t.toDaemon = dl.toDaemon /\ t.toClient = dl.toClient /\ t.conn = dl.conn /\ t.shown = dl.shown
  BY <1>1 DEF EndsSet
<1> HIDE DEF t
<1> QED
  BY <1>1, <1>2, <1>3, SMTT(30) DEF Linked, ClientEnd, OldFirst, TakenBack, UnderWay, Heard

(* A reply to the current link.                                            *)
LEMMA ReplyFields ==
    ASSUME NEW s \in EndsSet, ClientEnd(s), s.cur \in s.ends, NEW msg \in Replies
    PROVE  LET t == LinkReply(s, s.cur, msg)
           IN  /\ t \in EndsSet /\ ClientEnd(t)
               /\ t.made = s.made /\ t.cur = s.cur /\ t.link = s.link /\ t.ends = s.ends /\ t.queued = s.queued
               /\ t.toDaemon = s.toDaemon /\ t.toClient = Append(s.toClient, msg) /\ t.conn = s.conn /\ t.shown = s.shown
<1> DEFINE q == Append(s.toClient, msg)
           t == [s EXCEPT !.toClient = q]
<1>1. LinkReply(s, s.cur, msg) = t
  BY DEF LinkReply
<1>2. q \in Seq(Replies)
  BY DEF EndsSet
<1> HIDE DEF q
<1>3. t \in EndsSet
  BY <1>2 DEF EndsSet
<1>4. /\ t.made = s.made /\ t.cur = s.cur /\ t.link = s.link /\ t.ends = s.ends /\ t.queued = s.queued
      /\ t.toDaemon = s.toDaemon /\ t.toClient = q /\ t.conn = s.conn /\ t.shown = s.shown
  BY DEF EndsSet
<1> HIDE DEF t
<1>5. s.cur # NoLink /\ s.cur \notin s.queued
  BY LinkParts DEF EndsSet, ClientEnd
<1>6. ClientEnd(t)
  BY <1>4, <1>5 DEF ClientEnd
<1> QED
  BY <1>1, <1>3, <1>4, <1>6 DEF q

(* After "disconnected" nothing that was said before counts.               *)
LEMMA DisconnectedLinked ==
    ASSUME NEW s \in EndsSet, ClientEnd(s), OldFirst(s), s.cur \in s.ends
    PROVE  Linked(LinkReply(s, s.cur, "disconnected"))
<1> DEFINE t == LinkReply(s, s.cur, "disconnected")
<1>0. "disconnected" \in Replies /\ s.toClient \in Seq(Replies)
  BY DEF Replies, EndsSet
<1>1. /\ t \in EndsSet /\ ClientEnd(t)
      /\ t.made = s.made /\ t.cur = s.cur /\ t.link = s.link /\ t.ends = s.ends /\ t.queued = s.queued
      /\ t.toDaemon = s.toDaemon /\ t.toClient = Append(s.toClient, "disconnected") /\ t.conn = s.conn /\ t.shown = s.shown
  BY <1>0, ReplyFields
<1> HIDE DEF t
<1> DEFINE n == Len(s.toClient) + 1
<1>2. /\ DOMAIN t.toClient = DOMAIN s.toClient \cup {n} /\ n \in DOMAIN t.toClient /\ t.toClient[n] = "disconnected"
      /\ \A k \in DOMAIN s.toClient : t.toClient[k] = s.toClient[k] /\ k < n
  BY <1>0, <1>1, ReplyAppended, SMTT(30)
<1> HIDE DEF n
<1>3. OldFirst(t)
  BY <1>1, <1>2 DEF OldFirst, UnderWay
<1>4. TakenBack(t)
  BY <1>2 DEF TakenBack, UnderWay
<1> QED
  BY <1>1, <1>3, <1>4 DEF Linked, t

(* A "status" that no older socket is left behind.                         *)
LEMMA StatusLinked ==
    ASSUME NEW s, Linked(s), s.cur \in s.ends, \A j \in LinkIds : j < s.cur => s.toDaemon[j] = <<>>
    PROVE  Linked(LinkReply(s, s.cur, "status"))
<1> DEFINE t == LinkReply(s, s.cur, "status")
<1>0. "status" \in Replies /\ s.toClient \in Seq(Replies)
  BY DEF Replies, EndsSet, Linked
<1>1. /\ t \in EndsSet /\ ClientEnd(t)
      /\ t.made = s.made /\ t.cur = s.cur /\ t.link = s.link /\ t.ends = s.ends /\ t.queued = s.queued
      /\ t.toDaemon = s.toDaemon /\ t.toClient = Append(s.toClient, "status") /\ t.conn = s.conn /\ t.shown = s.shown
  BY <1>0, ReplyFields DEF Linked
<1> HIDE DEF t
<1> DEFINE n == Len(s.toClient) + 1
<1>2. /\ DOMAIN t.toClient = DOMAIN s.toClient \cup {n} /\ t.toClient[n] = "status" /\ n \in Nat
      /\ \A k \in DOMAIN s.toClient : t.toClient[k] = s.toClient[k] /\ k < n /\ k \in Nat
  BY <1>0, <1>1, ReplyAppended, SMTT(30)
<1> HIDE DEF n
<1>3. OldFirst(t)
  BY <1>1 DEF OldFirst
<1>4. TakenBack(t)
  <2>1. \A k \in DOMAIN s.toClient : Heard(t, k) => Heard(s, k)
    BY <1>1, <1>2, SMTT(30) DEF Heard
  <2>2. UnderWay(s, "disconnected") => UnderWay(t, "disconnected")
    BY <1>2 DEF UnderWay
  <2> QED
    BY <1>1, <1>2, <2>1, <2>2, SMTT(30) DEF Linked, TakenBack
<1> QED
  BY <1>1, <1>3, <1>4 DEF Linked, t

(* A change of the session in the daemon, nothing else.                    *)
LEMMA SessionFields ==
    ASSUME NEW s \in EndsSet, NEW c \in LinkRefs, NEW b \in BOOLEAN
    PROVE  LET t == [s EXCEPT !.conn = c, !.shook = b]
           IN  /\ t \in EndsSet /\ (ClientEnd(s) => ClientEnd(t)) /\ (OldFirst(s) => OldFirst(t))
               /\ t.made = s.made /\ t.cur = s.cur /\ t.link = s.link /\ t.ends = s.ends /\ t.queued = s.queued
               /\ t.toDaemon = s.toDaemon /\ t.toClient = s.toClient /\ t.conn = c /\ t.shown = s.shown
<1> DEFINE t == [s EXCEPT !.conn = c, !.shook = b]
<1>1. t \in EndsSet
  BY DEF EndsSet
<1>2. /\ t.made = s.made /\ t.cur = s.cur /\ t.link = s.link /\ t.ends = s.ends /\ t.queued = s.queued
      /\ t.toDaemon = s.toDaemon /\ t.toClient = s.toClient /\ t.conn = c /\ t.shown = s.shown
  BY DEF EndsSet
<1> HIDE DEF t
<1>3. (ClientEnd(s) => ClientEnd(t)) /\ (OldFirst(s) => OldFirst(t))
  BY <1>2 DEF ClientEnd, OldFirst, UnderWay
<1> QED
  BY <1>1, <1>2, <1>3 DEF t

(* The daemon reads a request.  An older socket's activation that loses    *)
(* the session is one that the current link does not listen to yet.        *)
LEMMA DaemonReadsKeeps == ASSUME NEW i \in LinkIds PROVE LinkInv /\ DaemonReads(i) => LinkInv'
<1> SUFFICES ASSUME Linked(dl), DaemonReads(i) PROVE Linked(dl')
  BY DEF LinkInv
<1> DEFINE d == [dl.toDaemon EXCEPT ![i] = Tail(dl.toDaemon[i])]
           s == [dl EXCEPT !.toDaemon = d]
           msg == Head(dl.toDaemon[i])
           c == [s EXCEPT !.conn = i, !.shook = FALSE]
           n == [s EXCEPT !.conn = NoLink, !.shook = FALSE]
<1>1. /\ dl \in EndsSet /\ i \in dl.ends /\ dl.toDaemon[i] # <<>> /\ dl.toDaemon \in [LinkIds -> Seq(Requests)]
      /\ \A j \in LinkIds : j < i => dl.toDaemon[j] = <<>>
  BY DEF DaemonReads, Linked, EndsSet
<1>2. /\ d \in [LinkIds -> Seq(Requests)] /\ msg \in Requests
      /\ \A j \in LinkIds : dl.toDaemon[j] = <<>> => d[j] = <<>>
  BY <1>1
<1>3. dl' \in parseCommand(s, i, msg)
  BY <1>1 DEF DaemonReads, EndsSet
<1> HIDE DEF d
<1>4. s \in EndsSet
  BY <1>1, <1>2 DEF EndsSet
<1>5. /\ s.made = dl.made /\ s.cur = dl.cur /\ s.link = dl.link /\ s.ends = dl.ends /\ s.queued = dl.queued
      /\ s.toDaemon = d /\ s.toClient = dl.toClient /\ s.conn = dl.conn /\ s.shown = dl.shown
  BY <1>1 DEF EndsSet
<1> HIDE DEF s, msg
<1>6. Linked(s)
  <2>1. ClientEnd(s)
    BY <1>5 DEF Linked, ClientEnd
  <2>2. OldFirst(s)
    BY <1>2, <1>5 DEF Linked, OldFirst, UnderWay
  <2>3. TakenBack(s)
    BY <1>5, SMTT(30) DEF Linked, TakenBack, UnderWay, Heard
  <2> QED
    BY <1>4, <2>1, <2>2, <2>3 DEF Linked
<1>7. ClientEnd(s) /\ OldFirst(s)
  BY <1>6 DEF Linked
<1>8. Linked(c)
  <2>1. /\ c \in EndsSet /\ (ClientEnd(s) => ClientEnd(c)) /\ (OldFirst(s) => OldFirst(c)) /\ c.conn = i
    BY <1>4, LinkParts, SessionFields
  <2> HIDE DEF c
  <2>2. i # NoLink
    BY LinkParts
  <2> QED
    BY <1>7, <2>1, <2>2 DEF Linked, TakenBack
<1>9. /\ n \in EndsSet /\ ClientEnd(n) /\ OldFirst(n)
      /\ n.made = s.made /\ n.cur = s.cur /\ n.link = s.link /\ n.ends = s.ends /\ n.queued = s.queued
      /\ n.toDaemon = s.toDaemon /\ n.toClient = s.toClient /\ n.conn = NoLink /\ n.shown = s.shown
  BY <1>4, <1>7, LinkParts, SessionFields
<1>10. CASE msg = "activate"
  <2>1. dl' = c \/ dl' = LinkReply(s, i, "disconnected") \/ dl' = LinkReply(n, i, "disconnected")
    BY <1>3, <1>10 DEF parseCommand
  <2> HIDE DEF c, n
  <2>2. Linked(LinkReply(s, i, "disconnected"))
    <3>1. CASE i = s.cur
      BY <1>1, <1>4, <1>5, <1>7, <3>1, DisconnectedLinked
    <3>2. CASE i # s.cur
      BY <1>6, <3>2 DEF LinkReply
    <3> QED
      BY <3>1, <3>2
  <2>3. Linked(LinkReply(n, i, "disconnected"))
    <3>1. CASE i = s.cur
      BY <1>1, <1>5, <1>9, <3>1, DisconnectedLinked
    <3>2. CASE i # s.cur
      <4>1. LinkReply(n, i, "disconnected") = n
        BY <1>9, <3>2 DEF LinkReply
      <4>2. dl.cur \in dl.ends => i < dl.cur
        <5>1. dl.cur \in dl.ends => dl.cur = dl.made /\ dl.made \in Nat
          BY <1>1, LinkParts DEF Linked, ClientEnd, EndsSet
        <5>2. i <= dl.made /\ i \in Nat
          BY <1>1, LinkParts DEF Linked, ClientEnd
        <5> QED
          BY <1>5, <3>2, <5>1, <5>2
      <4>3. dl.cur \in dl.ends => dl.link.state = "initializing" /\ ~UnderWay(dl, "status")
        BY <1>1, <4>2 DEF Linked, OldFirst
      <4>4. dl.cur \in dl.ends => dl.shown # "Connected" /\ \A k \in DOMAIN dl.toClient : ~Heard(dl, k)
        BY <4>3 DEF Linked, ClientEnd, Heard, UnderWay
      <4>5. TakenBack(n)
        BY <1>5, <1>9, <4>4, SMTT(30) DEF TakenBack, Heard
      <4> QED
        BY <1>9, <4>1, <4>5 DEF Linked
    <3> QED
      BY <3>1, <3>2
  <2> QED
    BY <1>8, <2>1, <2>2, <2>3
<1>11. CASE msg = "deactivate"
  <2>1. dl' = Broadcast(n, "disconnected")
    BY <1>3, <1>11 DEF parseCommand
  <2> HIDE DEF n
  <2>2. CASE n.cur \in n.ends
    BY <1>9, <2>1, <2>2, DisconnectedLinked DEF Broadcast
  <2>3. CASE n.cur \notin n.ends
    BY <1>9, <2>1, <2>3 DEF Broadcast, Linked, TakenBack
  <2> QED
    BY <2>2, <2>3
<1>12. CASE msg = "status"
  <2>1. dl' = LinkReply(s, i, "status")
    BY <1>3, <1>12 DEF parseCommand
  <2>2. CASE i = s.cur
    <3>1. s.cur \in s.ends /\ \A j \in LinkIds : j < s.cur => s.toDaemon[j] = <<>>
      BY <1>1, <1>2, <1>5, <2>2
    <3> QED
      BY <1>6, <2>1, <2>2, <3>1, StatusLinked
  <2>3. CASE i # s.cur
    BY <1>6, <2>1, <2>3 DEF LinkReply
  <2> QED
    BY <2>2, <2>3
<1> QED
  BY <1>2, <1>10, <1>11, <1>12 DEF Requests, msg

(* The handshake of the tunnel completes.                                  *)
LEMMA HandshakeKeeps == LinkInv /\ LinkHandshake => LinkInv'
<1> SUFFICES ASSUME Linked(dl), LinkHandshake PROVE Linked(dl')
  BY DEF LinkInv
<1> DEFINE s == [dl EXCEPT !.conn = dl.conn, !.shook = TRUE]
<1>1. dl \in EndsSet /\ dl.conn # NoLink /\ dl.conn \in LinkRefs /\ ClientEnd(dl) /\ OldFirst(dl)
  BY DEF LinkHandshake, Linked, EndsSet
<1>2. dl' = Broadcast(s, "connected")
  <2>1. [dl EXCEPT !.shook = TRUE] = s
    BY <1>1 DEF EndsSet
  <2> QED
    BY <2>1 DEF LinkHandshake
<1>3. s \in EndsSet /\ ClientEnd(s) /\ OldFirst(s) /\ s.conn = dl.conn
  BY <1>1, SessionFields
<1> HIDE DEF s
<1>4. CASE s.cur \notin s.ends
  BY <1>1, <1>2, <1>3, <1>4 DEF Broadcast, Linked, TakenBack
<1>5. CASE s.cur \in s.ends
  <2> DEFINE t == LinkReply(s, s.cur, "connected")
  <2>1. dl' = t
    BY <1>2, <1>5 DEF Broadcast
  <2>2. "connected" \in Replies /\ s.toClient \in Seq(Replies)
    BY <1>3 DEF Replies, EndsSet
  <2>3. /\ t \in EndsSet /\ ClientEnd(t)
        /\ t.cur = s.cur /\ t.link = s.link /\ t.ends = s.ends
        /\ t.toDaemon = s.toDaemon /\ t.toClient = Append(s.toClient, "connected") /\ t.conn = s.conn
    BY <1>3, <1>5, <2>2, ReplyFields
  <2> HIDE DEF t
  <2>4. UnderWay(t, "status") => UnderWay(s, "status")
    <3> DEFINE n == Len(s.toClient) + 1
    <3>1. /\ DOMAIN t.toClient = DOMAIN s.toClient \cup {n} /\ t.toClient[n] = "connected"
          /\ \A k \in DOMAIN s.toClient : t.toClient[k] = s.toClient[k]
      BY <2>2, <2>3, ReplyAppended, SMTT(30)
    <3> HIDE DEF n
    <3> QED
      BY <3>1 DEF UnderWay
  <2>5. OldFirst(t)
    BY <1>3, <2>3, <2>4 DEF OldFirst
  <2> QED
    BY <1>1, <1>3, <2>1, <2>3, <2>5 DEF Linked, TakenBack
<1> QED
  BY <1>4, <1>5

(* Every step keeps the invariant.                                         *)
LEMMA LinkNextOK == LinkInv /\ [LinkNext]_dl => LinkInv'
<1> SUFFICES ASSUME LinkInv, [LinkNext]_dl PROVE LinkInv'
  OBVIOUS
<1>1. CASE \E i \in LinkIds : DaemonAccepts(i) \/ DaemonReads(i) \/ DaemonSeesClose(i)
  BY <1>1, DaemonAcceptsKeeps, DaemonReadsKeeps, DaemonSeesCloseKeeps
<1>2. CASE UNCHANGED dl
  BY <1>2 DEF LinkInv
<1> QED
  BY <1>1, <1>2, ConnectKeeps, DisconnectKeeps, RetryKeeps, ClientReadsKeeps, ClientSeesCloseKeeps, HandshakeKeeps,
     DaemonGoneKeeps, DaemonBackKeeps DEF LinkNext

(* When nothing is under way, a client that shows Connected has a session  *)
(* in the daemon.                                                          *)
THEOREM ShownIsReal == LinkSpec => []ConnectedIsReal
<1>1. LinkInv => ConnectedIsReal
  <2> SUFFICES ASSUME Linked(dl), Quiet, dl.cur # NoLink, dl.shown = "Connected", dl.conn = NoLink PROVE FALSE
    BY DEF LinkInv, ConnectedIsReal
  <2>1. dl.link.sock /\ dl.link.state = "ready" /\ dl.cur \in dl.ends
    BY DEF Linked, ClientEnd, Quiet
  <2>2. UnderWay(dl, "disconnected")
    BY <2>1 DEF Linked, TakenBack
  <2> QED
    BY <2>2 DEF UnderWay, Quiet
<1> QED
  BY <1>1, LinkInitOK, LinkNextOK, PTL DEF LinkSpec
=============================================================================
