-------------------------------- MODULE Mstsc --------------------------------
(***************************************************************************)
(* The two threads of src/bin/mstsc-rs.rs.  The rdp thread waits in select *)
(* for the socket, takes the mutex of the RdpClient and reads one frame,   *)
(* whose bitmaps it sends through an mpsc channel.  The main thread runs   *)
(* the window: it draws what the channel holds, takes the same mutex to    *)
(* write the mouse and the keyboard, and at the end stops the rdp thread,  *)
(* shuts the client down and joins.                                        *)
(*                                                                         *)
(* Between the socket and RdpClient::read lies the TLS stream: it takes a  *)
(* whole record off the socket (where select no longer sees it) and keeps  *)
(* what a read leaves of it.  A record is a sequence of frames; its last   *)
(* element may be Part, a frame that goes on in the next record, and a     *)
(* record of the TLS protocol itself has no frame at all.                  *)
(*                                                                         *)
(* The handshake of GlobalChannel is one frame here: Activate takes the    *)
(* client to the state that accepts input, Deactivate takes it back.       *)
(***************************************************************************)
EXTENDS Naturals, Sequences, SequencesExt

CONSTANTS
    Servers,     \* kinds of server the program may meet
    MaxBitmaps,  \* bound: bitmaps the server sends
    MaxShares,   \* bound: activations a plain server offers
    MaxQueue,    \* bound: records in the socket
    MaxBatch     \* bound: frames the other servers put in one record

VARIABLES
    \* the main thread
    gui,       \* where it is in main_gui_loop and main
    window,    \* is the window open?
    shown,     \* bitmaps drawn
    \* the rdp thread
    rdp,       \* where it is in launch_rdp_thread
    accepted,  \* the frame the reading thread has before it in full, or None
    \* shared
    sync,      \* the AtomicBool
    channel,   \* the mpsc channel of bitmaps
    receiver,  \* is its receiver alive?
    \* the client behind the mutex, which the rdp thread holds while it reads
    active,    \* is the global channel in the state Data?
    buffer,    \* what the TLS stream holds of the last record
    \* the network and the server
    server,    \* its kind
    socket,    \* records not yet taken by the TLS stream
    open,      \* has the stream not ended?
    ultimatum, \* has the client written its Disconnect Provider Ultimatum?
    sent, shares, serving,  \* bitmaps, activations; is a share active?
    writing, midframe       \* the record being filled; was its head sent?

guiVars == <<gui, window, shown>>
rdpVars == <<rdp, accepted>>
sharedVars == <<sync, channel, receiver>>
clientVars == <<active, buffer>>
srvVars == <<server, sent, shares, serving, writing, midframe>>
vars == <<guiVars, rdpVars, sharedVars, clientVars, socket, open, ultimatum, srvVars>>

ASSUME MstscAssumption ==
    /\ MaxBitmaps \in Nat /\ MaxQueue \in Nat
    /\ MaxShares \in Nat \ {0} /\ MaxBatch \in Nat \ {0}
    /\ Servers \subseteq {"plain", "batching", "chatty"}

None == [type |-> "None", n |-> 0]
Part == [type |-> "Part", n |-> 0]
Frame(type) == [type |-> type, n |-> 0]
Bitmap(n) == [type |-> "Bitmap", n |-> n]
Frames == {Frame(t) : t \in {"Activate", "Deactivate", "Disconnect"}}
          \cup {Bitmap(n) : n \in 1 .. MaxBitmaps}

GuiSteps == {"check", "draw", "mouse", "keyboard", "present", "shutdown",
             "return", "join", "done", "died"}
RdpSteps == {"select", "check", "lock", "read", "ended", "panicked"}

MstscTypeOK ==
    /\ gui \in GuiSteps /\ window \in BOOLEAN
    /\ shown \in Seq(1 .. MaxBitmaps) /\ channel \in Seq(1 .. MaxBitmaps)
    /\ rdp \in RdpSteps /\ accepted \in Frames \cup {None}
    /\ sync \in BOOLEAN /\ receiver \in BOOLEAN
    /\ active \in BOOLEAN /\ buffer \in Seq(Frames \cup {Part})
    /\ server \in Servers
    /\ socket \in Seq(Seq(Frames \cup {Part}))
    /\ open \in BOOLEAN /\ ultimatum \in BOOLEAN
    /\ sent \in 0 .. MaxBitmaps /\ shares \in 0 .. MaxShares
    /\ serving \in BOOLEAN /\ midframe \in BOOLEAN
    /\ writing \in Seq(Frames)

\* Connector::connect has returned, main has started both threads.
Init ==
    /\ gui = "check" /\ window = TRUE /\ shown = <<>>
    /\ rdp = "select" /\ accepted = None
    /\ sync = TRUE /\ channel = <<>> /\ receiver = TRUE
    /\ active = FALSE /\ buffer = <<>>
    /\ server \in Servers
    /\ socket = <<>> /\ open = TRUE /\ ultimatum = FALSE
    /\ sent = 0 /\ shares = 0 /\ serving = FALSE
    /\ writing = <<>> /\ midframe = FALSE

\* The process ends with the main thread, whatever the rdp thread is doing.
Over == gui \in {"done", "died"}

-----------------------------------------------------------------------------
(***************************************************************************)
(* launch_rdp_thread.                                                      *)
(***************************************************************************)
RdpUnchanged == UNCHANGED <<guiVars, ultimatum, srvVars, sync, receiver>>

\* wait_for_fd: select returns for a record or for the end of the stream.
Select ==
    /\ rdp = "select"
    /\ socket # <<>> \/ ~open
    /\ rdp' = "check"
    /\ RdpUnchanged
    /\ UNCHANGED <<accepted, channel, clientVars, socket, open>>

CheckSync ==
    /\ rdp = "check"
    /\ rdp' = IF sync THEN "lock" ELSE "ended"
    /\ RdpUnchanged
    /\ UNCHANGED <<accepted, channel, clientVars, socket, open>>

Lock ==
    /\ rdp = "lock"
    /\ rdp' = "read"
    /\ RdpUnchanged
    /\ UNCHANGED <<accepted, channel, clientVars, socket, open>>

\* The read of the frame blocks, with the mutex, until the frame is whole.
Fill ==
    /\ rdp = "read" /\ accepted = None
    /\ buffer = <<>> /\ socket # <<>>
    /\ buffer' = Head(socket)
    /\ socket' = Tail(socket)
    /\ RdpUnchanged
    /\ UNCHANGED <<rdpVars, channel, active, open>>

\* Faults of Take: the head of a frame passes for the frame; what is left
\* of the record is dropped.
TakePart ==
    /\ rdp = "read" /\ accepted = None
    /\ buffer # <<>>
    /\ buffer' = Tail(buffer)
    /\ accepted' = Head(buffer)
    /\ RdpUnchanged
    /\ UNCHANGED <<rdp, channel, active, socket, open>>

TakeAll ==
    /\ rdp = "read" /\ accepted = None
    /\ buffer # <<>>
    /\ buffer' = <<>>
    /\ accepted' = IF Head(buffer) = Part THEN None ELSE Head(buffer)
    /\ RdpUnchanged
    /\ UNCHANGED <<rdp, channel, active, socket, open>>

Take ==
    /\ rdp = "read" /\ accepted = None
    /\ buffer # <<>>
    /\ buffer' = Tail(buffer)
    /\ accepted' = IF Head(buffer) = Part THEN None ELSE Head(buffer)
    /\ RdpUnchanged
    /\ UNCHANGED <<rdp, channel, active, socket, open>>

\* An Io error is not an Error::RdpError: the loop goes on.
ReadEof ==
    /\ rdp = "read" /\ accepted = None
    /\ buffer = <<>> /\ socket = <<>> /\ ~open
    /\ rdp' = "select"
    /\ RdpUnchanged
    /\ UNCHANGED <<accepted, channel, clientVars, socket, open>>

\* Fault of HandleBitmap: a bitmap is dropped while another one waits.
HandleBitmapBusy ==
    /\ rdp = "read" /\ accepted.type = "Bitmap"
    /\ rdp' = "select"
    /\ channel' = IF channel = <<>> THEN <<accepted.n>> ELSE channel
    /\ accepted' = None
    /\ RdpUnchanged
    /\ UNCHANGED <<clientVars, socket, open>>

\* The callback sends the bitmap; send().unwrap() panics without a receiver.
HandleBitmap ==
    /\ rdp = "read" /\ accepted.type = "Bitmap"
    /\ IF ~active THEN rdp' = "ended" /\ UNCHANGED channel    \* InvalidCast
       ELSE IF receiver THEN rdp' = "select" /\ channel' = Append(channel, accepted.n)
       ELSE rdp' = "panicked" /\ UNCHANGED channel
    /\ accepted' = None
    /\ RdpUnchanged
    /\ UNCHANGED <<clientVars, socket, open>>

HandleShare ==
    /\ rdp = "read" /\ accepted.type \in {"Activate", "Deactivate"}
    /\ active' = (accepted.type = "Activate")
    /\ rdp' = "select"
    /\ accepted' = None
    /\ RdpUnchanged
    /\ UNCHANGED <<channel, buffer, socket, open>>

HandleDisconnect ==
    /\ rdp = "read" /\ accepted.type = "Disconnect"
    /\ rdp' = "ended"
    /\ accepted' = None
    /\ RdpUnchanged
    /\ UNCHANGED <<channel, clientVars, socket, open>>

-----------------------------------------------------------------------------
(***************************************************************************)
(* main_gui_loop.  The rdp thread holds the mutex while it is in "read".   *)
(***************************************************************************)
MutexFree == rdp # "read"
SenderAlive == rdp \notin {"ended", "panicked"}

GuiUnchanged == UNCHANGED <<rdpVars, clientVars, socket, open, srvVars>>

CloseWindow ==
    /\ window /\ ~Over
    /\ window' = FALSE
    /\ GuiUnchanged
    /\ UNCHANGED <<gui, shown, sharedVars, ultimatum>>

\* Fault of LoopCheck: sync is left set.
LoopCheckLeavesSync ==
    /\ gui = "check"
    /\ gui' = IF window /\ sync THEN "draw" ELSE "shutdown"
    /\ GuiUnchanged
    /\ UNCHANGED <<window, shown, sharedVars, ultimatum>>

\* At the end of the loop sync is cleared.
LoopCheck ==
    /\ gui = "check"
    /\ IF window /\ sync THEN gui' = "draw" /\ UNCHANGED sync
       ELSE gui' = "shutdown" /\ sync' = FALSE
    /\ GuiUnchanged
    /\ UNCHANGED <<window, shown, channel, receiver, ultimatum>>

\* Faults of Draw: the youngest bitmap first; Disconnected taken for Empty.
DrawYoungest ==
    /\ gui = "draw"
    /\ \/ /\ channel # <<>>
          /\ shown' = Append(shown, Last(channel))
          /\ channel' = Front(channel)
          /\ gui' \in {"draw", "mouse"}
          /\ UNCHANGED sync
       \/ /\ channel = <<>>
          /\ sync' = (sync /\ SenderAlive)
          /\ gui' = "mouse"
          /\ UNCHANGED <<shown, channel>>
    /\ GuiUnchanged
    /\ UNCHANGED <<window, receiver, ultimatum>>

DrawIgnoresDisconnected ==
    /\ gui = "draw"
    /\ \/ /\ channel # <<>>
          /\ shown' = Append(shown, Head(channel))
          /\ channel' = Tail(channel)
          /\ gui' \in {"draw", "mouse"}
       \/ /\ channel = <<>>
          /\ gui' = "mouse"
          /\ UNCHANGED <<shown, channel>>
    /\ GuiUnchanged
    /\ UNCHANGED <<window, sync, receiver, ultimatum>>

\* try_recv: a bitmap (and again, until the time of a refresh is over), or
\* Empty, or Disconnected once the sender is gone and the channel is empty.
Draw ==
    /\ gui = "draw"
    /\ \/ /\ channel # <<>>
          /\ shown' = Append(shown, Head(channel))
          /\ channel' = Tail(channel)
          /\ gui' \in {"draw", "mouse"}
          /\ UNCHANGED sync
       \/ /\ channel = <<>>
          /\ sync' = (sync /\ SenderAlive)
          /\ gui' = "mouse"
          /\ UNCHANGED <<shown, channel>>
    /\ GuiUnchanged
    /\ UNCHANGED <<window, receiver, ultimatum>>

\* One or more calls of RdpClient::write: an error leaves main_gui_loop, and
\* its unwrap in main ends the process.  A link that the server closed
\* still takes a write or fails it.
WriteInput(next) ==
    \/ /\ active
       /\ gui' = next
    \/ /\ ~active \/ ~open
       /\ gui' = "died"

\* The pointer is outside the window, or its position is written.
Mouse ==
    /\ gui = "mouse"
    /\ \/ gui' = "keyboard"
       \/ MutexFree /\ WriteInput("keyboard")
    /\ GuiUnchanged
    /\ UNCHANGED <<window, shown, sharedVars, ultimatum>>

\* The mutex is taken even when no key has changed (get_keys of minifb
\* always has an answer).
Keyboard ==
    /\ gui = "keyboard"
    /\ MutexFree
    /\ gui' = "present" \/ WriteInput("present")
    /\ GuiUnchanged
    /\ UNCHANGED <<window, shown, sharedVars, ultimatum>>

Present ==
    /\ gui = "present"
    /\ gui' = "check"
    /\ GuiUnchanged
    /\ UNCHANGED <<window, shown, sharedVars, ultimatum>>

\* fast_bitmap_transfer or update_with_buffer fails.
DrawFails ==
    /\ (gui = "draw" /\ channel # <<>>) \/ gui = "present"
    /\ gui' = "died"
    /\ GuiUnchanged
    /\ UNCHANGED <<window, shown, sharedVars, ultimatum>>

\* RdpClient::shutdown under the mutex.
Shutdown ==
    /\ gui = "shutdown"
    /\ MutexFree
    /\ \/ gui' = "return" /\ ultimatum' = TRUE
       \/ ~open /\ gui' = "died" /\ UNCHANGED ultimatum
    /\ GuiUnchanged
    /\ UNCHANGED <<window, shown, sharedVars>>

\* main_gui_loop returns: it owns the receiver.
Return ==
    /\ gui = "return"
    /\ gui' = "join"
    /\ receiver' = FALSE
    /\ GuiUnchanged
    /\ UNCHANGED <<window, shown, sync, channel, ultimatum>>

\* rdp_thread.join().unwrap()
Join ==
    /\ gui = "join"
    /\ \/ rdp = "ended" /\ gui' = "done"
       \/ rdp = "panicked" /\ gui' = "died"
    /\ GuiUnchanged
    /\ UNCHANGED <<window, shown, sharedVars, ultimatum>>

-----------------------------------------------------------------------------
(***************************************************************************)
(* The server, which is not part of the repository: bitmaps while a share  *)
(* is active, records of frames, the last of which may go on in the next   *)
(* record, and the end of the stream once it read the ultimatum, or        *)
(* whenever it likes between two frames.  A plain server puts one frame in *)
(* a record, a batching one up to MaxBatch, and a chatty one also sends    *)
(* records of the TLS protocol, which have no frame; the last two offer    *)
(* one share.                                                              *)
(***************************************************************************)
Bound(plain, other) == IF server = "plain" THEN plain ELSE other

Say(frame) ==
    /\ open
    /\ Len(writing) < Bound(1, MaxBatch)
    /\ writing' = Append(writing, frame)
    /\ UNCHANGED <<guiVars, rdpVars, sharedVars, clientVars, server, socket, open,
                   ultimatum, midframe>>

SrvActivate ==
    /\ ~serving /\ shares < Bound(MaxShares, 1)
    /\ serving' = TRUE
    /\ shares' = shares + 1
    /\ Say(Frame("Activate"))
    /\ UNCHANGED sent

SrvDeactivate ==
    /\ serving
    /\ serving' = FALSE
    /\ Say(Frame("Deactivate"))
    /\ UNCHANGED <<sent, shares>>

SrvBitmap ==
    /\ serving /\ sent < MaxBitmaps
    /\ sent' = sent + 1
    /\ Say(Bitmap(sent'))
    /\ UNCHANGED <<shares, serving>>

SrvDisconnect ==
    /\ Say(Frame("Disconnect"))
    /\ UNCHANGED <<sent, shares, serving>>

Transmit(record) ==
    /\ open
    /\ Len(socket) < MaxQueue
    /\ socket' = Append(socket, record)
    /\ UNCHANGED <<guiVars, rdpVars, sharedVars, clientVars, server, open, ultimatum,
                   sent, shares, serving>>

SrvSend ==
    /\ writing # <<>>
    /\ Transmit(writing)
    /\ writing' = <<>> /\ midframe' = FALSE

\* The head of the last frame goes out, its rest stays for the next record.
SrvSplit ==
    /\ writing # <<>> /\ ~midframe
    /\ Transmit(Front(writing) \o <<Part>>)
    /\ writing' = <<Last(writing)>> /\ midframe' = TRUE

SrvTlsRecord ==
    /\ server = "chatty"
    /\ Transmit(<<>>)
    /\ UNCHANGED <<writing, midframe>>

SrvClose ==
    /\ open
    /\ open' = FALSE
    /\ UNCHANGED <<guiVars, rdpVars, sharedVars, clientVars, socket, ultimatum, srvVars>>

-----------------------------------------------------------------------------
RdpStep == Select \/ CheckSync \/ Lock \/ Fill \/ Take \/ ReadEof
           \/ HandleBitmap \/ HandleShare \/ HandleDisconnect

RdpThread == ~Over /\ RdpStep

MainThread == LoopCheck \/ Draw \/ Mouse \/ Keyboard \/ Present \/ DrawFails
              \/ Shutdown \/ Return \/ Join

Server == SrvActivate \/ SrvDeactivate \/ SrvBitmap \/ SrvDisconnect
          \/ SrvSend \/ SrvSplit \/ SrvTlsRecord \/ SrvClose

Next == RdpThread \/ MainThread \/ CloseWindow \/ Server

(***************************************************************************)
(* Both threads are scheduled.  A thread that finds the mutex free again   *)
(* and again gets it in the end: std::sync::Mutex promises no order, and   *)
(* the other thread lets go of it before each select.  The server sends    *)
(* what it has begun and closes after the ultimatum.  Nobody has to close  *)
(* the window.                                                             *)
(***************************************************************************)
Fairness ==
    /\ WF_vars(RdpThread)
    /\ WF_vars(LoopCheck \/ Draw \/ Present \/ Return \/ Join)
    /\ WF_vars(Mouse)
    /\ SF_vars(Keyboard) /\ SF_vars(Shutdown)
    /\ WF_vars(SrvSend)
    /\ WF_vars(ultimatum /\ SrvClose)

Spec == Init /\ [][Next]_vars
FairSpec == Spec /\ Fairness

-----------------------------------------------------------------------------
(***************************************************************************)
(* Every bitmap the server sent is, in order, drawn, in the channel, in    *)
(* the hand of the rdp thread, in the TLS stream, in the socket or still   *)
(* with the server, until the rdp thread has panicked: the channel, the    *)
(* mutex and the TLS stream neither lose, double nor swap one.             *)
(***************************************************************************)
Delivered == shown \o channel
Line == <<<<accepted>>, buffer>> \o socket \o <<writing>>
Places == {p \in UNION {{i} \X DOMAIN Line[i] : i \in DOMAIN Line} :
              Line[p[1]][p[2]].type = "Bitmap"}
NumberAt(p) == Line[p[1]][p[2]].n
Earlier(p, q) == p[1] < q[1] \/ (p[1] = q[1] /\ p[2] < q[2])

BitmapsInOrder ==
    rdp # "panicked" =>
        /\ \A i \in DOMAIN Delivered : Delivered[i] = i
        /\ {NumberAt(p) : p \in Places} = Len(Delivered) + 1 .. sent
        /\ \A p, q \in Places : Earlier(p, q) => NumberAt(p) < NumberAt(q)

(***************************************************************************)
(* The client ends after its window is closed, though the rdp thread waits *)
(* in a select without a timeout and reads with the mutex held: the        *)
(* server's answer to the ultimatum wakes it, and sync stops it.  Only a   *)
(* record without frames can keep it alive, by a read that never returns:  *)
(* the thread waits for a frame with the mutex, the main thread for the    *)
(* mutex.  With any server whose frames come in the end, the client ends.  *)
(***************************************************************************)
Terminates ==
    /\ ~window /\ server # "chatty" ~> Over
    /\ []<>(rdp # "read") => (~window ~> Over)

(***************************************************************************)
(* The end of the rdp thread ends the client: the sender is dropped with   *)
(* it, main_gui_loop draws what is left in the channel and clears sync.    *)
(***************************************************************************)
StopsWithThread ==
    /\ (rdp = "ended") ~> Over
    /\ [](gui = "join" /\ rdp = "ended" => ~sync)

(***************************************************************************)
(* A bitmap the server has sent, unless it is a chatty one that lets the   *)
(* thread hold the mutex, is drawn while the window and the link are open: *)
(* what the doc of launch_rdp_thread promises ("receiving event (mostly    *)
(* bitmap event) And send back to the gui thread").                        *)
(***************************************************************************)
EveryBitmapDrawn ==
    \A n \in 1 .. MaxBitmaps :
        (sent = n /\ server # "chatty") ~> Len(shown) >= n \/ Over \/ ~window \/ ~open

(***************************************************************************)
(* The unwrap of send in launch_rdp_thread and the unwrap of join in main  *)
(* assert that the rdp thread does not panic.                              *)
(***************************************************************************)
NeverPanics == rdp # "panicked"

(***************************************************************************)
(* Input written before the end of the handshake is no error: what the doc *)
(* of RdpClient::try_write is about.  Only a link that is gone makes input *)
(* end the client.                                                         *)
(***************************************************************************)
InputIsNoError ==
    [][gui' = "died" /\ gui \in {"mouse", "keyboard"} => ~open]_vars
=============================================================================
