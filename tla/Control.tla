------------------------------ MODULE Control ------------------------------
(***************************************************************************)
(* The control socket of a daemon (control_server_loop,                    *)
(* handle_control_client and the ctl_ functions of node/node.cpp,          *)
(* control/control.hpp) and the shells that use it (run_shell in           *)
(* main.cpp).                                                              *)
(*                                                                         *)
(* A shell runs a list of requests, prog, and shows the prompt when it is  *)
(* empty.  It has one request outstanding at a time: req is the line it    *)
(* has written, out the bytes that the daemon has written back and that    *)
(* read_line has not returned: a line_reader keeps what follows a newline, *)
(* so that where read() cuts the stream makes no difference.  A byte is a  *)
(* character, or stands for a word of the reply.  A peer is the number of  *)
(* its connection; a text is a sequence of characters.                     *)
(*                                                                         *)
(* A write to a socket whose other end is closed raises SIGPIPE, which no  *)
(* part of the program handles or ignores: it ends the writing process.    *)
(*                                                                         *)
(* view, drained, shown and picked are history: the peers on the screen,   *)
(* the texts taken from the ring for a shell and those that its do_recv    *)
(* has got and displayed since its last prompt (Screen is what there is to *)
(* see of them), and what a SEND or SENDFILE met when it looked up its     *)
(* peer; ignored are the shells whose request the daemon has passed over.  *)
(***************************************************************************)
EXTENDS PeerTable, Integers, FiniteSets, SequencesExt

CONSTANTS
    Shell,
    Commands,    \* Commands[s]: what the user of s may type, see Typed
    Texts,       \* Texts[k]: the k-th message that a peer sends
    RING,        \* capacity of received_msgs_, 200 in the build
    MAX_LINES,   \* lines of a message that are displayed, 5 in the build
    MaxPeers,    \* bound: connections that peers make
    to_string    \* to_string[n]: std::to_string of n

(* x stands for the printable characters, BEL for those that are not, less *)
(* the newline, the carriage return and the tabulator.                     *)
Char == {"\\", "n", "r", "LF", "CR", "x", "BEL"}

(* The sizes and indices that are written.                                 *)
Number == 0 .. RING + MaxPeers

VARIABLES
    daemon,                        \* whether the daemon runs
    peers_, received_msgs_,        \* node
    born, rcvd,                    \* connections made and messages received so far
    sh, prog, wait, left,          \* shells
    req, out,                      \* the two directions of a connection
    hp, job,                       \* handle_control_client, one thread per shell
    view, drained, shown, picked, ignored

node    == <<peers_, received_msgs_, born, rcvd>>
shell   == <<sh, prog, wait, left, view, shown>>
handler == <<hp, job, drained, picked, ignored>>
vars    == <<daemon, node, shell, req, out, handler>>

-----------------------------------------------------------------------------
(* The lines                                                               *)

(* Faulty variant: a carriage return is sent as it is.                     *)
escape_ctl_KeepsCR(text) ==
    LET esc(c) == CASE c = "\\" -> <<"\\", "\\">> [] c = "LF" -> <<"\\", "n">>
                    [] OTHER -> <<c>>
    IN  FlattenSeq([i \in DOMAIN text |-> esc(text[i])])

(* Faulty variant: a newline is sent as it is.                             *)
escape_ctl_KeepsLF(text) ==
    LET esc(c) == CASE c = "\\" -> <<"\\", "\\">> [] c = "CR" -> <<"\\", "r">>
                    [] OTHER -> <<c>>
    IN  FlattenSeq([i \in DOMAIN text |-> esc(text[i])])

(* Newlines, carriage returns and backslashes get two characters.          *)
escape_ctl(text) ==
    LET esc(c) == CASE c = "\\" -> <<"\\", "\\">> [] c = "LF" -> <<"\\", "n">>
                    [] c = "CR" -> <<"\\", "r">>  [] OTHER -> <<c>>
    IN  FlattenSeq([i \in DOMAIN text |-> esc(text[i])])

unescape_ctl(s) ==
    LET from[i \in Nat] ==
          IF i > Len(s) THEN <<>>
          ELSE IF s[i] = "\\" /\ i < Len(s) /\ s[i + 1] \in {"n", "r", "\\"}
          THEN <<CASE s[i + 1] = "n" -> "LF" [] s[i + 1] = "r" -> "CR" [] OTHER -> "\\">>
               \o from[i + 2]
          ELSE <<s[i]>> \o from[i + 1]
    IN  from[1]

Header(word, n) == <<word, to_string[n], "LF">>
Rows(rows) == FlattenSeq([i \in DOMAIN rows |-> rows[i] \o <<"LF">>])

(* std::stoi of the number in a header: -1 when it throws.                 *)
stoi(line, word) ==
    IF Len(line) = 2 /\ line[1] = word /\ \E n \in Number : to_string[n] = line[2]
    THEN CHOOSE n \in Number : to_string[n] = line[2]
    ELSE -1

(* read_line: what stands before the first newline, less a CR at its end.  *)
HasLine(s) == Contains(s, "LF")
NewlineAt(s) == CHOOSE i \in DOMAIN s : s[i] = "LF" /\ \A j \in 1 .. i - 1 : s[j] # "LF"
FirstLine(s) ==
    LET line == SubSeq(s, 1, NewlineAt(s) - 1)
    IN  IF line # <<>> /\ Last(line) = "CR" THEN Front(line) ELSE line
AfterLine(s) == SubSeq(s, NewlineAt(s) + 1, Len(s))

(* What do_recv displays of a text: a binary one is only summarised by its *)
(* size; of any other the first MAX_LINES lines are displayed, which are   *)
(* the characters that follow fewer than MAX_LINES newlines, and the size  *)
(* if there are more.  bytes is 0 when no size is displayed.               *)
Count(text, c) == Cardinality({i \in DOMAIN text : text[i] = c})
Binary(text) == text # <<>> /\ Count(text, "BEL") > Len(text) \div 10
Display(text) ==
    LET pos == Cardinality({i \in DOMAIN text :
                              Count(SubSeq(text, 1, i - 1), "LF") < MAX_LINES})
    IN  IF Binary(text) THEN [text |-> <<>>, bytes |-> Len(text)]
        ELSE [text  |-> SubSeq(text, 1, pos),
              bytes |-> IF pos < Len(text) THEN Len(text) ELSE 0]

-----------------------------------------------------------------------------
(* The requests of a shell.  The argument of SEND and SENDFILE is the      *)
(* index of a peer, or why there is none; CR stands for an argument that   *)
(* is a carriage return only, which read_line removes.                     *)

Arg == {"CR", "no_space", "not_a_number"} \cup {to_string[i] : i \in 0 .. MaxPeers + 1}
Request(cmd, arg) == <<cmd, arg>>
LIST == Request("LIST", "")
RECV == Request("RECV", "")
QUIT == Request("QUIT", "")

Typed ==
    ({"/quit", "EOF", "/peers", "/msgs", "other"} \X {""})
    \cup ({"/msg", "/file"} \X Arg)
    \cup ({"/all"} \X {"CR", "text"})

ASSUME ControlAssumption ==
    /\ \A s \in Shell : Commands[s] \subseteq Typed
    /\ Texts \in Seq(Seq(Char))
    /\ RING \in Nat \ {0} /\ MAX_LINES \in Nat \ {0}
    /\ MaxPeers \in Nat
    /\ to_string \in [Number -> STRING \ {"LF", "CR"}]
    /\ \A m, n \in Number : to_string[m] = to_string[n] => m = n

(* The requests that a line makes, before the next prompt.                 *)
Requests(t) ==
    CASE t[1] = "/peers" -> <<LIST, RECV>>
      [] t[1] = "/msgs"  -> <<RECV, RECV>>
      [] t[1] = "/msg"   -> <<Request("SEND", t[2]), RECV>>
      [] t[1] = "/file"  -> <<Request("SENDFILE", t[2]), RECV>>
      [] t[1] = "/all"   -> <<Request("BROADCAST", t[2]), RECV>>
      [] OTHER           -> <<RECV>>

NoRequest == Request("", "")

-----------------------------------------------------------------------------
Init ==
    /\ daemon = TRUE
    /\ peers_ = <<>> /\ received_msgs_ = <<>> /\ born = 0 /\ rcvd = 0
    /\ sh = [s \in Shell |-> "off"] /\ prog = [s \in Shell |-> <<>>]
    /\ wait = [s \in Shell |-> "no"] /\ left = [s \in Shell |-> 0]
    /\ req = [s \in Shell |-> NoRequest] /\ out = [s \in Shell |-> <<>>]
    /\ hp = [s \in Shell |-> "none"] /\ job = [s \in Shell |-> <<>>]
    /\ view = [s \in Shell |-> <<>>] /\ drained = [s \in Shell |-> <<>>]
    /\ shown = [s \in Shell |-> <<>>]
    /\ picked = [s \in Shell |-> <<>>] /\ ignored = {}

-----------------------------------------------------------------------------
(* The shell                                                               *)

(* run_shell connects, control_server_loop accepts and starts a thread.    *)
Connect(s) ==
    /\ sh[s] = "off" /\ daemon
    /\ sh' = [sh EXCEPT ![s] = "on"]
    /\ prog' = [prog EXCEPT ![s] = <<LIST, RECV>>]
    /\ hp' = [hp EXCEPT ![s] = "idle"]
    /\ UNCHANGED <<daemon, node, wait, left, view, shown, req, out, job, drained, picked, ignored>>

(* The process of the shell ends, by itself or killed.                     *)
End(s) ==
    /\ sh' = [sh EXCEPT ![s] = "ended"]
    /\ prog' = [prog EXCEPT ![s] = <<>>] /\ wait' = [wait EXCEPT ![s] = "no"]
    /\ left' = [left EXCEPT ![s] = 0]
    /\ out' = [out EXCEPT ![s] = <<>>]
    /\ view' = [view EXCEPT ![s] = <<>>] /\ shown' = [shown EXCEPT ![s] = <<>>]

(* send_cmd: a daemon that is gone makes it fatal.                         *)
Ask(s) ==
    /\ sh[s] = "on" /\ wait[s] = "no" /\ prog[s] # <<>>
    /\ \/ /\ daemon
          /\ req' = [req EXCEPT ![s] = Head(prog[s])]
          /\ prog' = [prog EXCEPT ![s] = Tail(@)]
          /\ wait' = [wait EXCEPT ![s] = IF Head(prog[s]) = LIST THEN "peers"
                                         ELSE IF Head(prog[s]) = RECV THEN "msgs"
                                         ELSE "reply"]
          /\ view' = [view EXCEPT ![s] = IF Head(prog[s]) = LIST THEN <<>> ELSE @]
          /\ UNCHANGED <<sh, left, shown, out>>
       \/ ~daemon /\ End(s) /\ UNCHANGED req
    /\ UNCHANGED <<daemon, node, handler>>

(* read_line returns the header of do_list and do_recv, one of their rows, *)
(* or the answer to another request.                                       *)
Line(s) ==
    /\ wait[s] # "no" /\ HasLine(out[s])
    /\ LET line   == FirstLine(out[s])
           header == left[s] = 0
           n == IF header THEN stoi(line, IF wait[s] = "peers" THEN "PEERS" ELSE "MSGS")
                ELSE left[s] - 1
           more == wait[s] # "reply" /\ n > 0
       IN  /\ wait' = [wait EXCEPT ![s] = IF more THEN @ ELSE "no"]
           /\ left' = [left EXCEPT ![s] = IF more THEN n ELSE 0]
           /\ view' = [view EXCEPT ![s] = IF ~header /\ wait[s] = "peers"
                                          THEN Append(@, line) ELSE @]
           /\ shown' = [shown EXCEPT ![s] =
                IF ~header /\ wait[s] = "msgs" /\ line # <<>> /\ line[1] = "pk"
                THEN Append(@, unescape_ctl(Tail(line))) ELSE @]
    /\ out' = [out EXCEPT ![s] = AfterLine(@)]
    /\ UNCHANGED <<daemon, node, sh, prog, req, handler>>

(* The end of the file ends the wait for a reply.                          *)
EndOfFile(s) ==
    /\ wait[s] # "no" /\ ~HasLine(out[s]) /\ ~daemon
    /\ wait' = [wait EXCEPT ![s] = "no"] /\ left' = [left EXCEPT ![s] = 0]
    /\ UNCHANGED <<daemon, node, sh, prog, view, shown, req, out, handler>>

(* The user types a line at the prompt.                                    *)
AtPrompt(s) == sh[s] = "on" /\ wait[s] = "no" /\ prog[s] = <<>>

Type(s, t) ==
    /\ AtPrompt(s)
    /\ \/ /\ t[1] \notin {"/quit", "EOF"}
          /\ prog' = [prog EXCEPT ![s] = Requests(t)]
          /\ shown' = [shown EXCEPT ![s] = <<>>]
          /\ UNCHANGED <<sh, wait, left, view, req, out>>
       \/ /\ t[1] = "/quit"
          /\ req' = [req EXCEPT ![s] = IF daemon THEN QUIT ELSE @]
          /\ End(s)
       \/ /\ t[1] = "EOF"
          /\ End(s)
          /\ UNCHANGED req
    /\ picked' = [picked EXCEPT ![s] = <<>>] /\ drained' = [drained EXCEPT ![s] = <<>>]
    /\ UNCHANGED <<daemon, node, hp, job, ignored>>

(* The shell is killed, at any time.                                       *)
Kill(s) ==
    /\ sh[s] = "on"
    /\ End(s)
    /\ UNCHANGED <<daemon, node, req, handler>>

-----------------------------------------------------------------------------
(* The daemon                                                              *)

(* What a thread has yet to do is a list of peers to send to, and then the *)
(* reply to write.                                                         *)
Job(targets, reply) == [to |-> targets, count |-> 0, reply |-> reply]
Then(s, j) ==
    /\ hp' = [hp EXCEPT ![s] = "busy"]
    /\ job' = [job EXCEPT ![s] = j]
Say(word) == <<word, "LF">>

ctl_list(s) ==
    /\ LET row(i) == <<to_string[i], to_string[peers_[i]]>>
       IN  Then(s, Job(<<>>, Header("PEERS", Len(peers_))
                             \o Rows([i \in DOMAIN peers_ |-> row(i)])))
    /\ UNCHANGED <<received_msgs_, drained, picked>>

(* Faulty variant: the reply has no header when there is nothing to say.   *)
ctl_recv_NoEmptyHeader(s) ==
    /\ Then(s, Job(<<>>, (IF received_msgs_ = <<>> THEN <<>>
                          ELSE Header("MSGS", Len(received_msgs_)))
                         \o Rows([i \in DOMAIN received_msgs_ |->
                                    <<"pk">> \o escape_ctl(received_msgs_[i])])))
    /\ received_msgs_' = <<>>
    /\ drained' = [drained EXCEPT ![s] = @ \o received_msgs_]
    /\ UNCHANGED picked

(* The ring is emptied before anything is written.                         *)
ctl_recv(s) ==
    /\ Then(s, Job(<<>>, Header("MSGS", Len(received_msgs_))
                         \o Rows([i \in DOMAIN received_msgs_ |->
                                    <<"pk">> \o escape_ctl(received_msgs_[i])])))
    /\ received_msgs_' = <<>>
    /\ drained' = [drained EXCEPT ![s] = @ \o received_msgs_]
    /\ UNCHANGED picked

(* ctl_send and ctl_send_file: without a number, with a file that cannot   *)
(* be read or is empty (not usable), or with an index out of range, the    *)
(* reply is ERR; otherwise the peer at the index is picked under the lock. *)
ctl_send(s, arg, usable) ==
    LET in(i) == to_string[i] = arg /\ i \in DOMAIN peers_
    IN  /\ \/ /\ usable
              /\ \E i \in 1 .. MaxPeers :
                   /\ in(i)
                   /\ Then(s, Job(<<peers_[i]>>, Say("OK")))
                   /\ picked' = [picked EXCEPT ![s] = <<i, peers_[i], peers_>>]
           \/ /\ ~usable \/ \A i \in 1 .. MaxPeers : ~in(i)
              /\ Then(s, Job(<<>>, Say("ERR")))
              /\ UNCHANGED picked
        /\ UNCHANGED <<received_msgs_, drained>>

(* The text goes to the connections of this moment.                        *)
ctl_broadcast(s) ==
    /\ Then(s, Job(peers_, Say("OK_n")))
    /\ UNCHANGED <<received_msgs_, drained, picked>>

(* The handler has a line.  One that it does not know, or whose argument   *)
(* is empty, is passed over without a word.                                *)
Dispatch(s) ==
    /\ daemon /\ hp[s] = "idle" /\ req[s] # NoRequest
    /\ req' = [req EXCEPT ![s] = NoRequest]
    /\ LET cmd == req[s][1]
           arg == req[s][2]
       IN  \/ cmd = "LIST" /\ ctl_list(s)
           \/ cmd = "RECV" /\ ctl_recv(s)
           \/ cmd = "SEND" /\ arg # "CR" /\ ctl_send(s, arg, TRUE)
           \/ cmd = "SENDFILE" /\ arg # "CR" /\ \E usable \in BOOLEAN : ctl_send(s, arg, usable)
           \/ cmd = "BROADCAST" /\ arg # "CR" /\ ctl_broadcast(s)
           \/ /\ arg = "CR"
              /\ UNCHANGED <<hp, job, received_msgs_, drained, picked>>
           \/ /\ cmd = "QUIT"
              /\ hp' = [hp EXCEPT ![s] = "none"]
              /\ UNCHANGED <<job, received_msgs_, drained, picked>>
    /\ ignored' = IF req[s][2] = "CR" THEN ignored \cup {s} ELSE ignored
    /\ UNCHANGED <<daemon, peers_, born, rcvd, shell, out>>

(* One call of send_msg or send_chunked_msg, which may fail: see PeerLink. *)
Send(s) ==
    /\ daemon /\ hp[s] = "busy" /\ job[s].to # <<>>
    /\ \E ok \in BOOLEAN :
         job' = [job EXCEPT ![s].to = Tail(@), ![s].count = IF ok THEN @ + 1 ELSE @]
    /\ UNCHANGED <<daemon, node, shell, req, out, hp, drained, picked, ignored>>

(* What is written: SEND answers ERR when the call failed, BROADCAST the   *)
(* number that succeeded.                                                  *)
Reply(j) ==
    CASE j.reply = Say("OK_n")                  -> <<"OK_", to_string[j.count], "LF">>
      [] j.reply = Say("OK") /\ j.count = 0     -> Say("ERR")
      [] OTHER                                  -> j.reply

(* The process of the daemon ends: every thread of it, and its requests.   *)
Die ==
    /\ daemon' = FALSE
    /\ peers_' = <<>> /\ received_msgs_' = <<>> /\ born' = 0 /\ rcvd' = 0
    /\ hp' = [x \in Shell |-> "none"] /\ job' = [x \in Shell |-> <<>>]
    /\ req' = [x \in Shell |-> NoRequest]
    /\ picked' = [x \in Shell |-> IF sh[x] = "ended" THEN <<>> ELSE picked[x]]
    /\ drained' = [x \in Shell |-> IF sh[x] = "ended" THEN <<>> ELSE drained[x]]

(* ctl_send_file of a path that can be opened but not read, a directory:   *)
(* istreambuf_iterator throws, nothing in the thread catches it, and       *)
(* std::terminate ends the daemon.                                         *)
SendFileThrows(s) ==
    /\ daemon /\ hp[s] = "idle" /\ req[s][1] = "SENDFILE"
    /\ \E i \in 0 .. MaxPeers + 1 : req[s][2] = to_string[i]
    /\ Die
    /\ UNCHANGED <<shell, out, ignored>>

(* The reply is written; SIGPIPE ends the daemon if the shell has gone.    *)
Write(s) ==
    /\ daemon /\ hp[s] = "busy" /\ job[s].to = <<>>
    /\ \/ /\ sh[s] = "on"
          /\ out' = [out EXCEPT ![s] = @ \o Reply(job[s])]
          /\ hp' = [hp EXCEPT ![s] = "idle"]
          /\ job' = [job EXCEPT ![s] = <<>>]
          /\ UNCHANGED <<daemon, node, req, drained, picked>>
       \/ /\ sh[s] = "ended"
          /\ Die
          /\ UNCHANGED out
    /\ UNCHANGED <<shell, ignored>>

(* read_line of the handler meets the end of the file.                     *)
HangUp(s) ==
    /\ daemon /\ hp[s] = "idle" /\ req[s] = NoRequest /\ sh[s] = "ended"
    /\ hp' = [hp EXCEPT ![s] = "none"]
    /\ picked' = [picked EXCEPT ![s] = <<>>] /\ drained' = [drained EXCEPT ![s] = <<>>]
    /\ UNCHANGED <<daemon, node, shell, req, out, job, ignored>>

-----------------------------------------------------------------------------
(* The other threads of the daemon: see NodeNetwork and PeerLink.          *)

(* Faulty variant: the newest connection comes first.                      *)
add_peer_Front ==
    /\ daemon /\ born < MaxPeers
    /\ born' = born + 1
    /\ peers_' = <<born + 1>> \o peers_
    /\ UNCHANGED <<daemon, received_msgs_, rcvd, shell, req, out, handler>>

add_peer ==
    /\ daemon /\ born < MaxPeers
    /\ born' = born + 1
    /\ peers_' = Append(peers_, born + 1)
    /\ UNCHANGED <<daemon, received_msgs_, rcvd, shell, req, out, handler>>

remove_peer(p) ==
    /\ daemon /\ Contains(peers_, p)
    /\ peers_' = erased(peers_, p)
    /\ UNCHANGED <<daemon, received_msgs_, born, rcvd, shell, req, out, handler>>

(* recv_loop adds a message to the ring, whose oldest makes room.          *)
Receive ==
    /\ daemon /\ rcvd < Len(Texts)
    /\ rcvd' = rcvd + 1
    /\ received_msgs_' =
         Append(IF Len(received_msgs_) >= RING THEN Tail(received_msgs_) ELSE received_msgs_,
                Texts[rcvd + 1])
    /\ UNCHANGED <<daemon, peers_, born, shell, req, out, handler>>

-----------------------------------------------------------------------------
ShellThread(s)   == Ask(s) \/ Line(s) \/ EndOfFile(s)
HandlerThread(s) == Dispatch(s) \/ SendFileThrows(s) \/ Send(s) \/ Write(s) \/ HangUp(s)

Next ==
    \/ \E s \in Shell : Connect(s) \/ ShellThread(s) \/ HandlerThread(s) \/ Kill(s)
    \/ \E s \in Shell : \E t \in Commands[s] : Type(s, t)
    \/ add_peer
    \/ \E p \in 1 .. MaxPeers : remove_peer(p)
    \/ Receive

(* The threads of both programs run; nothing is assumed of users, of peers *)
(* and of the network, but that a call of send_msg returns.                *)
Fairness == \A s \in Shell : WF_vars(ShellThread(s)) /\ WF_vars(HandlerThread(s))

Spec == Init /\ [][Next]_vars /\ Fairness

-----------------------------------------------------------------------------
(* What there is to see of the messages that shell s has displayed.        *)
Screen(s) == [i \in DOMAIN shown[s] |-> Display(shown[s][i])]

(* d tells a reader what text is: all of it, or its size after as much of  *)
(* its beginning as is displayed; and all of it if it has no control       *)
(* characters and fewer newlines than MAX_LINES.                           *)
Conveys(d, text) ==
    /\ d.bytes = 0 => d.text = text
    /\ d.bytes # 0 => d.bytes = Len(text) /\ IsPrefix(d.text, text)
    /\ Count(text, "BEL") = 0 /\ Count(text, "LF") < MAX_LINES => d.bytes = 0

(* The messages on the screen of a shell are, in order and none twice, the *)
(* ones that the daemon took from the ring for it, whatever characters a   *)
(* peer puts into them: each is displayed whole, or as the summary that    *)
(* do_recv makes of a binary or a long one, and what is displayed of it is *)
(* the text as it was received.  At the prompt no message is missing.      *)
ShownAsDrained ==
    \A s \in Shell :
       /\ Len(Screen(s)) <= Len(drained[s])
       /\ \A i \in DOMAIN Screen(s) : Conveys(Screen(s)[i], drained[s][i])
       /\ AtPrompt(s) /\ daemon => Len(Screen(s)) = Len(drained[s])

(* At the prompt the connection is quiet: no byte of a reply is left over  *)
(* that the next request would take for its own answer.                    *)
QuietAtPrompt ==
    \A s \in Shell : AtPrompt(s) =>
       /\ out[s] = <<>>
       /\ daemon => hp[s] = "idle" /\ req[s] = NoRequest

(* SEND i and SENDFILE i look peer i up in the table of that moment, not   *)
(* in the list on the screen.  They never reach a peer listed before i,    *)
(* and reach the one listed at i if no peer up to i has disconnected: new  *)
(* connections never shift the table.                                      *)
SentToListed ==
    \A s \in Shell : picked[s] # <<>> =>
       LET i == picked[s][1]
           listed(j) == view[s][j][2]
           stays(j) == \E p \in ToSet(picked[s][3]) : to_string[p] = listed(j)
           target == to_string[picked[s][2]]
       IN  /\ \A j \in DOMAIN view[s] : listed(j) = target => i <= j
           /\ (i \in DOMAIN view[s] /\ \A j \in 1 .. i : stays(j)) => listed(i) = target

(* A shell that waits for a reply gets one, or the end of the file, unless *)
(* its request lost its argument to read_line: every other path through    *)
(* handle_control_client writes an answer with at least one line.          *)
RequestsAnswered ==
    \A s \in Shell : []<>(wait[s] = "no" \/ s \in ignored)

(* ctl_write "returns false on error": the daemon sees that a shell has    *)
(* gone and goes on.                                                       *)
DaemonOutlivesShells == daemon
=============================================================================
