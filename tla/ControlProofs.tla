--------------------------- MODULE ControlProofs ---------------------------
(***************************************************************************)
(* Proofs about Control, for every number of shells, every table, every    *)
(* capacity of the ring, all texts and every list of commands:             *)
(* QuietAtPrompt, ShownAsDrained and SentToListed are invariants.          *)
(***************************************************************************)
EXTENDS Control, SequenceFacts, FiniteSetTheorems

(* The bytes of a reply, and the words that stand for some.                *)
Byte == Char \cup {"PEERS", "MSGS", "pk", "OK", "OK_n", "OK_", "ERR"}
             \cup {to_string[n] : n \in Number}

(* The table in the order of the connections.                              *)
Increasing(L) == \A i, j \in DOMAIN L : i < j => L[i] < L[j]
Listing == {L \in Seq(1 .. MaxPeers) : Increasing(L)}

(* Table T has come after table L: what is new in T is younger than all    *)
(* that is in L.                                                           *)
Later(L, T) == \A p \in ToSet(T) : p \in ToSet(L) \/ \A q \in ToSet(L) : q < p

(* The texts of one RECV, at most a ring of them.                          *)
Text == Seq(Char)
Batch == {b \in Seq(Text) : Len(b) <= RING}

(* The replies to LIST and to RECV.                                        *)
ListRows(L) == [i \in DOMAIN L |-> <<to_string[i], to_string[L[i]]>>]
ListReply(L) == Header("PEERS", Len(L)) \o Rows(ListRows(L))
MsgRows(b) == [i \in DOMAIN b |-> <<"pk">> \o escape_ctl(b[i])]
MsgReply(b) == Header("MSGS", Len(b)) \o Rows(MsgRows(b))

(* What read_line returns as it was written.                               *)
Whole(l) == l # <<>> /\ l[Len(l)] # "CR" /\ \A i \in DOMAIN l : l[i] # "LF"
Lines == {l \in Seq(Byte) : Whole(l)}

(* The requests of a shell, and those that it may still have to make: LIST *)
(* is never but the first.                                                 *)
Sends == {Request(c, g) : c \in {"SEND", "SENDFILE", "BROADCAST"}, g \in Arg \cup {"text"}}
Rest1 == {<<>>, <<RECV>>}
Progs == Rest1 \cup {<<r, RECV>> : r \in Sends \cup {LIST, RECV}}

-----------------------------------------------------------------------------
(* The inductive invariant                                                 *)

Types ==
    /\ daemon \in BOOLEAN
    /\ peers_ \in Listing /\ born \in 0 .. MaxPeers /\ \A p \in ToSet(peers_) : p <= born
    /\ received_msgs_ \in Batch /\ rcvd \in Nat
    /\ sh \in [Shell -> {"off", "on", "ended"}] /\ prog \in [Shell -> Progs]
    /\ wait \in [Shell -> {"no", "peers", "msgs", "reply"}] /\ left \in [Shell -> Nat]
    /\ req \in [Shell -> Sends \cup {LIST, RECV, QUIT, NoRequest}]
    /\ out \in [Shell -> Seq(Byte)]
    /\ hp \in [Shell -> {"none", "idle", "busy"}]
    /\ DOMAIN job = Shell
    /\ view \in [Shell -> Seq(Seq(Byte))] /\ DOMAIN picked = Shell
    /\ drained \in [Shell -> Seq(Text)] /\ shown \in [Shell -> Seq(Text)]

(* A thread that is busy has at most the peers of the table to send to.    *)
Fits(j) ==
    /\ j \in [to : Seq(1 .. MaxPeers), count : Nat, reply : Seq(Byte)]
    /\ j.count + Len(j.to) <= MaxPeers
Jobs == \A s \in Shell : hp[s] = "busy" => Fits(job[s])

(* L has been the table before now.                                        *)
Since(L) == Later(L, peers_) /\ (daemon => \A q \in ToSet(L) : q <= born)

(* A shell that is not connected, or not any more.                         *)
Away(s) ==
    /\ prog[s] = <<>> /\ wait[s] = "no" /\ left[s] = 0 /\ out[s] = <<>>
    /\ view[s] = <<>> /\ shown[s] = <<>>
    /\ sh[s] = "off" => req[s] = NoRequest /\ picked[s] = <<>> /\ drained[s] = <<>>

(* text, from where the shell is to read on, is the rest of the answer to  *)
(* its request: n more rows, or all of the answer if n is 0.               *)
Unread(s, text, n) ==
    \/ /\ wait[s] = "peers" /\ n = 0 /\ view[s] = <<>>
       /\ \E L \in Listing : Since(L) /\ text = ListReply(L)
    \/ /\ wait[s] = "peers" /\ n > 0
       /\ \E L \in Listing : \E k \in 1 .. Len(L) :
            /\ Since(L)
            /\ view[s] = SubSeq(ListRows(L), 1, k - 1)
            /\ n = Len(L) - k + 1
            /\ text = Rows(SubSeq(ListRows(L), k, Len(L)))
    \/ /\ wait[s] = "msgs" /\ n = 0
       /\ \E b \in Batch : drained[s] = shown[s] \o b /\ text = MsgReply(b)
    \/ /\ wait[s] = "msgs" /\ n > 0
       /\ \E b \in Batch :
            /\ drained[s] = shown[s] \o b
            /\ n = Len(b) /\ text = Rows(MsgRows(b))
    \/ /\ wait[s] = "reply" /\ n = 0
       /\ \E line \in Lines : text = line \o <<"LF">>

Silent(s) == out[s] = <<>> /\ left[s] = 0
Idle(s)   == daemon => hp[s] = "idle" /\ req[s] = NoRequest

(* Where the request of a shell that waits is: on its way, with the        *)
(* handler, answered, passed over, or lost with the daemon.                *)
Asked(s) ==
    /\ daemon /\ hp[s] = "idle" /\ Silent(s)
    /\ \/ wait[s] = "peers" /\ req[s] = LIST /\ view[s] = <<>>
       \/ wait[s] = "msgs" /\ req[s] = RECV
       \/ wait[s] = "reply" /\ req[s] \in Sends
Working(s) ==
    /\ daemon /\ hp[s] = "busy" /\ req[s] = NoRequest /\ Silent(s)
    /\ Unread(s, job[s].reply, 0)
Written(s) == Idle(s) /\ Unread(s, out[s], left[s])
Ignored(s) == Idle(s) /\ Silent(s) /\ wait[s] = "reply"
Lost(s)    == ~daemon /\ Silent(s) /\ (wait[s] = "peers" => view[s] = <<>>)

(* The list on the screen is complete and the table has come after it.     *)
Listed(s) == \E L \in Listing : Since(L) /\ view[s] = ListRows(L)

Connected(s) ==
    /\ wait[s] = "no" => Silent(s) /\ Idle(s)
    /\ wait[s] # "no" => /\ Asked(s) \/ Working(s) \/ Written(s) \/ Ignored(s) \/ Lost(s)
                         /\ prog[s] \in Rest1
    /\ wait[s] # "peers" => Listed(s)
    /\ daemon /\ (wait[s] # "msgs" \/ req[s] # NoRequest) => shown[s] = drained[s]

(* What SEND or SENDFILE met has come after the list on the screen, which  *)
(* stays until the next prompt.                                            *)
Picked(s) ==
    /\ prog[s] \in Rest1 /\ wait[s] # "peers"
    /\ \E T \in Listing, L \in Listing : \E i \in DOMAIN T :
         /\ picked[s] = <<i, T[i], T>>
         /\ Later(L, T) /\ view[s] = ListRows(L)

OneShell(s) ==
    /\ sh[s] # "on" => Away(s)
    /\ sh[s] = "on" => Connected(s)
    /\ picked[s] # <<>> => Picked(s)
    /\ IsPrefix(shown[s], drained[s])

IInv == Types /\ Jobs /\ \A s \in Shell : OneShell(s)

-----------------------------------------------------------------------------
(* Lines and rows                                                          *)

(* The newline, as a sequence of one byte.                                 *)
LEMMA NewlineIs == <<"LF">> \in Seq(Byte) /\ Len(<<"LF">>) = 1 /\ <<"LF">>[1] = "LF"
<1>1. "LF" \in Byte
  BY DEF Byte, Char
<1> QED
  BY <1>1

(* The rows one after the other.                                           *)
LEMMA RowsEmpty == Rows(<<>>) = <<>>
<1>1. [i \in DOMAIN <<>> |-> <<>>[i] \o <<"LF">>] = <<>>
  OBVIOUS
<1>2. Rows(<<>>) = FlattenSeq(<<>>)
  <2>1. Rows(<<>>) = FlattenSeq([i \in DOMAIN <<>> |-> <<>>[i] \o <<"LF">>])
    BY DEF Rows
  <2> QED
    BY <1>1, <2>1
<1>3. Len(<<>>) = 0
  OBVIOUS
<1> QED
  BY <1>2, <1>3 DEF FlattenSeq

(* The first row is followed by its newline and the other rows.            *)
LEMMA RowsCons ==
    ASSUME NEW rows \in Seq(Lines), Len(rows) # 0
    PROVE  /\ Rows(rows) \in Seq(Byte)
           /\ Rows(Tail(rows)) \in Seq(Byte)
           /\ Rows(rows) = (rows[1] \o <<"LF">>) \o Rows(Tail(rows))
           /\ rows[1] \in Lines /\ Tail(rows) \in Seq(Lines) /\ Len(Tail(rows)) = Len(rows) - 1
<1> DEFINE row(l) == l \o <<"LF">>
           all(r) == [i \in DOMAIN r |-> row(r[i])]
<1>1. ASSUME NEW l \in Lines PROVE row(l) \in Seq(Byte)
  <2>1. l \in Seq(Byte)
    BY DEF Lines
  <2> QED
    BY <2>1, NewlineIs, ConcatProperties
<1>2. ASSUME NEW r \in Seq(Lines) PROVE all(r) \in Seq(Seq(Byte)) /\ Len(all(r)) = Len(r)
  <2>1. Len(r) \in Nat /\ DOMAIN r = 1 .. Len(r) /\ \A i \in 1 .. Len(r) : r[i] \in Lines
    BY LenProperties, ElementOfSeq
  <2> HIDE DEF row
  <2>2. \A i \in 1 .. Len(r) : row(r[i]) \in Seq(Byte)
    BY <2>1, <1>1
  <2>3. all(r) \in [1 .. Len(r) -> Seq(Byte)]
    BY <2>1, <2>2
  <2> QED
    BY <2>1, <2>3
<1>3. /\ Len(rows) \in Nat /\ DOMAIN rows = 1 .. Len(rows)
      /\ Tail(rows) \in Seq(Lines) /\ Len(Tail(rows)) = Len(rows) - 1
      /\ \A i \in 1 .. Len(rows) - 1 : Tail(rows)[i] = rows[i + 1]
      /\ rows[1] \in Lines /\ 1 \in DOMAIN rows
  BY LenProperties, ElementOfSeq, EmptySeq, HeadTailProperties
<1>4. DOMAIN Tail(rows) = 1 .. Len(rows) - 1
  BY <1>3, LenProperties
<1>5. Tail(all(rows)) = all(Tail(rows))
  <2> DEFINE u == Tail(all(rows))
             w == all(Tail(rows))
  <2>1. all(rows) \in Seq(Seq(Byte)) /\ Len(all(rows)) = Len(rows) /\ all(rows) # <<>>
    BY <1>2, EmptySeq
  <2>2. /\ u \in Seq(Seq(Byte)) /\ Len(u) = Len(rows) - 1
        /\ \A i \in 1 .. Len(rows) - 1 : u[i] = all(rows)[i + 1]
    <3> HIDE DEF all
    <3> QED
      BY <2>1, HeadTailProperties
  <2>3. w \in Seq(Seq(Byte)) /\ Len(w) = Len(rows) - 1
    BY <1>2, <1>3
  <2>4. ASSUME NEW i \in 1 .. Len(rows) - 1 PROVE u[i] = w[i]
    <3>1. i + 1 \in DOMAIN rows /\ i \in DOMAIN Tail(rows)
      BY <1>3, <1>4
    <3>2. all(rows)[i + 1] = row(rows[i + 1]) /\ w[i] = row(Tail(rows)[i])
      <4> HIDE DEF row
      <4> QED
        BY <3>1
    <3>3. Tail(rows)[i] = rows[i + 1]
      BY <1>3
    <3> HIDE DEF u, w, all, row
    <3> QED
      BY <2>2, <3>2, <3>3
  <2> HIDE DEF u, w
  <2>5. u = w
    BY <2>2, <2>3, <2>4, SeqEqual
  <2> QED
    BY <2>5 DEF u, w
<1>6. all(rows)[1] = row(rows[1])
  BY <1>3
<1>7. /\ FlattenSeq(all(rows)) \in Seq(Byte)
      /\ FlattenSeq(Tail(all(rows))) \in Seq(Byte)
      /\ FlattenSeq(all(rows)) = all(rows)[1] \o FlattenSeq(Tail(all(rows)))
  <2>1. all(rows) \in Seq(Seq(Byte)) /\ Len(all(rows)) # 0
    BY <1>2
  <2> HIDE DEF all
  <2> QED
    BY <2>1, FlattenCons
<1>8. Rows(rows) = FlattenSeq(all(rows)) /\ Rows(Tail(rows)) = FlattenSeq(all(Tail(rows)))
  BY DEF Rows
<1> HIDE DEF all
<1>9. Rows(rows) = row(rows[1]) \o Rows(Tail(rows))
  BY <1>5, <1>6, <1>7, <1>8
<1> QED
  BY <1>3, <1>5, <1>7, <1>8, <1>9

(* read_line returns a line that has been written, and keeps the rest.     *)
LEMMA ReadLine ==
    ASSUME NEW line \in Lines, NEW rest \in Seq(Byte), NEW s
    PROVE  s = (line \o <<"LF">>) \o rest =>
             HasLine(s) /\ FirstLine(s) = line /\ AfterLine(s) = rest /\ s # <<>>
<1>s. SUFFICES ASSUME s = (line \o <<"LF">>) \o rest
               PROVE  HasLine(s) /\ FirstLine(s) = line /\ AfterLine(s) = rest /\ s # <<>>
  OBVIOUS
<1>0. /\ line \in Seq(Byte) /\ line # <<>> /\ line[Len(line)] # "CR"
      /\ \A i \in DOMAIN line : line[i] # "LF"
  <2>1. line \in Seq(Byte) /\ Whole(line)
    BY DEF Lines
  <2> QED
    BY <2>1 DEF Whole
<1>1. PICK n \in Nat : n = Len(line)
  BY <1>0, LenProperties
<1>2. /\ line \in Seq(Byte) /\ n # 0 /\ line # <<>>
      /\ \A i \in 1 .. n : line[i] # "LF"
      /\ line[n] # "CR"
  BY <1>0, <1>1, LenProperties, EmptySeq
<1>3. PICK m \in Nat : m = Len(rest)
  BY LenProperties
<1>4. /\ s \in Seq(Byte) /\ Len(s) = n + 1 + m
      /\ \A i \in 1 .. n : s[i] = line[i]
      /\ s[n + 1] = "LF"
      /\ \A i \in 1 .. m : s[n + 1 + i] = rest[i]
  <2> DEFINE w == line \o <<"LF">>
  <2>1. w \in Seq(Byte) /\ Len(w) = n + 1 /\ w[n + 1] = "LF" /\ \A i \in 1 .. n : w[i] = line[i]
    BY <1>1, <1>2, NewlineIs, ConcatProperties
  <2> HIDE DEF w
  <2>2. /\ w \o rest \in Seq(Byte) /\ Len(w \o rest) = n + 1 + m
        /\ \A i \in 1 .. n + 1 + m : (w \o rest)[i] = IF i <= n + 1 THEN w[i] ELSE rest[i - (n + 1)]
    <3>1. /\ w \o rest \in Seq(Byte) /\ Len(w \o rest) = Len(w) + Len(rest)
          /\ \A i \in 1 .. Len(w) + Len(rest) : (w \o rest)[i] = IF i <= Len(w) THEN w[i] ELSE rest[i - Len(w)]
      BY <2>1, ConcatProperties
    <3> QED
      BY <1>3, <2>1, <3>1
  <2>3. s = w \o rest
    BY <1>s DEF w
  <2>4. \A i \in 1 .. n : i \in 1 .. n + 1 + m /\ i <= n + 1
    OBVIOUS
  <2>5. \A i \in 1 .. m : n + 1 + i \in 1 .. n + 1 + m /\ ~(n + 1 + i <= n + 1) /\ (n + 1 + i) - (n + 1) = i
    OBVIOUS
  <2>6. n + 1 \in 1 .. n + 1 + m
    OBVIOUS
  <2> QED
    BY <2>1, <2>2, <2>3, <2>4, <2>5, <2>6
<1>5. HasLine(s)
  BY <1>4 DEF HasLine, Contains
<1>6. NewlineAt(s) = n + 1
  <2>1. DOMAIN s = 1 .. n + 1 + m
    BY <1>4
  <2>2. s[n + 1] = "LF" /\ \A j \in 1 .. (n + 1) - 1 : s[j] # "LF"
    BY <1>2, <1>4
  <2>3. \A i \in DOMAIN s : s[i] = "LF" /\ (\A j \in 1 .. i - 1 : s[j] # "LF") => i = n + 1
    BY <2>1, <2>2
  <2> QED
    BY <2>1, <2>2, <2>3 DEF NewlineAt
<1>7. SubSeq(s, 1, n) = line
  <2>1. \A i \in 1 .. n : s[i] \in Byte
    BY <1>2, <1>4
  <2>2. /\ SubSeq(s, 1, n) \in Seq(Byte) /\ Len(SubSeq(s, 1, n)) = n
        /\ \A i \in 1 .. n : SubSeq(s, 1, n)[i] = s[i]
    BY <2>1, <1>2, SubSeqProperties
  <2> QED
    BY <1>1, <1>2, <1>4, <2>2, SeqEqual
<1>8. AfterLine(s) = rest
  <2>1. AfterLine(s) = SubSeq(s, n + 2, n + 1 + m)
    BY <1>4, <1>6 DEF AfterLine
  <2>2. \A i \in n + 2 .. n + 1 + m : s[i] \in Byte
    BY <1>4
  <2>3. /\ SubSeq(s, n + 2, n + 1 + m) \in Seq(Byte) /\ Len(SubSeq(s, n + 2, n + 1 + m)) = m
        /\ \A i \in 1 .. m : SubSeq(s, n + 2, n + 1 + m)[i] = s[n + 1 + i]
    BY <2>2, SubSeqProperties
  <2> QED
    BY <1>3, <1>4, <2>1, <2>3, SeqEqual
<1>9. FirstLine(s) = line
  <2>1. Last(line) = line[n]
    BY <1>1 DEF Last
  <2> QED
    <3>1. NewlineAt(s) - 1 = n
      BY <1>6
    <3>2. SubSeq(s, 1, NewlineAt(s) - 1) = line
      BY <3>1, <1>7
    <3>3. ~(line # <<>> /\ Last(line) = "CR")
      BY <1>2, <2>1
    <3> QED
      BY <3>2, <3>3 DEF FirstLine
<1> QED
  BY <1>2, <1>4, <1>5, <1>8, <1>9

-----------------------------------------------------------------------------
(* Escaping                                                                *)

Esc(c) == CASE c = "\\" -> <<"\\", "\\">> [] c = "LF" -> <<"\\", "n">>
            [] c = "CR" -> <<"\\", "r">>  [] OTHER -> <<c>>

(* The characters of an escaped text.                                      *)
Safe == Char \ {"LF", "CR"}

(* A character is one or two characters once it is escaped.                *)
LEMMA EscIs ==
    /\ \A c \in Char : Esc(c) \in Seq(Safe) /\ Len(Esc(c)) \in {1, 2}
    /\ Esc("\\") = <<"\\", "\\">> /\ Esc("LF") = <<"\\", "n">> /\ Esc("CR") = <<"\\", "r">>
    /\ \A c \in Safe \ {"\\"} : Esc(c) = <<c>>
<1>1. /\ Esc("\\") = <<"\\", "\\">> /\ Esc("LF") = <<"\\", "n">> /\ Esc("CR") = <<"\\", "r">>
  BY DEF Esc
<1>2. ASSUME NEW c \in Safe \ {"\\"} PROVE Esc(c) = <<c>>
  BY DEF Esc, Safe
<1>3. "\\" \in Safe /\ "n" \in Safe /\ "r" \in Safe
  BY DEF Safe, Char
<1>4. \A c \in Char : c \in {"\\", "LF", "CR"} \/ c \in Safe \ {"\\"}
  BY DEF Safe
<1>5. \A x, y \in Safe : <<x, y>> \in Seq(Safe) /\ Len(<<x, y>>) = 2 /\ <<x>> \in Seq(Safe) /\ Len(<<x>>) = 1
  OBVIOUS
<1>6. ASSUME NEW c \in Char PROVE Esc(c) \in Seq(Safe) /\ Len(Esc(c)) \in {1, 2}
  <2>1. CASE c \in Safe \ {"\\"}
    <3>1. <<c>> \in Seq(Safe) /\ Len(<<c>>) = 1
      BY <1>5, <2>1
    <3>2. Esc(c) = <<c>>
      BY <1>2, <2>1
    <3> QED
      BY <3>1, <3>2
  <2>2. ASSUME NEW x \in Safe, NEW y \in Safe, Esc(c) = <<x, y>>
        PROVE  Esc(c) \in Seq(Safe) /\ Len(Esc(c)) \in {1, 2}
    <3>1. <<x, y>> \in Seq(Safe) /\ Len(<<x, y>>) = 2
      BY <1>5
    <3> QED
      BY <3>1, <2>2
  <2>3. CASE c \in {"\\", "LF", "CR"}
    <3>1. \E x, y \in Safe : Esc(c) = <<x, y>>
      BY <1>1, <1>3, <2>3, Zenon
    <3> QED
      BY <3>1, <2>2
  <2> QED
    BY <1>4, <2>1, <2>3
<1> QED
  BY <1>1, <1>2, <1>6

(* The empty text stays empty.                                             *)
LEMMA EscapeEmpty == escape_ctl(<<>>) = <<>>
<1>1. [i \in DOMAIN <<>> |-> Esc(<<>>[i])] = <<>>
  OBVIOUS
<1>2. escape_ctl(<<>>) = FlattenSeq([i \in DOMAIN <<>> |-> Esc(<<>>[i])])
  BY DEF escape_ctl, Esc
<1>3. Len(<<>>) = 0
  OBVIOUS
<1> QED
  BY <1>1, <1>2, <1>3 DEF FlattenSeq

(* A text is escaped character by character.                               *)
LEMMA EscapeCons ==
    ASSUME NEW t \in Text, Len(t) # 0
    PROVE  /\ escape_ctl(t) \in Seq(Safe)
           /\ escape_ctl(Tail(t)) \in Seq(Safe)
           /\ escape_ctl(t) = Esc(t[1]) \o escape_ctl(Tail(t))
           /\ t[1] \in Char /\ Tail(t) \in Text /\ Len(Tail(t)) = Len(t) - 1
<1> DEFINE all(r) == [i \in DOMAIN r |-> Esc(r[i])]
<1>t. t \in Seq(Char)
  BY DEF Text
<1>2. ASSUME NEW r \in Seq(Char) PROVE all(r) \in Seq(Seq(Safe)) /\ Len(all(r)) = Len(r)
  <2>1. Len(r) \in Nat /\ DOMAIN r = 1 .. Len(r) /\ \A i \in 1 .. Len(r) : r[i] \in Char
    BY LenProperties, ElementOfSeq
  <2>2. \A i \in 1 .. Len(r) : Esc(r[i]) \in Seq(Safe)
    BY <2>1, EscIs
  <2>3. all(r) \in [1 .. Len(r) -> Seq(Safe)]
    BY <2>1, <2>2
  <2> QED
    BY <2>1, <2>3
<1>3. /\ Len(t) \in Nat /\ DOMAIN t = 1 .. Len(t)
      /\ Tail(t) \in Seq(Char) /\ Len(Tail(t)) = Len(t) - 1
      /\ \A i \in 1 .. Len(t) - 1 : Tail(t)[i] = t[i + 1]
      /\ t[1] \in Char /\ 1 \in DOMAIN t
  BY <1>t, LenProperties, ElementOfSeq, EmptySeq, HeadTailProperties
<1>4. DOMAIN Tail(t) = 1 .. Len(t) - 1
  BY <1>3, LenProperties
<1>5. Tail(all(t)) = all(Tail(t))
  <2> DEFINE u == Tail(all(t))
             w == all(Tail(t))
  <2>1. all(t) \in Seq(Seq(Safe)) /\ Len(all(t)) = Len(t) /\ all(t) # <<>>
    BY <1>t, <1>2, EmptySeq
  <2>2. /\ u \in Seq(Seq(Safe)) /\ Len(u) = Len(t) - 1
        /\ \A i \in 1 .. Len(t) - 1 : u[i] = all(t)[i + 1]
    <3> HIDE DEF all
    <3> QED
      BY <2>1, HeadTailProperties
  <2>3. w \in Seq(Seq(Safe)) /\ Len(w) = Len(t) - 1
    BY <1>2, <1>3
  <2>4. ASSUME NEW i \in 1 .. Len(t) - 1 PROVE u[i] = w[i]
    <3>1. i + 1 \in DOMAIN t /\ i \in DOMAIN Tail(t)
      BY <1>3, <1>4
    <3>2. all(t)[i + 1] = Esc(t[i + 1]) /\ w[i] = Esc(Tail(t)[i])
      BY <3>1
    <3>3. Tail(t)[i] = t[i + 1]
      BY <1>3
    <3> HIDE DEF u, w, all
    <3> QED
      BY <2>2, <3>2, <3>3
  <2> HIDE DEF u, w
  <2>5. u = w
    BY <2>2, <2>3, <2>4, SeqEqual
  <2> QED
    BY <2>5 DEF u, w
<1>6. all(t)[1] = Esc(t[1])
  BY <1>3
<1>7. /\ FlattenSeq(all(t)) \in Seq(Safe)
      /\ FlattenSeq(Tail(all(t))) \in Seq(Safe)
      /\ FlattenSeq(all(t)) = all(t)[1] \o FlattenSeq(Tail(all(t)))
  <2>1. all(t) \in Seq(Seq(Safe)) /\ Len(all(t)) # 0
    BY <1>t, <1>2
  <2> HIDE DEF all
  <2> QED
    BY <2>1, FlattenCons
<1>8. \A r : escape_ctl(r) = FlattenSeq(all(r))
  BY DEF escape_ctl, Esc
<1> HIDE DEF all
<1>9. escape_ctl(t) = Esc(t[1]) \o escape_ctl(Tail(t))
  BY <1>5, <1>6, <1>7, <1>8
<1> QED
  BY <1>3, <1>5, <1>7, <1>8, <1>9 DEF Text

(* An escaped text has no newline and no carriage return.                  *)
LEMMA EscapeSafe == \A t \in Text : escape_ctl(t) \in Seq(Safe)
<1> SUFFICES ASSUME NEW t \in Text PROVE escape_ctl(t) \in Seq(Safe)
  OBVIOUS
<1>1. CASE Len(t) # 0
  BY <1>1, EscapeCons
<1>2. CASE Len(t) = 0
  <2>1. t = <<>>
    BY <1>2, EmptySeq DEF Text
  <2>2. <<>> \in Seq(Safe)
    OBVIOUS
  <2> QED
    BY <2>1, <2>2, EscapeEmpty
<1> QED
  BY <1>1, <1>2

(* The function from of unescape_ctl: one step of it, given the rest.      *)
Code(s, i) == s[i] = "\\" /\ i < Len(s) /\ s[i + 1] \in {"n", "r", "\\"}
Meant(c) == CASE c = "n" -> "LF" [] c = "r" -> "CR" [] OTHER -> "\\"
Body(s, f, i) ==
    IF i > Len(s) THEN <<>>
    ELSE IF Code(s, i) THEN <<Meant(s[i + 1])>> \o f[i + 2] ELSE <<s[i]>> \o f[i + 1]
Decodes(s, f) == f = [i \in Nat |-> Body(s, f, i)]

(* The recursion defines a function: it is built from the end of s.        *)
LEMMA DecodesExists ==
    ASSUME NEW s, Len(s) \in Nat
    PROVE  \E f : Decodes(s, f)
<1>0. PICK n \in Nat : n = Len(s)
  OBVIOUS
<1> DEFINE Good(f, k) == f = [i \in Nat |-> f[i]] /\ \A i \in Nat : i + k > n => f[i] = Body(s, f, i)
           S == {k \in Nat : \E f : Good(f, k)}
<1>1. 0 \in S
  <2> DEFINE f == [i \in Nat |-> <<>>]
  <2>1. \A i \in Nat : i > n => f[i] = Body(s, f, i)
    BY <1>0 DEF Body
  <2>2. f = [i \in Nat |-> f[i]]
    OBVIOUS
  <2>3. \A i \in Nat : i + 0 = i
    OBVIOUS
  <2> HIDE DEF f
  <2>4. Good(f, 0)
    BY <2>1, <2>2, <2>3
  <2> QED
    BY <2>4
<1>2. ASSUME NEW k \in Nat, k \in S PROVE k + 1 \in S
  <2>1. PICK f : Good(f, k)
    BY <1>2
  <2> DEFINE g == [i \in Nat |-> IF i + k > n THEN f[i] ELSE Body(s, f, i)]
  <2>2. ASSUME NEW i \in Nat, i + (k + 1) > n PROVE g[i] = Body(s, g, i)
    <3>1. i + 1 \in Nat /\ i + 2 \in Nat /\ (i + 1) + k > n /\ (i + 2) + k > n
      BY <2>2
    <3>2. g[i + 1] = f[i + 1] /\ g[i + 2] = f[i + 2]
      BY <3>1
    <3>3. g[i] = Body(s, f, i)
      BY <2>1
    <3> HIDE DEF g
    <3>4. Body(s, f, i) = Body(s, g, i)
      BY <3>2 DEF Body
    <3> QED
      BY <3>3, <3>4
  <2>3. g = [i \in Nat |-> g[i]]
    OBVIOUS
  <2> HIDE DEF g
  <2>4. Good(g, k + 1)
    BY <2>2, <2>3
  <2> HIDE DEF Good
  <2> QED
    BY <2>4
<1>3. Nat \subseteq S
  <2> HIDE DEF S
  <2> QED
    BY <1>1, <1>2, Induct
<1>4. PICK f : Good(f, n + 1)
  <2> HIDE DEF Good
  <2>1. n + 1 \in S
    BY <1>3
  <2> QED
    BY <2>1
<1>5. \A i \in Nat : i + (n + 1) > n
  OBVIOUS
<1>6. f = [i \in Nat |-> f[i]] /\ \A i \in Nat : f[i] = Body(s, f, i)
  BY <1>4, <1>5
<1>7. f = [i \in Nat |-> Body(s, f, i)]
  BY <1>6
<1> QED
  BY <1>7 DEF Decodes

(* unescape_ctl undoes escape_ctl, whatever the text.  By induction over   *)
(* the rest of the text: from a place after which s is an escaped text,    *)
(* what is decoded is that text.                                           *)
THEOREM RoundTrip == \A t \in Text : unescape_ctl(escape_ctl(t)) = t
<1> SUFFICES ASSUME NEW t \in Text PROVE unescape_ctl(escape_ctl(t)) = t
  OBVIOUS
<1> DEFINE s == escape_ctl(t)
<1>1. s \in Seq(Safe) /\ Len(s) \in Nat
  BY EscapeSafe, LenProperties
<1> HIDE DEF s
<1> DEFINE f == CHOOSE f : Decodes(s, f)
<1>2. Decodes(s, f)
  BY <1>1, DecodesExists
<1>3. unescape_ctl(s) = f[1]
  BY DEF unescape_ctl, Decodes, Body, Code, Meant
<1> HIDE DEF f
<1>4. \A i \in Nat : f[i] = Body(s, f, i)
  BY <1>2 DEF Decodes
<1> DEFINE Tells(p, u) == s = p \o escape_ctl(u) => f[Len(p) + 1] = u
           S == {k \in Nat : \A p \in Seq(Safe), u \in Text : Len(u) = k => Tells(p, u)}
<1>5. 0 \in S
  <2> SUFFICES ASSUME NEW p \in Seq(Safe), NEW u \in Text, Len(u) = 0, s = p \o escape_ctl(u)
               PROVE  f[Len(p) + 1] = u
    OBVIOUS
  <2>1. u = <<>>
    BY EmptySeq DEF Text
  <2>2. s = p
    BY <2>1, EscapeEmpty, ConcatEmptySeq
  <2>3. Len(p) + 1 \in Nat /\ Len(p) + 1 > Len(s)
    BY <2>2, LenProperties
  <2> QED
    BY <2>1, <2>3, <1>4 DEF Body
<1>6. ASSUME NEW k \in Nat, k \in S PROVE k + 1 \in S
  <2>s. SUFFICES ASSUME NEW p \in Seq(Safe), NEW u \in Text, Len(u) = k + 1, s = p \o escape_ctl(u)
                 PROVE  f[Len(p) + 1] = u
    OBVIOUS
  <2>1. PICK n \in Nat : n = Len(p)
    BY LenProperties
  <2> DEFINE c == u[1]
             v == Tail(u)
             e == Esc(c)
  <2>2. /\ escape_ctl(v) \in Seq(Safe) /\ escape_ctl(u) = e \o escape_ctl(v)
        /\ c \in Char /\ v \in Text /\ Len(v) = k
    <3>1. Len(u) # 0 /\ Len(u) - 1 = k
      BY <2>s
    <3> QED
      BY <2>s, <3>1, EscapeCons
  <2>3. e \in Seq(Safe) /\ Len(e) \in {1, 2}
    BY <2>2, EscIs
  <2>4. u = <<c>> \o v
    <3>1. u \in Seq(Char) /\ u # <<>> /\ Len(u) \in Nat
      BY <2>s, EmptySeq, LenProperties DEF Text
    <3> QED
      BY <3>1, SubSeqRecursiveFirst, SubSeqFull, TailIsSubSeq, <2>s
  <2> HIDE DEF c, v, e
  <2>5. s = (p \o e) \o escape_ctl(v)
    <3>1. (p \o e) \o escape_ctl(v) = p \o (e \o escape_ctl(v))
      BY <2>2, <2>3, ConcatAssociative
    <3> QED
      BY <2>s, <2>2, <3>1
  <2>6. p \o e \in Seq(Safe) /\ Len(p \o e) = n + Len(e)
    BY <2>1, <2>3, ConcatProperties
  <2>7. f[n + Len(e) + 1] = v
    BY <1>6, <2>2, <2>5, <2>6
  <2>8. /\ \A i \in 1 .. Len(e) : s[n + i] = e[i]
        /\ Len(s) >= n + Len(e) /\ Len(s) \in Nat
    <3> DEFINE q == p \o e
    <3>1. \A i \in 1 .. Len(e) : q[n + i] = e[i]
      BY <2>1, <2>3, ConcatProperties
    <3>2. q \in Seq(Safe) /\ Len(q) = n + Len(e)
      BY <2>6
    <3> HIDE DEF q
    <3>3. PICK m \in Nat : m = Len(escape_ctl(v))
      BY <2>2, LenProperties
    <3>4. /\ Len(q \o escape_ctl(v)) = Len(q) + m
          /\ \A i \in 1 .. Len(q) + m : i <= Len(q) => (q \o escape_ctl(v))[i] = q[i]
      BY <2>2, <3>2, <3>3, ConcatProperties
    <3>5. s = q \o escape_ctl(v)
      BY <2>5 DEF q
    <3>6. \A i \in 1 .. Len(e) : n + i \in 1 .. Len(q) + m /\ n + i <= Len(q)
      BY <2>3, <3>2
    <3> QED
      BY <2>3, <3>1, <3>2, <3>4, <3>5, <3>6
  <2>9. f[n + 1] = <<c>> \o v
    <3>1. n + 1 \in Nat /\ n + 2 \in Nat /\ n + 3 \in Nat /\ f[n + 1] = Body(s, f, n + 1)
      BY <1>4
    <3>2. ~(n + 1 > Len(s)) /\ s[n + 1] = e[1]
      BY <2>3, <2>8
    <3>3. CASE c \in Safe \ {"\\"}
      <4>1. e = <<c>> /\ Len(e) = 1 /\ e[1] = c /\ c # "\\"
        BY <3>3, EscIs DEF e
      <4>2. f[n + 2] = v
        BY <4>1, <2>7
      <4> QED
        BY <3>1, <3>2, <4>1, <4>2 DEF Body, Code
    <3>4. CASE c \notin Safe \ {"\\"}
      <4>1. c \in {"\\", "LF", "CR"}
        BY <3>4, <2>2 DEF Safe
      <4>2. /\ Len(e) = 2 /\ e[1] = "\\" /\ e[2] \in {"n", "r", "\\"}
            /\ Meant(e[2]) = c
        BY <4>1, EscIs DEF e, Meant
      <4>3. f[n + 3] = v /\ s[n + 2] = e[2] /\ n + 1 < Len(s)
        BY <4>2, <2>7, <2>8
      <4>4. (n + 1) + 1 = n + 2 /\ (n + 1) + 2 = n + 3
        OBVIOUS
      <4>5. Code(s, n + 1)
        BY <3>2, <4>2, <4>3, <4>4 DEF Code
      <4> QED
        BY <3>1, <3>2, <4>2, <4>3, <4>4, <4>5 DEF Body
    <3> QED
      BY <3>3, <3>4
  <2> QED
    BY <2>1, <2>4, <2>9
<1>7. Nat \subseteq S
  <2> HIDE DEF S
  <2> QED
    BY <1>5, <1>6, Induct
<1>8. Tells(<<>>, t)
  <2>1. Len(t) \in Nat /\ <<>> \in Seq(Safe)
    BY LenProperties DEF Text
  <2> HIDE DEF Tells
  <2> QED
    BY <1>7, <2>1
<1>9. s = <<>> \o escape_ctl(t) /\ Len(<<>>) + 1 = 1
  BY <1>1, ConcatEmptySeq DEF s
<1> QED
  BY <1>3, <1>8, <1>9 DEF s

-----------------------------------------------------------------------------
(* Replies                                                                 *)

(* A number that is written is a byte, and ends no line.                   *)
LEMMA NumberIs ==
    ASSUME NEW n \in Number
    PROVE  to_string[n] \in Byte /\ to_string[n] # "LF" /\ to_string[n] # "CR"
<1>1. to_string[n] \in Byte
  BY DEF Byte
<1>2. to_string \in [Number -> STRING \ {"LF", "CR"}]
  BY ControlAssumption
<1>3. to_string[n] \notin {"LF", "CR"}
  BY <1>2
<1> QED
  BY <1>1, <1>3

(* A word and a number make a line.                                        *)
LEMMA PairIsLine ==
    ASSUME NEW a \in Byte, a # "LF", NEW n \in Number
    PROVE  <<a, to_string[n]>> \in Lines /\ <<a, to_string[n], "LF">> = <<a, to_string[n]>> \o <<"LF">>
<1> DEFINE b == to_string[n]
<1>1. b \in Byte /\ b # "LF" /\ b # "CR"
  BY NumberIs
<1> HIDE DEF b
<1>2. /\ <<a, b>> \in Seq(Byte) /\ Len(<<a, b>>) = 2 /\ DOMAIN <<a, b>> = 1 .. 2
      /\ <<a, b>>[1] = a /\ <<a, b>>[2] = b /\ <<a, b>> # <<>>
  BY <1>1
<1>3. \A i \in 1 .. 2 : i = 1 \/ i = 2
  OBVIOUS
<1>4. Whole(<<a, b>>)
  BY <1>1, <1>2, <1>3 DEF Whole
<1>5. <<a, b, "LF">> = <<a, b>> \o <<"LF">>
  OBVIOUS
<1> QED
  BY <1>2, <1>4, <1>5 DEF Lines, b

(* The number of a header is read back.                                    *)
LEMMA HeaderRead ==
    ASSUME NEW word \in {"PEERS", "MSGS"}, NEW n \in Number, NEW rest \in Seq(Byte), NEW s
    PROVE  s = Header(word, n) \o rest =>
             HasLine(s) /\ stoi(FirstLine(s), word) = n /\ AfterLine(s) = rest
<1>s. SUFFICES ASSUME s = Header(word, n) \o rest
               PROVE  HasLine(s) /\ stoi(FirstLine(s), word) = n /\ AfterLine(s) = rest
  OBVIOUS
<1>1. word \in Byte /\ word # "LF"
  BY DEF Byte
<1> DEFINE line == <<word, to_string[n]>>
<1>2. line \in Lines /\ Header(word, n) = line \o <<"LF">>
  BY <1>1, PairIsLine DEF Header
<1>3. Len(line) = 2 /\ line[1] = word /\ line[2] = to_string[n]
  OBVIOUS
<1> HIDE DEF line
<1>4. HasLine(s) /\ FirstLine(s) = line /\ AfterLine(s) = rest
  BY <1>s, <1>2, ReadLine
<1>5. \A m \in Number : to_string[m] = to_string[n] => m = n
  BY ControlAssumption
<1>6. stoi(line, word) = n
  BY <1>3, <1>5 DEF stoi
<1> QED
  BY <1>4, <1>6

(* Rows are bytes.                                                         *)
LEMMA RowsAre == \A rows \in Seq(Lines) : Rows(rows) \in Seq(Byte)
<1> SUFFICES ASSUME NEW rows \in Seq(Lines) PROVE Rows(rows) \in Seq(Byte)
  OBVIOUS
<1>1. CASE Len(rows) # 0
  BY <1>1, RowsCons
<1>2. CASE Len(rows) = 0
  <2>1. rows = <<>>
    BY <1>2, EmptySeq
  <2>2. <<>> \in Seq(Byte)
    OBVIOUS
  <2> QED
    BY <2>1, <2>2, RowsEmpty
<1> QED
  BY <1>1, <1>2

(* The first of the rows is read.                                          *)
LEMMA RowRead ==
    ASSUME NEW rows \in Seq(Lines), Len(rows) # 0
    PROVE  /\ HasLine(Rows(rows)) /\ FirstLine(Rows(rows)) = rows[1]
           /\ AfterLine(Rows(rows)) = Rows(Tail(rows))
<1>1. /\ rows[1] \in Lines /\ Rows(Tail(rows)) \in Seq(Byte)
      /\ Rows(rows) = (rows[1] \o <<"LF">>) \o Rows(Tail(rows))
  BY RowsCons
<1> QED
  BY <1>1, ReadLine

(* A table has at most MaxPeers entries: they are in increasing order.     *)
LEMMA ListingIs ==
    ASSUME NEW L \in Listing
    PROVE  /\ L \in Seq(1 .. MaxPeers) /\ Len(L) \in Nat /\ Len(L) <= MaxPeers
           /\ DOMAIN L = 1 .. Len(L) /\ \A i \in 1 .. Len(L) : L[i] \in 1 .. MaxPeers
           /\ \A i, j \in 1 .. Len(L) : i < j => L[i] < L[j]
<1>0. L \in Seq(1 .. MaxPeers) /\ Increasing(L)
  BY DEF Listing
<1>1. PICK n \in Nat : n = Len(L)
  BY <1>0, LenProperties
<1>2. DOMAIN L = 1 .. n /\ \A i \in 1 .. n : L[i] \in 1 .. MaxPeers
  BY <1>0, <1>1, LenProperties, ElementOfSeq
<1>3. \A i, j \in 1 .. n : i < j => L[i] < L[j]
  BY <1>0, <1>2 DEF Increasing
<1> DEFINE S == {k \in Nat : k + 1 <= n => L[k + 1] >= k + 1}
<1>4. 0 \in S
  BY <1>2
<1>5. ASSUME NEW k \in Nat, k \in S PROVE k + 1 \in S
  <2> SUFFICES ASSUME k + 2 <= n PROVE L[k + 2] >= k + 2
    OBVIOUS
  <2>1. k + 1 \in 1 .. n /\ k + 2 \in 1 .. n /\ k + 1 < k + 2
    OBVIOUS
  <2>2. L[k + 1] < L[k + 2] /\ L[k + 1] \in 1 .. MaxPeers /\ L[k + 2] \in 1 .. MaxPeers
    BY <2>1, <1>2, <1>3
  <2>3. L[k + 1] >= k + 1
    BY <2>1, <1>5
  <2> QED
    BY <2>2, <2>3
<1>6. Nat \subseteq S
  <2> HIDE DEF S
  <2> QED
    BY <1>4, <1>5, Induct
<1>7. MaxPeers \in Nat
  BY ControlAssumption
<1>8. n <= MaxPeers
  <2>1. CASE n = 0
    BY <2>1, <1>7
  <2>2. CASE n # 0
    <3>1. n - 1 \in S /\ (n - 1) + 1 = n /\ n \in 1 .. n
      BY <2>2, <1>6
    <3> QED
      BY <3>1, <1>2, <1>7
  <2> QED
    BY <2>1, <2>2
<1> QED
  BY <1>0, <1>1, <1>2, <1>3, <1>8

(* The rows of both replies are lines.                                     *)
LEMMA ListRowsAre ==
    ASSUME NEW L \in Listing
    PROVE  /\ ListRows(L) \in Seq(Lines) /\ Len(ListRows(L)) = Len(L)
           /\ \A i \in 1 .. Len(L) : ListRows(L)[i] = <<to_string[i], to_string[L[i]]>>
           /\ Len(L) \in Number
<1>1. /\ Len(L) \in Nat /\ Len(L) <= MaxPeers /\ DOMAIN L = 1 .. Len(L)
      /\ \A i \in 1 .. Len(L) : L[i] \in 1 .. MaxPeers
  BY ListingIs
<1>2. /\ Len(L) \in Number
      /\ \A i \in 1 .. MaxPeers : i \in Number
  BY <1>1, ControlAssumption DEF Number
<1>3. ASSUME NEW i \in 1 .. Len(L) PROVE <<to_string[i], to_string[L[i]]>> \in Lines
  <2>1. i \in Number /\ L[i] \in Number
    BY <1>1, <1>2, ControlAssumption
  <2> QED
    BY <2>1, NumberIs, PairIsLine
<1>4. ListRows(L) = [i \in 1 .. Len(L) |-> <<to_string[i], to_string[L[i]]>>]
  BY <1>1 DEF ListRows
<1>5. ListRows(L) \in [1 .. Len(L) -> Lines]
  BY <1>3, <1>4
<1>6. ListRows(L) \in Seq(Lines) /\ Len(ListRows(L)) = Len(L)
  BY <1>1, <1>5
<1>7. \A i \in 1 .. Len(L) : ListRows(L)[i] = <<to_string[i], to_string[L[i]]>>
  BY <1>4
<1> QED
  BY <1>2, <1>6, <1>7

(* The key in front of a message, as a sequence of one byte.               *)
LEMMA PkIs == <<"pk">> \in Seq(Byte) /\ Len(<<"pk">>) = 1 /\ <<"pk">>[1] = "pk"
<1>1. "pk" \in Byte
  BY DEF Byte
<1> QED
  BY <1>1

(* The row of a message is a line, from which its text is read back.       *)
LEMMA MsgRowIs ==
    ASSUME NEW t \in Text
    PROVE  LET row == <<"pk">> \o escape_ctl(t)
           IN  row \in Lines /\ row # <<>> /\ row[1] = "pk" /\ unescape_ctl(Tail(row)) = t
<1> DEFINE e == escape_ctl(t)
           pk == <<"pk">>
           row == pk \o e
<1>1. e \in Seq(Safe) /\ unescape_ctl(e) = t
  BY EscapeSafe, RoundTrip
<1> HIDE DEF e
<1>2. Safe \subseteq Byte /\ "pk" \in Byte /\ "LF" \notin Safe /\ "CR" \notin Safe
  BY DEF Safe, Byte
<1>3. e \in Seq(Byte)
  BY <1>1, <1>2, SeqMonotonic
<1>4. PICK n \in Nat : n = Len(e)
  BY <1>1, LenProperties
<1>5. pk \in Seq(Byte) /\ Len(pk) = 1 /\ pk[1] = "pk"
  BY PkIs
<1> HIDE DEF pk
<1>6. /\ row \in Seq(Byte) /\ Len(row) = n + 1
      /\ row[1] = "pk" /\ \A i \in 1 .. n : row[i + 1] = e[i]
  <2>1. /\ row \in Seq(Byte) /\ Len(row) = Len(pk) + Len(e)
        /\ \A i \in 1 .. Len(pk) + Len(e) :
             row[i] = IF i <= Len(pk) THEN pk[i] ELSE e[i - Len(pk)]
    BY <1>3, <1>5, ConcatProperties
  <2> HIDE DEF row
  <2>2. \A i \in 1 .. n + 1 : row[i] = IF i <= 1 THEN pk[i] ELSE e[i - 1]
    BY <1>4, <1>5, <2>1
  <2>3. \A i \in 1 .. n : i + 1 \in 1 .. n + 1 /\ ~(i + 1 <= 1) /\ (i + 1) - 1 = i
    OBVIOUS
  <2>4. row[1] = "pk"
    BY <1>5, <2>2
  <2> QED
    BY <1>4, <1>5, <2>1, <2>2, <2>3, <2>4
<1> HIDE DEF row
<1>7. row # <<>> /\ DOMAIN row = 1 .. n + 1
  <2>1. Len(row) # 0
    BY <1>6
  <2> QED
    BY <1>6, <2>1, EmptySeq, LenProperties
<1>8. ASSUME NEW i \in 1 .. n + 1 PROVE row[i] # "LF" /\ row[i] # "CR"
  <2>1. CASE i = 1
    BY <2>1, <1>6
  <2>2. CASE i # 1
    <3>1. PICK j \in 1 .. n : i = j + 1
      <4>1. i - 1 \in 1 .. n /\ i = (i - 1) + 1
        BY <2>2
      <4> QED
        BY <4>1
    <3>2. e[j] \in Safe
      BY <1>1, <1>4, ElementOfSeq
    <3>3. row[i] = e[j]
      BY <1>6, <3>1
    <3> QED
      BY <1>2, <3>2, <3>3
  <2> QED
    BY <2>1, <2>2
<1>9. row \in Lines
  <2>1. n + 1 \in 1 .. n + 1
    OBVIOUS
  <2>2. Whole(row)
    BY <1>6, <1>7, <1>8, <2>1 DEF Whole
  <2> QED
    BY <1>6, <2>2 DEF Lines
<1>10. Tail(row) = e
  <2>1. /\ Tail(row) \in Seq(Byte) /\ Len(Tail(row)) = n
        /\ \A i \in 1 .. n : Tail(row)[i] = row[i + 1]
    <3>1. /\ Tail(row) \in Seq(Byte) /\ Len(Tail(row)) = Len(row) - 1
          /\ \A i \in 1 .. Len(Tail(row)) : Tail(row)[i] = row[i + 1]
      BY <1>6, <1>7, HeadTailProperties
    <3>2. Len(row) - 1 = n
      BY <1>6
    <3> QED
      BY <3>1, <3>2
  <2> QED
    BY <1>3, <1>4, <1>6, <2>1, SeqEqual
<1> QED
  BY <1>1, <1>6, <1>7, <1>9, <1>10 DEF row, e, pk

(* The rows of a batch are lines, one for every text.                      *)
LEMMA MsgRowsAre ==
    ASSUME NEW b \in Seq(Text)
    PROVE  /\ MsgRows(b) \in Seq(Lines) /\ Len(MsgRows(b)) = Len(b)
           /\ \A i \in 1 .. Len(b) : MsgRows(b)[i] = <<"pk">> \o escape_ctl(b[i])
<1> DEFINE row(t) == <<"pk">> \o escape_ctl(t)
<1>1. /\ Len(b) \in Nat /\ DOMAIN b = 1 .. Len(b)
      /\ \A i \in 1 .. Len(b) : b[i] \in Text
  BY LenProperties, ElementOfSeq
<1>2. ASSUME NEW i \in 1 .. Len(b) PROVE row(b[i]) \in Lines
  <2>1. b[i] \in Text
    BY <1>1
  <2> QED
    BY <2>1, MsgRowIs
<1>4. MsgRows(b) = [i \in 1 .. Len(b) |-> row(b[i])]
  BY <1>1 DEF MsgRows
<1>7. \A i \in 1 .. Len(b) : MsgRows(b)[i] = row(b[i])
  <2> HIDE DEF row
  <2> QED
    BY <1>4
<1> HIDE DEF row
<1>5. MsgRows(b) \in [1 .. Len(b) -> Lines]
  BY <1>2, <1>4
<1>6. MsgRows(b) \in Seq(Lines) /\ Len(MsgRows(b)) = Len(b)
  BY <1>1, <1>5
<1> QED
  BY <1>6, <1>7 DEF row

(* The rows after the first are those of the rest of the batch.            *)
LEMMA MsgRowsTail ==
    ASSUME NEW b \in Seq(Text), Len(b) # 0
    PROVE  /\ Tail(MsgRows(b)) = MsgRows(Tail(b))
           /\ Tail(b) \in Seq(Text) /\ Len(Tail(b)) = Len(b) - 1
           /\ b[1] \in Text /\ b = <<b[1]>> \o Tail(b)
<1>1. PICK n \in Nat \ {0} : n = Len(b)
  BY LenProperties
<1>2. /\ b # <<>> /\ Tail(b) \in Seq(Text) /\ Len(Tail(b)) = n - 1 /\ b[1] \in Text
      /\ \A i \in 1 .. n - 1 : Tail(b)[i] = b[i + 1]
  BY <1>1, EmptySeq, HeadTailProperties, ElementOfSeq
<1> DEFINE u == Tail(MsgRows(b))
           w == MsgRows(Tail(b))
<1>3. /\ MsgRows(b) \in Seq(Lines) /\ Len(MsgRows(b)) = n /\ MsgRows(b) # <<>>
      /\ \A i \in 1 .. n : MsgRows(b)[i] = <<"pk">> \o escape_ctl(b[i])
  BY <1>1, MsgRowsAre, EmptySeq
<1>4. /\ u \in Seq(Lines) /\ Len(u) = n - 1
      /\ \A i \in 1 .. n - 1 : u[i] = MsgRows(b)[i + 1]
  BY <1>3, HeadTailProperties
<1>5. /\ w \in Seq(Lines) /\ Len(w) = n - 1
      /\ \A i \in 1 .. n - 1 : w[i] = <<"pk">> \o escape_ctl(Tail(b)[i])
  BY <1>2, MsgRowsAre
<1> HIDE DEF u, w
<1>6. ASSUME NEW i \in 1 .. n - 1 PROVE u[i] = w[i]
  <2>1. i + 1 \in 1 .. n
    BY <1>1
  <2>2. Tail(b)[i] = b[i + 1]
    BY <1>2
  <2>3. MsgRows(b)[i + 1] = <<"pk">> \o escape_ctl(b[i + 1])
    BY <2>1, <1>3
  <2>4. w[i] = <<"pk">> \o escape_ctl(b[i + 1])
    BY <2>2, <1>5
  <2> QED
    BY <2>3, <2>4, <1>4
<1>7. u = w
  BY <1>4, <1>5, <1>6, SeqEqual
<1>8. b = <<b[1]>> \o Tail(b)
  BY <1>1, <1>2, SubSeqRecursiveFirst, SubSeqFull, TailIsSubSeq
<1> QED
  BY <1>1, <1>2, <1>7, <1>8 DEF u, w

-----------------------------------------------------------------------------
(* The table and the list on the screen                                    *)

(* What the list and a later table share is never further down in the      *)
(* table; if the list has lost nothing up to i, both have the same at i.   *)
LEMMA SamePlace ==
    ASSUME NEW L \in Listing, NEW T \in Listing, Later(L, T)
    PROVE  /\ \A i \in DOMAIN T, j \in DOMAIN L : L[j] = T[i] => i <= j
           /\ \A i \in DOMAIN T \cap DOMAIN L :
                (\A j \in 1 .. i : L[j] \in ToSet(T)) => L[i] = T[i]
<1>1. PICK l \in Nat : l = Len(L) /\ DOMAIN L = 1 .. l
  BY ListingIs
<1>2. PICK t \in Nat : t = Len(T) /\ DOMAIN T = 1 .. t
  BY ListingIs
<1>3. /\ \A i \in 1 .. l : L[i] \in Nat
      /\ \A i \in 1 .. t : T[i] \in Nat
      /\ \A i, j \in 1 .. l : i < j => L[i] < L[j]
      /\ \A i, j \in 1 .. t : i < j => T[i] < T[j]
  <2>1. 1 .. MaxPeers \subseteq Nat
    BY ControlAssumption
  <2> QED
    BY <1>1, <1>2, <2>1, ListingIs
<1>4. /\ \A i \in 1 .. t : (\E j \in 1 .. l : T[i] = L[j]) \/ \A j \in 1 .. l : L[j] < T[i]
  BY <1>1, <1>2 DEF Later, ToSet
<1> DEFINE S == {k \in Nat : k + 1 <= t => \A j \in 1 .. l : L[j] = T[k + 1] => k + 1 <= j}
<1>5. 0 \in S
  OBVIOUS
<1>6. ASSUME NEW k \in Nat, k \in S PROVE k + 1 \in S
  <2> SUFFICES ASSUME k + 2 <= t, NEW j \in 1 .. l, L[j] = T[k + 2] PROVE k + 2 <= j
    OBVIOUS
  <2>1. k + 1 \in 1 .. t /\ k + 2 \in 1 .. t /\ k + 1 < k + 2
    OBVIOUS
  <2>2. T[k + 1] < L[j] /\ L[j] \in Nat /\ T[k + 1] \in Nat
    BY <2>1, <1>3
  <2>3. PICK h \in 1 .. l : T[k + 1] = L[h]
    BY <2>1, <2>2, <1>4
  <2>4. k + 1 <= h
    BY <2>1, <2>3, <1>6
  <2>5. h < j
    <3> SUFFICES ASSUME ~(h < j) PROVE FALSE
      OBVIOUS
    <3>1. h = j \/ j < h
      OBVIOUS
    <3>2. L[h] < L[j] /\ L[h] \in Nat
      BY <2>2, <2>3
    <3> QED
      BY <2>2, <3>1, <3>2, <1>3
  <2> QED
    BY <2>4, <2>5
<1>7. Nat \subseteq S
  <2> HIDE DEF S
  <2> QED
    BY <1>5, <1>6, Induct
<1>8. ASSUME NEW i \in 1 .. t, NEW j \in 1 .. l, L[j] = T[i] PROVE i <= j
  <2>1. i - 1 \in S /\ (i - 1) + 1 = i
    BY <1>7
  <2> QED
    BY <1>8, <2>1
<1>9. ASSUME NEW i \in 1 .. t, i \in 1 .. l, \A j \in 1 .. i : L[j] \in ToSet(T)
      PROVE  L[i] = T[i]
  <2>1. \A j \in 1 .. i : \E k \in 1 .. t : T[k] = L[j]
    BY <1>2, <1>9 DEF ToSet
  <2> DEFINE R == {k \in Nat : k + 1 <= i => \A h \in 1 .. t : T[h] = L[k + 1] => k + 1 <= h}
  <2>2. 0 \in R
    OBVIOUS
  <2>3. ASSUME NEW k \in Nat, k \in R PROVE k + 1 \in R
    <3> SUFFICES ASSUME k + 2 <= i, NEW h \in 1 .. t, T[h] = L[k + 2] PROVE k + 2 <= h
      OBVIOUS
    <3>1. k + 1 \in 1 .. i /\ k + 2 \in 1 .. l /\ k + 1 \in 1 .. l /\ k + 1 < k + 2
      BY <1>9
    <3>2. L[k + 1] < T[h] /\ T[h] \in Nat /\ L[k + 1] \in Nat
      BY <3>1, <1>3
    <3>3. PICK g \in 1 .. t : T[g] = L[k + 1]
      BY <3>1, <2>1
    <3>4. k + 1 <= g
      BY <3>1, <3>3, <2>3
    <3>5. g < h
      <4> SUFFICES ASSUME ~(g < h) PROVE FALSE
        OBVIOUS
      <4>1. g = h \/ h < g
        OBVIOUS
      <4>2. T[g] < T[h] /\ T[g] \in Nat
        BY <3>2, <3>3
      <4> QED
        BY <3>2, <4>1, <4>2, <1>3
    <3> QED
      BY <3>4, <3>5
  <2>4. Nat \subseteq R
    <3> HIDE DEF R
    <3> QED
      BY <2>2, <2>3, Induct
  <2>5. PICK k \in 1 .. t : T[k] = L[i]
    BY <2>1
  <2>6. i <= k
    <3>1. i - 1 \in R /\ (i - 1) + 1 = i
      BY <2>4
    <3> QED
      BY <2>5, <3>1
  <2>7. k <= i
    BY <2>5, <1>8, <1>9
  <2>8. k = i
    BY <2>6, <2>7
  <2> QED
    BY <2>5, <2>8
<1> QED
  BY <1>1, <1>2, <1>8, <1>9

(* SEND reaches what the screen said it would.                             *)
LEMMA PickedIsListed == IInv => SentToListed
<1> SUFFICES ASSUME IInv, NEW s \in Shell, picked[s] # <<>>
             PROVE  LET i == picked[s][1]
                        listed(j) == view[s][j][2]
                        stays(j) == \E p \in ToSet(picked[s][3]) : to_string[p] = listed(j)
                        target == to_string[picked[s][2]]
                    IN  /\ \A j \in DOMAIN view[s] : listed(j) = target => i <= j
                        /\ (i \in DOMAIN view[s] /\ \A j \in 1 .. i : stays(j)) => listed(i) = target
  BY DEF SentToListed
<1>1. Picked(s)
  BY DEF IInv, OneShell
<1>2. PICK T \in Listing, L \in Listing : \E i \in DOMAIN T :
         picked[s] = <<i, T[i], T>> /\ Later(L, T) /\ view[s] = ListRows(L)
  BY <1>1 DEF Picked
<1>3. PICK i \in DOMAIN T : picked[s] = <<i, T[i], T>> /\ Later(L, T) /\ view[s] = ListRows(L)
  BY <1>2
<1>4. picked[s][1] = i /\ picked[s][2] = T[i] /\ picked[s][3] = T
  BY <1>3
<1>5. PICK l \in Nat : l = Len(L) /\ DOMAIN L = 1 .. l
  BY ListingIs
<1>6. PICK t \in Nat : t = Len(T) /\ DOMAIN T = 1 .. t
  BY ListingIs
<1>7. DOMAIN view[s] = 1 .. l /\ \A j \in 1 .. l : view[s][j][2] = to_string[L[j]]
  <2>1. /\ ListRows(L) \in Seq(Lines) /\ Len(ListRows(L)) = l
        /\ \A j \in 1 .. l : ListRows(L)[j] = <<to_string[j], to_string[L[j]]>>
    BY <1>5, ListRowsAre
  <2>2. DOMAIN ListRows(L) = 1 .. l
    BY <2>1, LenProperties
  <2>3. \A j \in 1 .. l : ListRows(L)[j][2] = to_string[L[j]]
    BY <2>1
  <2> QED
    BY <1>3, <2>2, <2>3
<1>8. \A m, n \in Number : to_string[m] = to_string[n] => m = n
  BY ControlAssumption
<1>9. /\ \A j \in 1 .. l : L[j] \in Number
      /\ \A j \in 1 .. t : T[j] \in Number
  <2>1. 1 .. MaxPeers \subseteq Number
    BY ControlAssumption DEF Number
  <2> QED
    BY <1>5, <1>6, <2>1, ListingIs
<1>10. /\ \A j \in 1 .. l : L[j] = T[i] => i <= j
       /\ i \in 1 .. l /\ (\A j \in 1 .. i : L[j] \in ToSet(T)) => L[i] = T[i]
  BY <1>3, <1>5, <1>6, SamePlace
<1>11. ASSUME NEW j \in 1 .. l, view[s][j][2] = to_string[T[i]] PROVE i <= j
  <2>1. L[j] = T[i]
    BY <1>6, <1>7, <1>8, <1>9, <1>11
  <2> QED
    BY <1>10, <2>1
<1>12. ASSUME i \in 1 .. l, \A j \in 1 .. i : \E p \in ToSet(T) : to_string[p] = view[s][j][2]
       PROVE  view[s][i][2] = to_string[T[i]]
  <2>1. ASSUME NEW j \in 1 .. i PROVE L[j] \in ToSet(T)
    <3>1. PICK p \in ToSet(T) : to_string[p] = view[s][j][2]
      BY <1>12
    <3>2. p \in Number /\ j \in 1 .. l
      BY <1>6, <1>9, <1>12 DEF ToSet
    <3> QED
      BY <1>7, <1>8, <1>9, <3>1, <3>2
  <2> QED
    BY <1>7, <1>10, <1>12, <2>1
<1> QED
  BY <1>4, <1>7, <1>11, <1>12

(* The texts that reach do_recv are the ones that were drained.            *)
TextsAreDrained ==
    \A s \in Shell :
       /\ IsPrefix(shown[s], drained[s])
       /\ AtPrompt(s) /\ daemon => shown[s] = drained[s]

(* At the prompt nothing is left over, and nothing is missing.             *)
LEMMA PromptIsQuiet == IInv => QuietAtPrompt /\ TextsAreDrained
<1> SUFFICES ASSUME IInv, NEW s \in Shell
             PROVE  /\ AtPrompt(s) => /\ out[s] = <<>>
                                      /\ daemon => hp[s] = "idle" /\ req[s] = NoRequest
                    /\ IsPrefix(shown[s], drained[s])
                    /\ AtPrompt(s) /\ daemon => shown[s] = drained[s]
  BY DEF QuietAtPrompt, TextsAreDrained
<1>1. OneShell(s)
  BY DEF IInv
<1>2. ASSUME AtPrompt(s) PROVE Silent(s) /\ Idle(s) /\ (daemon => shown[s] = drained[s])
  <2>1. wait[s] = "no" /\ sh[s] = "on" /\ Connected(s)
    BY <1>1, <1>2 DEF AtPrompt, OneShell
  <2> QED
    BY <2>1 DEF Connected
<1> QED
  BY <1>1, <1>2 DEF OneShell, Silent, Idle

-----------------------------------------------------------------------------
(* The display                                                             *)

(* A set of positions of a text is finite and has at most its length.      *)
LEMMA PositionsCount ==
    ASSUME NEW text \in Text, NEW S \in SUBSET DOMAIN text
    PROVE  /\ IsFiniteSet(S) /\ Cardinality(S) \in Nat /\ Cardinality(S) <= Len(text)
           /\ S = DOMAIN text => Cardinality(S) = Len(text)
<1>1. DOMAIN text = 1 .. Len(text) /\ Len(text) \in Nat
  BY LenProperties DEF Text
<1>2. IsFiniteSet(1 .. Len(text)) /\ Cardinality(1 .. Len(text)) = Len(text)
  BY <1>1, FS_Interval
<1>3. IsFiniteSet(S) /\ Cardinality(S) <= Len(text)
  BY <1>1, <1>2, FS_Subset
<1> QED
  BY <1>1, <1>2, <1>3, FS_CardinalityType

(* The characters of a kind can be counted.                                *)
LEMMA CountNat == ASSUME NEW text \in Text, NEW c PROVE Count(text, c) \in Nat
<1>1. {i \in DOMAIN text : text[i] = c} \in SUBSET DOMAIN text
  OBVIOUS
<1> QED
  BY <1>1, PositionsCount DEF Count

(* A text has at least the newlines of its beginning.                      *)
LEMMA PrefixCount ==
    ASSUME NEW text \in Text, NEW i \in DOMAIN text, NEW c
    PROVE  Count(SubSeq(text, 1, i - 1), c) <= Count(text, c)
<1> DEFINE u == SubSeq(text, 1, i - 1)
           A == {j \in DOMAIN u : u[j] = c}
           B == {j \in DOMAIN text : text[j] = c}
<1>1. DOMAIN text = 1 .. Len(text) /\ Len(text) \in Nat
  BY LenProperties DEF Text
<1>2. DOMAIN u = 1 .. (i - 1) /\ \A j \in 1 .. (i - 1) : u[j] = text[j]
  BY <1>1 DEF Text
<1>3. A \subseteq B
  BY <1>1, <1>2
<1>4. B \in SUBSET DOMAIN text
  OBVIOUS
<1>5. IsFiniteSet(B)
  BY <1>4, PositionsCount
<1> HIDE DEF A, B, u
<1>6. Cardinality(A) <= Cardinality(B)
  BY <1>3, <1>5, FS_Subset
<1> QED
  BY <1>6 DEF Count, A, B, u

(* The beginnings of a text.                                               *)
LEMMA TextPrefix ==
    ASSUME NEW text \in Text, NEW n \in 0 .. Len(text)
    PROVE  /\ IsPrefix(SubSeq(text, 1, n), text) /\ IsPrefix(<<>>, text)
           /\ SubSeq(text, 1, Len(text)) = text
<1> DEFINE u == SubSeq(text, 1, n)
<1>1. DOMAIN text = 1 .. Len(text) /\ Len(text) \in Nat /\ text \in Seq(Char)
  BY LenProperties DEF Text
<1>2. Len(u) = n /\ u \in Seq(Char) /\ \A i \in 1 .. n : u[i] = text[i]
  BY <1>1
<1>3. SubSeq(text, 1, Len(text)) = text
  BY <1>1
<1>4. \A i \in 1 .. Len(u) : SubSeq(u, 1, Len(u))[i] = SubSeq(text, 1, Len(u))[i]
  BY <1>1, <1>2
<1>5. SubSeq(u, 1, Len(u)) = u
  BY <1>2
<1>6. SubSeq(text, 1, Len(u)) = u
  BY <1>2
<1>7. IsPrefix(u, text)
  <2> HIDE DEF u
  <2> QED
    BY <1>1, <1>2, <1>5, <1>6 DEF IsPrefix
<1>8. IsPrefix(<<>>, text)
  BY <1>1 DEF IsPrefix
<1> QED
  BY <1>3, <1>7, <1>8

(* What is displayed of a text tells what it is, for every text.           *)
LEMMA DisplayTells == ASSUME NEW text \in Text PROVE Conveys(Display(text), text)
<1> DEFINE S == {i \in DOMAIN text : Count(SubSeq(text, 1, i - 1), "LF") < MAX_LINES}
           pos == Cardinality(S)
<1>1. DOMAIN text = 1 .. Len(text) /\ Len(text) \in Nat /\ MAX_LINES \in Nat
  BY LenProperties, ControlAssumption DEF Text
<1>2. pos \in Nat /\ pos <= Len(text) /\ (S = DOMAIN text => pos = Len(text))
  <2>1. S \in SUBSET DOMAIN text
    OBVIOUS
  <2> HIDE DEF S
  <2> QED
    BY <2>1, PositionsCount
<1>3. Display(text) = IF Binary(text) THEN [text |-> <<>>, bytes |-> Len(text)]
                      ELSE [text  |-> SubSeq(text, 1, pos),
                            bytes |-> IF pos < Len(text) THEN Len(text) ELSE 0]
  BY DEF Display
<1>4. IsPrefix(SubSeq(text, 1, pos), text) /\ IsPrefix(<<>>, text)
      /\ SubSeq(text, 1, Len(text)) = text
  BY <1>1, <1>2, TextPrefix
<1>5. \A c : Count(text, c) \in Nat
  BY CountNat
<1>6. ASSUME Count(text, "LF") < MAX_LINES PROVE pos = Len(text)
  <2>1. \A i \in DOMAIN text : Count(SubSeq(text, 1, i - 1), "LF") <= Count(text, "LF")
    BY PrefixCount
  <2>2. ASSUME NEW i \in DOMAIN text PROVE Count(SubSeq(text, 1, i - 1), "LF") \in Nat
    <3>1. SubSeq(text, 1, i - 1) \in Text
      BY <1>1 DEF Text
    <3> QED
      BY <3>1, CountNat
  <2>3. S = DOMAIN text
    BY <1>1, <1>5, <1>6, <2>1, <2>2
  <2> QED
    BY <1>2, <2>3
<1>7. PICK p \in Nat : p = pos /\ p <= Len(text)
  BY <1>2
<1>8. PICK n \in Nat : n = Len(text)
  BY <1>1
<1>9. p <= n
  BY <1>7, <1>8
<1> HIDE DEF S, pos
<1>10. ASSUME NEW d, NEW u, NEW k, d = [text |-> u, bytes |-> k] PROVE d.text = u /\ d.bytes = k
  BY <1>10
<1>11. CASE Binary(text)
  <2>1. Len(text) # 0 /\ Count(text, "BEL") # 0
    BY <1>1, <1>5, <1>11 DEF Binary, Text
  <2>2. Display(text) = [text |-> <<>>, bytes |-> Len(text)]
    BY <1>3, <1>11
  <2>3. Display(text).text = <<>> /\ Display(text).bytes = Len(text)
    BY <1>10, <2>2
  <2> QED
    BY <1>4, <2>1, <2>3 DEF Conveys
<1>12. CASE ~Binary(text) /\ p < Len(text)
  <2>1. Display(text) = [text |-> SubSeq(text, 1, p), bytes |-> Len(text)]
    BY <1>7, <1>3, <1>12
  <2>2. Display(text).text = SubSeq(text, 1, p) /\ Display(text).bytes = Len(text)
    BY <1>10, <2>1
  <2>3. p < n
    BY <1>12, <1>8
  <2>4. p # n /\ n # 0
    BY <2>3
  <2>5. p # Len(text) /\ Len(text) # 0
    BY <1>8, <2>4
  <2>6. ~(Count(text, "LF") < MAX_LINES)
    BY <1>7, <1>6, <2>5
  <2>7. IsPrefix(SubSeq(text, 1, p), text)
    BY <1>7, <1>4
  <2> QED
    BY <2>2, <2>5, <2>6, <2>7 DEF Conveys
<1>13. CASE ~Binary(text) /\ ~(p < Len(text))
  <2>1. Display(text) = [text |-> SubSeq(text, 1, p), bytes |-> 0]
    BY <1>7, <1>3, <1>13
  <2>2. ~(p < n)
    BY <1>13, <1>8
  <2>3. p = n
    BY <1>9, <2>2
  <2>4. p = Len(text)
    BY <1>8, <2>3
  <2>5. SubSeq(text, 1, p) = text
    BY <1>4, <2>4
  <2>6. Display(text).text = text /\ Display(text).bytes = 0
    BY <1>10, <2>1, <2>5
  <2> QED
    BY <2>6 DEF Conveys
<1> QED
  BY <1>11, <1>12, <1>13

(* The screen, once its texts are the drained ones.                        *)
LEMMA ScreenTells == IInv => ShownAsDrained
<1> SUFFICES ASSUME IInv, NEW s \in Shell
             PROVE  /\ Len(Screen(s)) <= Len(drained[s])
                    /\ \A i \in DOMAIN Screen(s) : Conveys(Screen(s)[i], drained[s][i])
                    /\ AtPrompt(s) /\ daemon => Len(Screen(s)) = Len(drained[s])
  BY DEF ShownAsDrained
<1>1. shown[s] \in Seq(Text) /\ drained[s] \in Seq(Text)
  BY DEF IInv, Types
<1>2. IsPrefix(shown[s], drained[s]) /\ (AtPrompt(s) /\ daemon => shown[s] = drained[s])
  BY PromptIsQuiet DEF TextsAreDrained
<1>3. /\ Len(shown[s]) <= Len(drained[s])
      /\ \A i \in DOMAIN shown[s] : shown[s][i] = drained[s][i] /\ shown[s][i] \in Text
  BY <1>1, <1>2 DEF IsPrefix
<1>4. DOMAIN Screen(s) = DOMAIN shown[s] /\ Len(Screen(s)) = Len(shown[s])
  BY <1>1 DEF Screen
<1>5. \A i \in DOMAIN shown[s] : Screen(s)[i] = Display(shown[s][i])
  BY DEF Screen
<1> QED
  BY <1>1, <1>2, <1>3, <1>4, <1>5, DisplayTells

-----------------------------------------------------------------------------
(* The steps                                                               *)

(* What belongs to shell x stays, and the table only gets younger.         *)
Same(x) ==
    /\ sh'[x] = sh[x] /\ prog'[x] = prog[x] /\ wait'[x] = wait[x] /\ left'[x] = left[x]
    /\ view'[x] = view[x] /\ shown'[x] = shown[x] /\ drained'[x] = drained[x]
    /\ picked'[x] = picked[x] /\ req'[x] = req[x] /\ out'[x] = out[x]
    /\ hp'[x] = hp[x] /\ job'[x] = job[x]
Ages == \A L \in Listing : Since(L) => Since(L)'

(* The empty list has been the table before now, whenever that is.         *)
LEMMA EmptyList ==
    /\ <<>> \in Listing /\ ListRows(<<>>) = <<>> /\ \A T : Later(<<>>, T)
    /\ Since(<<>>) /\ Since(<<>>)'
<1>1. <<>> \in Seq(1 .. MaxPeers) /\ DOMAIN <<>> = {}
  OBVIOUS
<1>2. Increasing(<<>>)
  BY <1>1 DEF Increasing
<1>3. ListRows(<<>>) = <<>>
  BY DEF ListRows
<1>4. ToSet(<<>>) = {}
  BY <1>1 DEF ToSet
<1>5. \A T : Later(<<>>, T)
  BY <1>4 DEF Later
<1>6. Since(<<>>) /\ Since(<<>>)'
  BY <1>4, <1>5 DEF Since
<1> QED
  BY <1>1, <1>2, <1>3, <1>5, <1>6 DEF Listing

(* What is left of an answer does not depend on how the table goes on.     *)
LEMMA UnreadKept ==
    ASSUME NEW x \in Shell, Ages, NEW text, NEW n, Unread(x, text, n),
           wait'[x] = wait[x], view'[x] = view[x], shown'[x] = shown[x], drained'[x] = drained[x]
    PROVE  Unread(x, text, n)'
BY DEF Ages, Unread

(* Neither does the list on the screen.                                    *)
LEMMA ListedKept ==
    ASSUME NEW x \in Shell, Ages, Listed(x), view'[x] = view[x]
    PROVE  Listed(x)'
BY DEF Ages, Listed

(* What was picked stays picked while the screen stays.                    *)
LEMMA PickedKept ==
    ASSUME NEW x \in Shell, Picked(x), view'[x] = view[x], picked'[x] = picked[x],
           prog'[x] \in Rest1, wait'[x] # "peers"
    PROVE  Picked(x)'
BY DEF Picked

(* What one shell has is left alone by a step of another.                  *)
LEMMA ShellKept ==
    ASSUME NEW x \in Shell, OneShell(x), daemon' = daemon, Ages, Same(x)
    PROVE  OneShell(x)'
<1>1. ASSUME sh'[x] # "on" PROVE Away(x)'
  BY <1>1 DEF OneShell, Same, Away
<1>2. ASSUME sh'[x] = "on" PROVE Connected(x)'
  <2>1. Connected(x)
    BY <1>2 DEF OneShell, Same
  <2>2. Asked(x) => Asked(x)'
    BY DEF Asked, Silent, Same
  <2>3. Working(x) => Working(x)'
    BY UnreadKept DEF Working, Silent, Same
  <2>4. Written(x) => Written(x)'
    BY UnreadKept DEF Written, Idle, Same
  <2>5. Ignored(x) => Ignored(x)'
    BY DEF Ignored, Idle, Silent, Same
  <2>6. Lost(x) => Lost(x)'
    BY DEF Lost, Silent, Same
  <2>7. Silent(x) /\ Idle(x) => Silent(x)' /\ Idle(x)'
    BY DEF Idle, Silent, Same
  <2>8. Listed(x) => Listed(x)'
    BY ListedKept DEF Same
  <2>9. /\ wait'[x] = "no" => Silent(x)' /\ Idle(x)'
        /\ wait'[x] # "peers" => Listed(x)'
    BY <2>1, <2>7, <2>8 DEF Connected, Same
  <2>10. wait'[x] # "no" =>
           /\ Asked(x)' \/ Working(x)' \/ Written(x)' \/ Ignored(x)' \/ Lost(x)'
           /\ prog'[x] \in Rest1
    BY <2>1, <2>2, <2>3, <2>4, <2>5, <2>6 DEF Connected, Same
  <2>11. daemon' /\ (wait'[x] # "msgs" \/ req'[x] # NoRequest) => shown'[x] = drained'[x]
    BY <2>1 DEF Connected, Same
  <2> QED
    BY <2>9, <2>10, <2>11 DEF Connected
<1>3. ASSUME picked'[x] # <<>> PROVE Picked(x)'
  <2>1. Picked(x)
    BY <1>3 DEF OneShell, Same
  <2> QED
    BY <2>1, PickedKept DEF Same, Picked
<1>4. IsPrefix(shown[x], drained[x])'
  BY DEF OneShell, Same
<1> QED
  BY <1>1, <1>2, <1>3, <1>4 DEF OneShell

(* A step of one shell or of its handler.                                  *)
LEMMA OthersKept ==
    ASSUME IInv, daemon' = daemon, Ages, Types', Jobs',
           NEW s \in Shell, OneShell(s)', \A x \in Shell \ {s} : Same(x)
    PROVE  IInv'
<1>1. ASSUME NEW x \in Shell PROVE OneShell(x)'
  <2>1. CASE x = s
    BY <2>1
  <2>2. CASE x # s
    BY <2>2, ShellKept DEF IInv
  <2> QED
    BY <2>1, <2>2
<1> QED
  BY <1>1 DEF IInv

(* A step that leaves the table alone.                                     *)
LEMMA AgesSame ==
    ASSUME UNCHANGED <<daemon, peers_, born>>
    PROVE  Ages
BY DEF Ages, Since

(* run_shell connects.                                                     *)
LEMMA ConnectKeeps ==
    ASSUME IInv, NEW s \in Shell, Connect(s)
    PROVE  IInv'
<1>1. /\ sh[s] = "off" /\ daemon
      /\ sh' = [sh EXCEPT ![s] = "on"] /\ prog' = [prog EXCEPT ![s] = <<LIST, RECV>>]
      /\ hp' = [hp EXCEPT ![s] = "idle"]
      /\ UNCHANGED <<daemon, peers_, received_msgs_, born, rcvd, wait, left, view, shown, req,
                     out, job, drained, picked, ignored>>
  BY DEF Connect, node
<1>2. Types
  BY DEF IInv
<1>3. <<LIST, RECV>> \in Progs
  BY DEF Progs
<1>4. Types'
  BY <1>1, <1>2, <1>3 DEF Types
<1>5. Jobs'
  BY <1>1, <1>2 DEF IInv, Jobs, Types
<1>6. \A x \in Shell \ {s} : Same(x)
  BY <1>1, <1>2 DEF Same, Types
<1>7. Away(s) /\ picked[s] = <<>> /\ IsPrefix(shown[s], drained[s])
  BY <1>1 DEF IInv, OneShell, Away
<1>8. sh'[s] = "on" /\ hp'[s] = "idle"
  BY <1>1, <1>2 DEF Types
<1>9. Silent(s)' /\ Idle(s)' /\ wait'[s] = "no" /\ shown'[s] = drained'[s]
  BY <1>1, <1>7, <1>8 DEF Silent, Idle, Away
<1>10. Listed(s)'
  BY <1>1, <1>7, EmptyList DEF Listed, Away
<1>11. Connected(s)'
  BY <1>9, <1>10 DEF Connected
<1>12. OneShell(s)'
  BY <1>1, <1>7, <1>8, <1>11 DEF OneShell
<1> QED
  BY <1>1, <1>4, <1>5, <1>6, <1>12, AgesSame, OthersKept

(* Nothing is a prefix of everything.                                      *)
LEMMA EmptyPrefix == \A t : (\E S : t \in Seq(S)) => IsPrefix(<<>>, t)
<1> SUFFICES ASSUME NEW t, NEW S, t \in Seq(S) PROVE IsPrefix(<<>>, t)
  OBVIOUS
<1>1. Len(<<>>) = 0 /\ Len(t) \in Nat
  BY LenProperties
<1>2. SubSeq(<<>>, 1, 0) = <<>> /\ SubSeq(t, 1, 0) = <<>>
  BY SubSeqEmpty
<1> QED
  BY <1>1, <1>2 DEF IsPrefix

(* A shell that has ended has nothing left on its side.                    *)
LEMMA EndKeeps ==
    ASSUME IInv, NEW s \in Shell, End(s),
           UNCHANGED <<daemon, peers_, received_msgs_, born, rcvd, hp, job>>,
           \/ UNCHANGED drained
           \/ drained' = [drained EXCEPT ![s] = <<>>],
           \/ UNCHANGED picked
           \/ picked' = [picked EXCEPT ![s] = <<>>],
           \/ UNCHANGED req
           \/ req' = [req EXCEPT ![s] = QUIT]
    PROVE  IInv'
<1>1. /\ sh' = [sh EXCEPT ![s] = "ended"] /\ prog' = [prog EXCEPT ![s] = <<>>]
      /\ wait' = [wait EXCEPT ![s] = "no"] /\ left' = [left EXCEPT ![s] = 0]
      /\ out' = [out EXCEPT ![s] = <<>>] /\ view' = [view EXCEPT ![s] = <<>>]
      /\ shown' = [shown EXCEPT ![s] = <<>>]
  BY DEF End
<1>2. Types
  BY DEF IInv
<1>3. /\ <<>> \in Progs /\ <<>> \in Seq(Byte) /\ <<>> \in Seq(Seq(Byte)) /\ <<>> \in Seq(Text)
      /\ QUIT \in Sends \cup {LIST, RECV, QUIT, NoRequest} /\ 0 \in Nat
  BY DEF Progs, Rest1
<1>4. /\ sh' \in [Shell -> {"off", "on", "ended"}] /\ prog' \in [Shell -> Progs]
      /\ wait' \in [Shell -> {"no", "peers", "msgs", "reply"}] /\ left' \in [Shell -> Nat]
      /\ out' \in [Shell -> Seq(Byte)] /\ view' \in [Shell -> Seq(Seq(Byte))]
      /\ shown' \in [Shell -> Seq(Text)]
  <2>1. sh' \in [Shell -> {"off", "on", "ended"}] /\ wait' \in [Shell -> {"no", "peers", "msgs", "reply"}]
    BY <1>1, <1>2 DEF Types
  <2>2. prog' \in [Shell -> Progs] /\ left' \in [Shell -> Nat]
    BY <1>1, <1>2, <1>3 DEF Types
  <2>3. out' \in [Shell -> Seq(Byte)]
    BY <1>1, <1>2, <1>3 DEF Types
  <2>4. view' \in [Shell -> Seq(Seq(Byte))]
    BY <1>1, <1>2, <1>3 DEF Types
  <2>5. shown' \in [Shell -> Seq(Text)]
    BY <1>1, <1>2, <1>3 DEF Types
  <2> QED
    BY <2>1, <2>2, <2>3, <2>4, <2>5
<1>5. drained' \in [Shell -> Seq(Text)]
  BY <1>2, <1>3 DEF Types
<1>6. DOMAIN picked' = Shell /\ req' \in [Shell -> Sends \cup {LIST, RECV, QUIT, NoRequest}]
  BY <1>2, <1>3 DEF Types
<1>7. Types'
  BY <1>2, <1>4, <1>5, <1>6 DEF Types
<1>8. Jobs'
  BY DEF IInv, Jobs
<1>9. \A x \in Shell \ {s} : Same(x)
  <2> SUFFICES ASSUME NEW x \in Shell \ {s} PROVE Same(x)
    OBVIOUS
  <2>1. drained'[x] = drained[x] /\ picked'[x] = picked[x] /\ req'[x] = req[x]
    BY <1>2 DEF Types
  <2> QED
    BY <1>1, <1>2, <2>1 DEF Same, Types
<1>10. /\ sh'[s] = "ended" /\ prog'[s] = <<>> /\ wait'[s] = "no" /\ left'[s] = 0
       /\ out'[s] = <<>> /\ view'[s] = <<>> /\ shown'[s] = <<>>
  BY <1>1, <1>2 DEF Types
<1>11. Away(s)'
  BY <1>10 DEF Away
<1>12. ASSUME picked'[s] # <<>> PROVE Picked(s)'
  <2>1. picked'[s] = picked[s]
    BY <1>2, <1>12 DEF Types
  <2>2. Picked(s)
    BY <1>12, <2>1 DEF IInv, OneShell
  <2>3. PICK T \in Listing : \E i \in DOMAIN T : picked[s] = <<i, T[i], T>>
    BY <2>2 DEF Picked
  <2>4. Later(<<>>, T) /\ <<>> \in Listing /\ ListRows(<<>>) = <<>>
    BY EmptyList
  <2>5. <<>> \in Rest1
    BY DEF Rest1
  <2> QED
    BY <1>10, <2>1, <2>3, <2>4, <2>5 DEF Picked
<1>13. IsPrefix(shown[s], drained[s])'
  BY <1>5, <1>10, EmptyPrefix
<1>14. OneShell(s)'
  BY <1>10, <1>11, <1>12, <1>13 DEF OneShell
<1> QED
  BY <1>7, <1>8, <1>9, <1>14, AgesSame, OthersKept

(* A shell is killed.                                                      *)
LEMMA KillKeeps ==
    ASSUME IInv, NEW s \in Shell, Kill(s)
    PROVE  IInv'
BY EndKeeps DEF Kill, node, handler

(* A shell makes its next request.                                         *)
LEMMA ProgIs ==
    ASSUME NEW p \in Progs, p # <<>>
    PROVE  /\ Head(p) \in Sends \cup {LIST, RECV} /\ Tail(p) \in Rest1
           /\ p \in Rest1 => Head(p) = RECV /\ Tail(p) = <<>>
<1>1. CASE p \in Rest1
  <2>1. p = <<RECV>>
    BY <1>1 DEF Rest1
  <2>2. Head(p) = RECV /\ Tail(p) = <<>>
    BY <2>1
  <2> QED
    BY <2>2 DEF Rest1
<1>2. CASE p \notin Rest1
  <2>1. PICK r \in Sends \cup {LIST, RECV} : p = <<r, RECV>>
    BY <1>2 DEF Progs
  <2>2. Head(p) = r /\ Tail(p) = <<RECV>>
    BY <2>1
  <2> QED
    BY <1>2, <2>1, <2>2 DEF Rest1
<1> QED
  BY <1>1, <1>2

(* No request is taken for another.                                        *)
LEMMA RequestsApart ==
    /\ LIST # RECV /\ LIST # NoRequest /\ RECV # NoRequest /\ LIST \notin Sends
    /\ RECV \notin Sends /\ NoRequest \notin Sends
    /\ LIST[1] = "LIST" /\ RECV[1] = "RECV" /\ LIST[2] # "CR" /\ RECV[2] # "CR"
    /\ \A r \in Sends : r[1] \in {"SEND", "SENDFILE", "BROADCAST"}
BY DEF LIST, RECV, NoRequest, Sends, Request

(* A shell makes its next request, or finds the daemon gone.               *)
LEMMA AskKeeps ==
    ASSUME IInv, NEW s \in Shell, Ask(s)
    PROVE  IInv'
<1>1. sh[s] = "on" /\ wait[s] = "no" /\ prog[s] # <<>> /\ UNCHANGED <<daemon, node, handler>>
  BY DEF Ask
<1>2. Types
  BY DEF IInv
<1>3. CASE ~daemon
  BY <1>1, <1>3, EndKeeps DEF Ask, node, handler
<1>4. CASE daemon
  <2> DEFINE r == Head(prog[s])
             w == IF r = LIST THEN "peers" ELSE IF r = RECV THEN "msgs" ELSE "reply"
  <2>1. /\ req' = [req EXCEPT ![s] = r] /\ prog' = [prog EXCEPT ![s] = Tail(@)]
        /\ wait' = [wait EXCEPT ![s] = w]
        /\ view' = [view EXCEPT ![s] = IF r = LIST THEN <<>> ELSE @]
        /\ UNCHANGED <<sh, left, shown, out>>
    BY <1>4 DEF Ask
  <2>2. /\ r \in Sends \cup {LIST, RECV} /\ Tail(prog[s]) \in Rest1
        /\ prog[s] \in Rest1 => r = RECV /\ Tail(prog[s]) = <<>>
    BY <1>1, <1>2, ProgIs DEF Types
  <2>3. w \in {"peers", "msgs", "reply"} /\ (w = "peers" <=> r = LIST) /\ (w = "msgs" <=> r = RECV)
    BY RequestsApart
  <2> HIDE DEF r, w
  <2>4. /\ req'[s] = r /\ prog'[s] = Tail(prog[s]) /\ wait'[s] = w
        /\ view'[s] = IF r = LIST THEN <<>> ELSE view[s]
    BY <1>2, <2>1 DEF Types
  <2>5. Types'
    <3>1. prog' \in [Shell -> Progs] /\ req' \in [Shell -> Sends \cup {LIST, RECV, QUIT, NoRequest}]
      BY <1>2, <2>1, <2>2 DEF Types, Progs
    <3>2. wait' \in [Shell -> {"no", "peers", "msgs", "reply"}]
      BY <1>2, <2>1, <2>3 DEF Types
    <3>3. view' \in [Shell -> Seq(Seq(Byte))]
      <4>1. <<>> \in Seq(Seq(Byte))
        OBVIOUS
      <4> QED
        BY <1>2, <2>1, <4>1 DEF Types
    <3> QED
      BY <1>1, <1>2, <2>1, <3>1, <3>2, <3>3 DEF Types, node, handler
  <2>6. Jobs'
    BY <1>1 DEF IInv, Jobs, handler
  <2>7. \A x \in Shell \ {s} : Same(x)
    BY <1>1, <1>2, <2>1 DEF Types, Same, handler
  <2>8. Connected(s) /\ Silent(s) /\ Idle(s) /\ shown[s] = drained[s] /\ Listed(s)
    BY <1>1, <1>4 DEF IInv, OneShell, Connected
  <2>9. Asked(s)'
    <3>1. Silent(s)' /\ daemon' /\ hp'[s] = "idle"
      BY <1>1, <1>4, <2>1, <2>8 DEF Silent, Idle, handler
    <3>2. r \in Sends => w = "reply"
      BY <2>3, RequestsApart
    <3> QED
      BY <2>2, <2>3, <2>4, <3>1, <3>2 DEF Asked
  <2>10. w # "peers" => Listed(s)'
    BY <1>1, <2>3, <2>4, <2>8, ListedKept, AgesSame DEF node
  <2>11. Connected(s)'
    BY <1>1, <2>1, <2>2, <2>3, <2>4, <2>8, <2>9, <2>10 DEF Connected, handler
  <2>12. ASSUME picked'[s] # <<>> PROVE Picked(s)'
    <3>1. picked'[s] = picked[s] /\ Picked(s)
      BY <1>1, <2>12 DEF IInv, OneShell, handler
    <3>2. r = RECV /\ prog'[s] \in Rest1
      BY <2>2, <2>4, <3>1 DEF Picked, Rest1
    <3>3. w # "peers" /\ view'[s] = view[s]
      BY <2>3, <2>4, <3>2, RequestsApart
    <3> QED
      BY <2>4, <3>1, <3>2, <3>3, PickedKept
  <2>13. IsPrefix(shown[s], drained[s])'
    BY <1>1, <2>1 DEF IInv, OneShell, handler
  <2>14. OneShell(s)'
    BY <1>1, <2>1, <2>11, <2>12, <2>13 DEF OneShell
  <2> QED
    BY <1>1, <2>5, <2>6, <2>7, <2>14, AgesSame, OthersKept DEF node
<1> QED
  BY <1>3, <1>4

(* What a shell can read starts with a line.                               *)
LEMMA UnreadHasLine ==
    ASSUME Types, NEW s \in Shell, NEW text, NEW n, Unread(s, text, n)
    PROVE  HasLine(text)
<1>1. CASE wait[s] = "peers" /\ n = 0
  <2>1. PICK L \in Listing : text = ListReply(L)
    BY <1>1 DEF Unread
  <2> DEFINE rows == Rows(ListRows(L))
             c == Len(L)
  <2>2. rows \in Seq(Byte) /\ c \in Number
    BY ListRowsAre, RowsAre
  <2>3. text = Header("PEERS", c) \o rows
    BY <2>1 DEF ListReply
  <2> HIDE DEF rows, c
  <2> QED
    BY <2>2, <2>3, HeaderRead, Zenon
<1>2. CASE wait[s] = "peers" /\ n # 0
  <2>0. PICK L \in Listing : \E k \in 1 .. Len(L) : text = Rows(SubSeq(ListRows(L), k, Len(L)))
    BY <1>2 DEF Unread
  <2>1. PICK k \in 1 .. Len(L) : text = Rows(SubSeq(ListRows(L), k, Len(L)))
    BY <2>0
  <2> DEFINE R == ListRows(L)
             q == SubSeq(R, k, Len(L))
  <2>2. R \in Seq(Lines) /\ Len(R) = Len(L) /\ Len(L) \in Nat
    BY ListRowsAre, ListingIs
  <2> HIDE DEF R
  <2>3. \A i \in k .. Len(L) : R[i] \in Lines
    BY <2>2, ElementOfSeq
  <2>4. q \in Seq(Lines) /\ Len(q) # 0
    BY <2>2, <2>3, SubSeqProperties
  <2> HIDE DEF q
  <2>5. text = Rows(q)
    BY <2>1 DEF q, R
  <2> QED
    BY <2>4, <2>5, RowRead
<1>3. CASE wait[s] = "msgs" /\ n = 0
  <2>1. PICK b \in Batch : text = MsgReply(b)
    BY <1>3 DEF Unread
  <2>2. b \in Seq(Text) /\ Len(b) \in Nat /\ Len(b) <= RING
    BY LenProperties DEF Batch
  <2> DEFINE rows == Rows(MsgRows(b))
             c == Len(b)
  <2>3. rows \in Seq(Byte) /\ c \in Number
    BY <2>2, MsgRowsAre, RowsAre, ControlAssumption DEF Number
  <2>4. text = Header("MSGS", c) \o rows
    BY <2>1 DEF MsgReply
  <2> HIDE DEF rows, c
  <2> QED
    BY <2>3, <2>4, HeaderRead, Zenon
<1>4. CASE wait[s] = "msgs" /\ n # 0
  <2>1. PICK b \in Batch : n = Len(b) /\ text = Rows(MsgRows(b))
    BY <1>4 DEF Unread
  <2>2. b \in Seq(Text)
    BY DEF Batch
  <2>3. MsgRows(b) \in Seq(Lines) /\ Len(MsgRows(b)) # 0
    BY <1>4, <2>1, <2>2, MsgRowsAre
  <2> QED
    BY <2>1, <2>3, RowRead
<1>5. CASE wait[s] \notin {"peers", "msgs"}
  <2>1. PICK line \in Lines : text = line \o <<"LF">>
    BY <1>5 DEF Unread
  <2> DEFINE w == line \o <<"LF">>
  <2>2. <<>> \in Seq(Byte) /\ w \in Seq(Byte)
    <3>1. line \in Seq(Byte)
      BY DEF Lines
    <3> QED
      BY <3>1, NewlineIs, ConcatProperties
  <2>3. w = w \o <<>>
    <3> HIDE DEF w
    <3> QED
      BY <2>2, ConcatEmptySeq
  <2> QED
    BY <2>1, <2>2, <2>3, ReadLine
<1> QED
  BY <1>1, <1>2, <1>3, <1>4, <1>5

(* The end of the file.                                                    *)
LEMMA EndOfFileKeeps ==
    ASSUME IInv, NEW s \in Shell, EndOfFile(s)
    PROVE  IInv'
<1>1. /\ wait[s] # "no" /\ ~HasLine(out[s]) /\ ~daemon
      /\ wait' = [wait EXCEPT ![s] = "no"] /\ left' = [left EXCEPT ![s] = 0]
      /\ UNCHANGED <<daemon, peers_, received_msgs_, born, rcvd, sh, prog, view, shown, req, out,
                     hp, job, drained, picked, ignored>>
  BY DEF EndOfFile, node, handler
<1>2. Types
  BY DEF IInv
<1>3. wait'[s] = "no" /\ left'[s] = 0
  BY <1>1, <1>2 DEF Types
<1>4. Types'
  BY <1>1, <1>2 DEF Types
<1>5. Jobs'
  BY <1>1 DEF IInv, Jobs
<1>6. \A x \in Shell \ {s} : Same(x)
  BY <1>1, <1>2 DEF Same, Types
<1>7. sh[s] = "on" /\ Connected(s)
  BY <1>1, <1>2 DEF IInv, OneShell, Away, Types
<1>8. Lost(s) \/ (Ignored(s) /\ Listed(s))
  <2>1. ~Written(s)
    BY <1>1, <1>2, UnreadHasLine DEF Written
  <2>2. ~Asked(s) /\ ~Working(s)
    BY <1>1 DEF Asked, Working
  <2> QED
    BY <1>1, <1>7, <2>1, <2>2 DEF Connected, Ignored
<1>9. Silent(s)' /\ Idle(s)'
  BY <1>1, <1>3, <1>8 DEF Lost, Ignored, Silent, Idle
<1>10. Listed(s)'
  <2>1. CASE wait[s] = "peers"
    <3>1. view'[s] = <<>>
      BY <1>1, <1>8, <2>1 DEF Lost, Ignored
    <3> QED
      BY <3>1, EmptyList DEF Listed
  <2>2. CASE wait[s] # "peers"
    BY <1>1, <1>7, <2>2, ListedKept, AgesSame DEF Connected
  <2> QED
    BY <2>1, <2>2
<1>11. Connected(s)'
  BY <1>1, <1>3, <1>9, <1>10 DEF Connected
<1>12. ASSUME picked'[s] # <<>> PROVE Picked(s)'
  <2>1. Picked(s)
    BY <1>1, <1>12 DEF IInv, OneShell
  <2> QED
    BY <1>1, <1>3, <2>1, PickedKept DEF Picked
<1>13. OneShell(s)'
  BY <1>1, <1>7, <1>11, <1>12 DEF IInv, OneShell
<1> QED
  BY <1>1, <1>4, <1>5, <1>6, <1>13, AgesSame, OthersKept

(* The user types a line.                                                  *)
LEMMA RequestsAre ==
    ASSUME NEW t \in Typed
    PROVE  Requests(t) \in Progs
<1>1. CASE t \in {"/quit", "EOF", "/peers", "/msgs", "other"} \X {""}
  <2>1. t[1] \in {"/quit", "EOF", "/peers", "/msgs", "other"}
    BY <1>1
  <2> QED
    BY <2>1 DEF Requests, Progs, Rest1
<1>2. CASE t \in {"/msg", "/file"} \X Arg
  <2>1. t[1] \in {"/msg", "/file"} /\ t[2] \in Arg
    BY <1>2
  <2>2. Request("SEND", t[2]) \in Sends /\ Request("SENDFILE", t[2]) \in Sends
    BY <2>1 DEF Sends
  <2> QED
    BY <2>1, <2>2 DEF Requests, Progs
<1>3. CASE t \in {"/all"} \X {"CR", "text"}
  <2>1. t[1] = "/all" /\ t[2] \in {"CR", "text"}
    BY <1>3
  <2>2. Request("BROADCAST", t[2]) \in Sends
    BY <2>1 DEF Sends, Arg
  <2> QED
    BY <2>1, <2>2 DEF Requests, Progs
<1> QED
  BY <1>1, <1>2, <1>3 DEF Typed

(* The requests of a line, or the end of the shell.                        *)
LEMMA TypeKeeps ==
    ASSUME IInv, NEW s \in Shell, NEW t \in Commands[s], Type(s, t)
    PROVE  IInv'
<1>1. /\ AtPrompt(s)
      /\ picked' = [picked EXCEPT ![s] = <<>>] /\ drained' = [drained EXCEPT ![s] = <<>>]
      /\ UNCHANGED <<daemon, peers_, received_msgs_, born, rcvd, hp, job, ignored>>
  BY DEF Type, node
<1>2. Types /\ t \in Typed
  <2>1. Commands[s] \subseteq Typed
    BY ControlAssumption
  <2> QED
    BY <2>1 DEF IInv
<1>3. CASE End(s)
  <2>1. \/ UNCHANGED req
        \/ req' = [req EXCEPT ![s] = QUIT]
    <3>1. \/ UNCHANGED req
          \/ req' = [req EXCEPT ![s] = IF daemon THEN QUIT ELSE @]
      BY DEF Type
    <3>2. req = [req EXCEPT ![s] = req[s]]
      BY <1>2 DEF Types
    <3> QED
      BY <3>1, <3>2
  <2> QED
    BY <1>1, <1>3, <2>1, EndKeeps
<1>4. CASE ~End(s)
  <2>1. /\ prog' = [prog EXCEPT ![s] = Requests(t)] /\ shown' = [shown EXCEPT ![s] = <<>>]
        /\ UNCHANGED <<sh, wait, left, view, req, out>>
    BY <1>4 DEF Type
  <2>2. /\ prog'[s] = Requests(t) /\ shown'[s] = <<>> /\ picked'[s] = <<>> /\ drained'[s] = <<>>
    BY <1>1, <1>2, <2>1 DEF Types
  <2>3. Types'
    <3>1. prog' \in [Shell -> Progs]
      BY <1>2, <2>1, RequestsAre DEF Types
    <3>2. <<>> \in Seq(Text)
      OBVIOUS
    <3>3. shown' \in [Shell -> Seq(Text)] /\ drained' \in [Shell -> Seq(Text)]
      BY <1>1, <1>2, <2>1, <3>2 DEF Types
    <3>4. DOMAIN picked' = Shell
      BY <1>1, <1>2 DEF Types
    <3> QED
      BY <1>1, <1>2, <2>1, <3>1, <3>3, <3>4 DEF Types
  <2>4. Jobs'
    BY <1>1 DEF IInv, Jobs
  <2>5. \A x \in Shell \ {s} : Same(x)
    BY <1>1, <1>2, <2>1 DEF Same, Types
  <2>6. Connected(s) /\ sh[s] = "on" /\ wait[s] = "no"
    BY <1>1 DEF IInv, OneShell, AtPrompt
  <2>7. Connected(s)'
    <3>1. Silent(s)' /\ Idle(s)'
      BY <1>1, <2>1, <2>6 DEF Connected, Silent, Idle
    <3>2. Listed(s)'
      BY <1>1, <2>1, <2>6, ListedKept, AgesSame DEF Connected
    <3> QED
      BY <2>1, <2>2, <2>6, <3>1, <3>2 DEF Connected
  <2>8. IsPrefix(shown[s], drained[s])'
    <3>1. <<>> \in Seq(Text)
      OBVIOUS
    <3> QED
      BY <2>2, <3>1, EmptyPrefix
  <2>9. OneShell(s)'
    BY <2>1, <2>2, <2>6, <2>7, <2>8 DEF OneShell
  <2> QED
    BY <1>1, <2>3, <2>4, <2>5, <2>9, AgesSame, OthersKept
<1> QED
  BY <1>3, <1>4

-----------------------------------------------------------------------------
(* read_line in the shell                                                  *)

(* The number of rows that are left when the line has been read.           *)
RowsLeft(s) ==
    IF left[s] = 0 THEN stoi(FirstLine(out[s]), IF wait[s] = "peers" THEN "PEERS" ELSE "MSGS")
    ELSE left[s] - 1
More(s) == wait[s] # "reply" /\ RowsLeft(s) > 0

(* What Line changes.                                                      *)
LEMMA LineIs ==
    ASSUME Types, NEW s \in Shell, Line(s)
    PROVE  /\ wait'[s] = IF More(s) THEN wait[s] ELSE "no"
           /\ left'[s] = IF More(s) THEN RowsLeft(s) ELSE 0
           /\ view'[s] = IF left[s] # 0 /\ wait[s] = "peers"
                         THEN Append(view[s], FirstLine(out[s])) ELSE view[s]
           /\ shown'[s] = IF left[s] # 0 /\ wait[s] = "msgs" /\ FirstLine(out[s]) # <<>>
                               /\ FirstLine(out[s])[1] = "pk"
                          THEN Append(shown[s], unescape_ctl(Tail(FirstLine(out[s]))))
                          ELSE shown[s]
           /\ out'[s] = AfterLine(out[s])
           /\ DOMAIN wait' = Shell /\ DOMAIN left' = Shell /\ DOMAIN view' = Shell
           /\ DOMAIN shown' = Shell /\ DOMAIN out' = Shell
           /\ \A x \in Shell \ {s} :
                /\ wait'[x] = wait[x] /\ left'[x] = left[x] /\ view'[x] = view[x]
                /\ shown'[x] = shown[x] /\ out'[x] = out[x]
BY DEF Types, Line, RowsLeft, More

(* What comes first in a concatenation is a prefix of it.                  *)
LEMMA PrefixConcat ==
    ASSUME NEW S, NEW u \in Seq(S), NEW v \in Seq(S)
    PROVE  IsPrefix(u, u \o v)
<1>1. PICK m \in Nat : m = Len(u)
  BY LenProperties
<1>2. PICK n \in Nat : n = Len(v)
  BY LenProperties
<1> DEFINE w == u \o v
<1>3. w \in Seq(S) /\ Len(w) = m + n /\ \A i \in 1 .. m : w[i] = u[i]
  BY <1>1, <1>2, ConcatProperties
<1> HIDE DEF w
<1>4. \A i \in 1 .. m : w[i] \in S /\ u[i] \in S
  BY <1>1, <1>3, ElementOfSeq
<1>5. /\ SubSeq(w, 1, m) \in Seq(S) /\ Len(SubSeq(w, 1, m)) = m
      /\ \A i \in 1 .. m : SubSeq(w, 1, m)[i] = w[i]
  BY <1>4, SubSeqProperties
<1>6. SubSeq(u, 1, m) = u
  BY <1>1, SubSeqFull
<1>7. SubSeq(w, 1, m) = u
  BY <1>1, <1>3, <1>5, SeqEqual
<1>8. m <= Len(w)
  BY <1>3
<1> QED
  BY <1>1, <1>6, <1>7, <1>8 DEF IsPrefix, w

(* What is true of a shell when it has read a line.                        *)
After(s) ==
    /\ wait'[s] \in {wait[s], "no"} /\ left'[s] \in Nat
    /\ out'[s] \in Seq(Byte) /\ view'[s] \in Seq(Seq(Byte)) /\ shown'[s] \in Seq(Text)
    /\ wait'[s] = "no" => /\ left'[s] = 0 /\ out'[s] = <<>> /\ Listed(s)'
                          /\ daemon => shown'[s] = drained[s]
    /\ wait'[s] # "no" => Unread(s, out[s], left[s])'
    /\ IsPrefix(shown'[s], drained[s])
    /\ wait[s] # "peers" => view'[s] = view[s]

(* The header of a list.                                                   *)
LEMMA ReadListHeader ==
    ASSUME Types, NEW s \in Shell, Line(s), OneShell(s), sh[s] = "on", Unread(s, out[s], left[s]),
           wait[s] = "peers", left[s] = 0, req[s] = NoRequest \/ ~daemon
    PROVE  After(s)
<1>1. PICK L \in Listing : Since(L) /\ out[s] = ListReply(L) /\ view[s] = <<>>
  BY DEF Unread
<1> DEFINE R == ListRows(L)
<1>2. R \in Seq(Lines) /\ Len(R) = Len(L) /\ Len(L) \in Number /\ Rows(R) \in Seq(Byte)
  BY ListRowsAre, RowsAre
<1>3. PICK n \in Nat : n = Len(L)
  BY <1>2, ListingIs
<1>4. stoi(FirstLine(out[s]), "PEERS") = n /\ AfterLine(out[s]) = Rows(R)
  BY <1>1, <1>2, <1>3, HeaderRead DEF ListReply
<1>5. RowsLeft(s) = n /\ (More(s) <=> n > 0)
  BY <1>3, <1>4 DEF RowsLeft, More
<1>6. /\ wait'[s] = IF n > 0 THEN "peers" ELSE "no"
      /\ left'[s] = IF n > 0 THEN n ELSE 0
      /\ view'[s] = <<>> /\ shown'[s] = shown[s] /\ out'[s] = Rows(R)
  BY <1>1, <1>4, <1>5, LineIs
<1>7. drained'[s] = drained[s] /\ UNCHANGED <<daemon, peers_, born>>
  BY DEF Line, handler, node
<1>8. daemon => shown[s] = drained[s]
  BY DEF OneShell, Connected
<1>11. Since(L)'
  BY <1>1, <1>7 DEF Since
<1>9. CASE n > 0
  <2>1. 1 \in 1 .. Len(L) /\ n = Len(L) - 1 + 1
    BY <1>3, <1>9
  <2>2. SubSeq(R, 1, Len(L)) = R /\ SubSeq(R, 1, 1 - 1) = <<>>
    BY <1>2, <1>3, SubSeqFull, SubSeqEmpty
  <2>3. Unread(s, out[s], left[s])'
    <3> HIDE DEF R
    <3>1. \E k \in 1 .. Len(L) :
            /\ view'[s] = SubSeq(R, 1, k - 1) /\ n = Len(L) - k + 1
            /\ out'[s] = Rows(SubSeq(R, k, Len(L)))
      BY <1>6, <2>1, <2>2
    <3> QED
      BY <1>6, <1>9, <1>11, <3>1 DEF Unread, R
  <2>4. <<>> \in Seq(Seq(Byte))
    OBVIOUS
  <2>5. IsPrefix(shown[s], drained[s]) /\ shown[s] \in Seq(Text)
    BY DEF OneShell, Types
  <2> HIDE DEF R
  <2> QED
    BY <1>2, <1>6, <1>9, <2>3, <2>4, <2>5 DEF After
<1>10. CASE n = 0
  <2>1. R = <<>>
    BY <1>2, <1>3, <1>10, EmptySeq
  <2>2. out'[s] = <<>>
    BY <1>6, <2>1, RowsEmpty
  <2>3. Listed(s)'
    BY <1>6, EmptyList DEF Listed
  <2>4. <<>> \in Seq(Seq(Byte)) /\ <<>> \in Seq(Byte)
    OBVIOUS
  <2>5. IsPrefix(shown[s], drained[s]) /\ shown[s] \in Seq(Text)
    BY DEF OneShell, Types
  <2>6. wait'[s] = "no" /\ left'[s] = 0
    BY <1>6, <1>10
  <2> QED
    BY <1>6, <1>8, <2>2, <2>3, <2>4, <2>5, <2>6 DEF After
<1> QED
  BY <1>9, <1>10

(* A row of a list.                                                        *)
LEMMA ReadListRow ==
    ASSUME Types, NEW s \in Shell, Line(s), OneShell(s), sh[s] = "on", Unread(s, out[s], left[s]),
           wait[s] = "peers", left[s] # 0
    PROVE  After(s)
<1>1. PICK L \in Listing : \E k \in 1 .. Len(L) :
        /\ Since(L) /\ view[s] = SubSeq(ListRows(L), 1, k - 1)
        /\ left[s] = Len(L) - k + 1 /\ out[s] = Rows(SubSeq(ListRows(L), k, Len(L)))
  BY DEF Unread
<1> DEFINE R == ListRows(L)
<1>2. R \in Seq(Lines) /\ Len(R) = Len(L) /\ Len(L) \in Nat
  BY ListRowsAre, ListingIs
<1>3. PICK k \in 1 .. Len(L) :
        /\ Since(L) /\ view[s] = SubSeq(R, 1, k - 1)
        /\ left[s] = Len(L) - k + 1 /\ out[s] = Rows(SubSeq(R, k, Len(L)))
  BY <1>1
<1> HIDE DEF R
<1>4. PICK l \in Nat : l = Len(L)
  BY <1>2
<1>5. k \in Nat /\ k >= 1 /\ k <= l
  BY <1>4
<1>6. \A i \in 1 .. l : R[i] \in Lines
  BY <1>2, <1>4, ElementOfSeq
<1> DEFINE q == SubSeq(R, k, l)
<1>7. /\ q \in Seq(Lines) /\ Len(q) # 0 /\ q[1] = R[k] /\ Tail(q) = SubSeq(R, k + 1, l)
  <2>1. q \in Seq(Lines) /\ Len(q) = l - k + 1
    BY <1>5, <1>6, SubSeqProperties
  <2>2. k \in 1 .. Len(R) /\ l \in k .. Len(R)
    BY <1>2, <1>4, <1>5
  <2>3. q[1] = R[k]
    BY <1>5, <1>6, SubSeqProperties
  <2>4. Tail(q) = SubSeq(R, k + 1, l)
    BY <1>2, <2>2, HeadTailOfSubSeq
  <2> QED
    BY <1>5, <2>1, <2>3, <2>4
<1>8. out[s] = Rows(q)
  BY <1>3, <1>4
<1>9. FirstLine(out[s]) = R[k] /\ AfterLine(out[s]) = Rows(SubSeq(R, k + 1, l))
  <2> HIDE DEF q
  <2> QED
    BY <1>7, <1>8, RowRead
<1>10. Append(SubSeq(R, 1, k - 1), R[k]) = SubSeq(R, 1, k)
  <2>1. 1 \in 1 .. Len(R) /\ k \in 1 .. Len(R)
    BY <1>2, <1>4, <1>5
  <2>2. SubSeq(R, 1, k) = SubSeq(R, 1, k - 1) \o <<R[k]>>
    BY <1>2, <2>1, SubSeqRecursiveSecond
  <2>3. SubSeq(R, 1, k - 1) \in Seq(Lines) /\ R[k] \in Lines
    BY <1>5, <1>6, SubSeqProperties
  <2> QED
    BY <2>2, <2>3, AppendIsConcat
<1>11. RowsLeft(s) = l - k /\ (More(s) <=> k < l) /\ l - k \in Nat
  BY <1>3, <1>4, <1>5 DEF RowsLeft, More
<1>12. /\ wait'[s] = IF k < l THEN "peers" ELSE "no"
       /\ left'[s] = IF k < l THEN l - k ELSE 0
       /\ view'[s] = SubSeq(R, 1, k) /\ shown'[s] = shown[s]
       /\ out'[s] = Rows(SubSeq(R, k + 1, l))
  BY <1>3, <1>9, <1>10, <1>11, LineIs
<1>13. Since(L)'
  <2>1. UNCHANGED <<daemon, peers_, born>>
    BY DEF Line, node
  <2> QED
    BY <1>3, <2>1 DEF Since
<1>14. daemon => shown[s] = drained[s]
  BY DEF OneShell, Connected
<1>15. IsPrefix(shown[s], drained[s]) /\ shown[s] \in Seq(Text)
  BY DEF OneShell, Types
<1>16. /\ SubSeq(R, k + 1, l) \in Seq(Lines) /\ Rows(SubSeq(R, k + 1, l)) \in Seq(Byte)
       /\ SubSeq(R, 1, k) \in Seq(Seq(Byte))
  <2>1. SubSeq(R, k + 1, l) \in Seq(Lines)
    BY <1>5, <1>6, SubSeqProperties
  <2>2. \A i \in 1 .. l : R[i] \in Seq(Byte)
    BY <1>6 DEF Lines
  <2>3. SubSeq(R, 1, k) \in Seq(Seq(Byte))
    BY <1>5, <2>2, SubSeqProperties
  <2> QED
    BY <2>1, <2>3, RowsAre
<1>17. CASE k < l
  <2>1. \E h \in 1 .. Len(L) :
          /\ view'[s] = SubSeq(R, 1, h - 1) /\ l - k = Len(L) - h + 1
          /\ out'[s] = Rows(SubSeq(R, h, Len(L)))
    <3>1. k + 1 \in 1 .. Len(L) /\ (k + 1) - 1 = k /\ l - k = Len(L) - (k + 1) + 1
      BY <1>4, <1>5, <1>17
    <3> QED
      BY <1>4, <1>12, <3>1
  <2>2. wait'[s] = "peers" /\ left'[s] = l - k /\ l - k > 0
    BY <1>5, <1>12, <1>17
  <2>3. Unread(s, out[s], left[s])'
    BY <1>3, <1>13, <2>1, <2>2 DEF Unread, R
  <2> QED
    BY <1>11, <1>12, <1>15, <1>16, <2>2, <2>3 DEF After
<1>18. CASE ~(k < l)
  <2>1. k = l /\ wait'[s] = "no" /\ left'[s] = 0
    BY <1>5, <1>12, <1>18
  <2>2. SubSeq(R, k + 1, l) = <<>> /\ SubSeq(R, 1, k) = R
    BY <1>2, <1>4, <2>1, SubSeqEmpty, SubSeqFull
  <2>3. out'[s] = <<>> /\ view'[s] = R
    BY <1>12, <2>2, RowsEmpty
  <2>4. Listed(s)'
    BY <1>3, <1>13, <2>3 DEF Listed, R
  <2> QED
    BY <1>12, <1>14, <1>15, <1>16, <2>1, <2>3, <2>4 DEF After
<1> QED
  BY <1>17, <1>18

(* The header of the messages.                                             *)
LEMMA ReadMsgHeader ==
    ASSUME Types, NEW s \in Shell, Line(s), OneShell(s), sh[s] = "on", Unread(s, out[s], left[s]),
           wait[s] = "msgs", left[s] = 0
    PROVE  After(s)
<1>1. PICK b \in Batch : drained[s] = shown[s] \o b /\ out[s] = MsgReply(b)
  BY DEF Unread
<1>2. b \in Seq(Text) /\ Len(b) <= RING
  BY DEF Batch
<1>3. PICK n \in Nat : n = Len(b)
  BY <1>2, LenProperties
<1>4. MsgRows(b) \in Seq(Lines) /\ Len(MsgRows(b)) = n /\ Rows(MsgRows(b)) \in Seq(Byte)
  BY <1>2, <1>3, MsgRowsAre, RowsAre
<1>5. n \in Number
  BY <1>2, <1>3, ControlAssumption DEF Number
<1>6. stoi(FirstLine(out[s]), "MSGS") = n /\ AfterLine(out[s]) = Rows(MsgRows(b))
  BY <1>1, <1>3, <1>4, <1>5, HeaderRead DEF MsgReply
<1>7. RowsLeft(s) = n /\ (More(s) <=> n > 0)
  BY <1>6 DEF RowsLeft, More
<1>8. /\ wait'[s] = IF n > 0 THEN "msgs" ELSE "no"
      /\ left'[s] = IF n > 0 THEN n ELSE 0
      /\ view'[s] = view[s] /\ shown'[s] = shown[s] /\ out'[s] = Rows(MsgRows(b))
  BY <1>6, <1>7, LineIs
<1>9. drained'[s] = drained[s] /\ UNCHANGED <<daemon, peers_, born>>
  BY DEF Line, handler, node
<1>10. IsPrefix(shown[s], drained[s]) /\ shown[s] \in Seq(Text) /\ view[s] \in Seq(Seq(Byte))
  BY DEF OneShell, Types
<1>11. CASE n > 0
  <2>1. wait'[s] = "msgs" /\ left'[s] = n
    BY <1>8, <1>11
  <2>2. Unread(s, out[s], left[s])'
    BY <1>1, <1>3, <1>8, <1>9, <1>11, <2>1 DEF Unread
  <2> QED
    BY <1>4, <1>8, <1>10, <2>1, <2>2 DEF After
<1>12. CASE n = 0
  <2>1. wait'[s] = "no" /\ left'[s] = 0
    BY <1>8, <1>12
  <2>2. b = <<>> /\ MsgRows(b) = <<>>
    BY <1>2, <1>3, <1>4, <1>12, EmptySeq
  <2>3. out'[s] = <<>> /\ drained[s] = shown[s]
    BY <1>1, <1>8, <1>10, <2>2, RowsEmpty, ConcatEmptySeq
  <2>4. Listed(s)
    BY DEF OneShell, Connected
  <2>5. Listed(s)'
    BY <1>8, <1>9, <2>4, ListedKept, AgesSame
  <2> QED
    BY <1>4, <1>8, <1>10, <2>1, <2>3, <2>5 DEF After
<1> QED
  BY <1>11, <1>12

(* A message.                                                              *)
LEMMA ReadMsgRow ==
    ASSUME Types, NEW s \in Shell, Line(s), OneShell(s), sh[s] = "on", Unread(s, out[s], left[s]),
           wait[s] = "msgs", left[s] # 0
    PROVE  After(s)
<1>1. PICK b \in Batch : /\ drained[s] = shown[s] \o b /\ left[s] = Len(b)
                         /\ out[s] = Rows(MsgRows(b))
  BY DEF Unread
<1>2. b \in Seq(Text) /\ Len(b) <= RING /\ Len(b) # 0
  BY <1>1 DEF Batch
<1>3. PICK n \in Nat : n = Len(b)
  BY <1>2, LenProperties
<1>4. /\ MsgRows(b) \in Seq(Lines) /\ Len(MsgRows(b)) = n
      /\ MsgRows(b)[1] = <<"pk">> \o escape_ctl(b[1])
  <2>1. 1 \in 1 .. Len(b)
    BY <1>2, <1>3
  <2> QED
    BY <1>2, <1>3, <2>1, MsgRowsAre
<1>5. /\ Tail(MsgRows(b)) = MsgRows(Tail(b)) /\ Tail(b) \in Seq(Text) /\ Len(Tail(b)) = n - 1
      /\ b[1] \in Text /\ b = <<b[1]>> \o Tail(b)
  BY <1>2, <1>3, MsgRowsTail
<1> DEFINE line == <<"pk">> \o escape_ctl(b[1])
<1>6. line # <<>> /\ line[1] = "pk" /\ unescape_ctl(Tail(line)) = b[1]
  BY <1>5, MsgRowIs
<1> HIDE DEF line
<1>7. FirstLine(out[s]) = line /\ AfterLine(out[s]) = Rows(MsgRows(Tail(b)))
  BY <1>1, <1>2, <1>3, <1>4, <1>5, RowRead DEF line
<1>8. RowsLeft(s) = n - 1 /\ (More(s) <=> n - 1 > 0) /\ n - 1 \in Nat
  BY <1>1, <1>2, <1>3 DEF RowsLeft, More
<1>9. /\ wait'[s] = IF n - 1 > 0 THEN "msgs" ELSE "no"
      /\ left'[s] = IF n - 1 > 0 THEN n - 1 ELSE 0
      /\ view'[s] = view[s] /\ shown'[s] = Append(shown[s], b[1])
      /\ out'[s] = Rows(MsgRows(Tail(b)))
  <2>1. wait[s] = "msgs" /\ wait[s] # "peers" /\ left[s] # 0
    OBVIOUS
  <2>2. /\ wait'[s] = IF More(s) THEN wait[s] ELSE "no"
        /\ left'[s] = IF More(s) THEN RowsLeft(s) ELSE 0
        /\ view'[s] = view[s] /\ out'[s] = AfterLine(out[s])
    BY <2>1, LineIs
  <2>3. shown'[s] = Append(shown[s], unescape_ctl(Tail(FirstLine(out[s]))))
    <3>1. FirstLine(out[s]) # <<>> /\ FirstLine(out[s])[1] = "pk"
      BY <1>6, <1>7
    <3> QED
      BY <2>1, <3>1, LineIs
  <2>4. unescape_ctl(Tail(FirstLine(out[s]))) = b[1]
    BY <1>6, <1>7
  <2> QED
    BY <1>7, <1>8, <2>1, <2>2, <2>3, <2>4
<1>10. drained'[s] = drained[s] /\ UNCHANGED <<daemon, peers_, born>>
  BY DEF Line, handler, node
<1>11. shown[s] \in Seq(Text) /\ view[s] \in Seq(Seq(Byte))
  BY DEF Types
<1>12. shown'[s] \in Seq(Text) /\ drained[s] = shown'[s] \o Tail(b)
  <2> DEFINE u == shown[s]
             c == b[1]
             v == Tail(b)
  <2>1. u \in Seq(Text) /\ c \in Text /\ v \in Seq(Text) /\ b = <<c>> \o v
    BY <1>5, <1>11
  <2>2. drained[s] = u \o b /\ shown'[s] = Append(u, c)
    BY <1>1, <1>9
  <2> HIDE DEF u, c, v
  <2>3. Append(u, c) = u \o <<c>> /\ <<c>> \in Seq(Text) /\ Append(u, c) \in Seq(Text)
    <3>1. <<c>> \in Seq(Text)
      BY <2>1
    <3> QED
      BY <2>1, <3>1, AppendIsConcat, AppendProperties
  <2>4. (u \o <<c>>) \o v = u \o (<<c>> \o v)
    <3> DEFINE d == <<c>>
    <3>1. d \in Seq(Text)
      BY <2>3
    <3> HIDE DEF d
    <3>2. u \in Seq(Text) /\ v \in Seq(Text)
      BY <2>1
    <3> DEFINE Q == Text
    <3>3. u \in Seq(Q) /\ d \in Seq(Q) /\ v \in Seq(Q)
      BY <3>1, <3>2
    <3> HIDE DEF Q
    <3>4. (u \o d) \o v = u \o (d \o v)
      BY <3>3, ConcatAssociative
    <3> QED
      BY <3>4 DEF d
  <2>5. drained[s] = Append(u, c) \o v
    BY <2>1, <2>2, <2>3, <2>4
  <2> QED
    BY <2>2, <2>3, <2>5 DEF v
<1>13. IsPrefix(shown'[s], drained[s])
  BY <1>5, <1>12, PrefixConcat
<1>14. MsgRows(Tail(b)) \in Seq(Lines) /\ Rows(MsgRows(Tail(b))) \in Seq(Byte)
  BY <1>5, MsgRowsAre, RowsAre
<1>15. CASE n - 1 > 0
  <2>1. wait'[s] = "msgs" /\ left'[s] = n - 1
    BY <1>9, <1>15
  <2>2. Tail(b) \in Batch
    BY <1>2, <1>3, <1>5, ControlAssumption DEF Batch
  <2>3. Unread(s, out[s], left[s])'
    BY <1>5, <1>9, <1>10, <1>12, <1>15, <2>1, <2>2 DEF Unread
  <2> QED
    BY <1>8, <1>9, <1>11, <1>12, <1>13, <1>14, <2>1, <2>3 DEF After
<1>16. CASE ~(n - 1 > 0)
  <2>1. wait'[s] = "no" /\ left'[s] = 0 /\ n - 1 = 0
    BY <1>8, <1>9, <1>16
  <2>2. Tail(b) = <<>> /\ MsgRows(Tail(b)) = <<>>
    <3>1. Tail(b) = <<>>
      BY <1>5, <2>1, EmptySeq
    <3>2. Len(MsgRows(Tail(b))) = 0
      BY <1>5, <2>1, MsgRowsAre
    <3> QED
      BY <1>14, <3>1, <3>2, EmptySeq
  <2>3. out'[s] = <<>> /\ drained[s] = shown'[s]
    BY <1>9, <1>12, <2>2, RowsEmpty, ConcatEmptySeq
  <2>4. Listed(s)
    BY DEF OneShell, Connected
  <2>5. Listed(s)'
    BY <1>9, <1>10, <2>4, ListedKept, AgesSame
  <2>6. view'[s] = view[s] /\ <<>> \in Seq(Byte)
    BY <1>9
  <2>7. out'[s] \in Seq(Byte) /\ view'[s] \in Seq(Seq(Byte)) /\ shown'[s] \in Seq(Text)
    BY <1>11, <1>12, <2>3, <2>6
  <2> QED
    BY <1>13, <2>1, <2>3, <2>5, <2>6, <2>7 DEF After
<1> QED
  BY <1>15, <1>16

(* The answer to another request.                                          *)
LEMMA ReadReply ==
    ASSUME Types, NEW s \in Shell, Line(s), OneShell(s), sh[s] = "on", Unread(s, out[s], left[s]),
           wait[s] = "reply"
    PROVE  After(s)
<1>1. PICK line \in Lines : out[s] = line \o <<"LF">>
  BY DEF Unread
<1> DEFINE w == line \o <<"LF">>
<1>2. <<>> \in Seq(Byte) /\ w \in Seq(Byte)
  <2>1. line \in Seq(Byte)
    BY DEF Lines
  <2> QED
    BY <2>1, NewlineIs, ConcatProperties
<1>3. w = w \o <<>>
  <2> HIDE DEF w
  <2> QED
    BY <1>2, ConcatEmptySeq
<1>4. AfterLine(out[s]) = <<>>
  BY <1>1, <1>2, <1>3, ReadLine
<1> HIDE DEF w
<1>5. ~More(s)
  BY DEF More
<1>6. /\ wait'[s] = "no" /\ left'[s] = 0 /\ out'[s] = <<>>
      /\ view'[s] = view[s] /\ shown'[s] = shown[s]
  BY <1>4, <1>5, LineIs
<1>7. UNCHANGED <<daemon, peers_, born>>
  BY DEF Line, node
<1>8. Listed(s) /\ (daemon => shown[s] = drained[s])
  BY DEF OneShell, Connected
<1>9. Listed(s)'
  BY <1>6, <1>7, <1>8, ListedKept, AgesSame
<1>10. IsPrefix(shown[s], drained[s]) /\ shown[s] \in Seq(Text) /\ view[s] \in Seq(Seq(Byte))
  BY DEF OneShell, Types
<1> QED
  BY <1>2, <1>6, <1>8, <1>9, <1>10 DEF After

(* A line has been read.                                                   *)
LEMMA LineKeeps ==
    ASSUME IInv, NEW s \in Shell, Line(s)
    PROVE  IInv'
<1>1. /\ wait[s] # "no" /\ HasLine(out[s])
      /\ UNCHANGED <<daemon, peers_, received_msgs_, born, rcvd, sh, prog, req,
                     hp, job, drained, picked, ignored>>
  BY DEF Line, node, handler
<1>2. Types /\ OneShell(s)
  BY DEF IInv
<1>3. sh[s] = "on" /\ Connected(s)
  BY <1>1, <1>2 DEF OneShell, Away
<1>4. Written(s) /\ prog[s] \in Rest1
  <2>1. out[s] # <<>>
    BY <1>1 DEF HasLine, Contains
  <2> QED
    BY <1>1, <1>3, <2>1 DEF Connected, Asked, Working, Ignored, Lost, Silent
<1>5. After(s)
  <2>1. Unread(s, out[s], left[s]) /\ (req[s] = NoRequest \/ ~daemon)
    BY <1>4 DEF Written, Idle
  <2>2. wait[s] \in {"peers", "msgs", "reply"}
    BY <1>1, <1>2 DEF Types
  <2> QED
    BY <1>2, <1>3, <2>1, <2>2, ReadListHeader, ReadListRow, ReadMsgHeader, ReadMsgRow, ReadReply
<1>6. /\ wait'[s] \in {wait[s], "no"} /\ left'[s] \in Nat
      /\ out'[s] \in Seq(Byte) /\ view'[s] \in Seq(Seq(Byte)) /\ shown'[s] \in Seq(Text)
  BY <1>5 DEF After
<1>7. \A x \in Shell \ {s} :
        /\ wait'[x] = wait[x] /\ left'[x] = left[x] /\ view'[x] = view[x]
        /\ shown'[x] = shown[x] /\ out'[x] = out[x]
  BY <1>2, LineIs
<1>8. Types'
  <2>1. /\ wait' = [wait EXCEPT ![s] = wait'[s]] /\ left' = [left EXCEPT ![s] = left'[s]]
        /\ view' = [view EXCEPT ![s] = view'[s]] /\ shown' = [shown EXCEPT ![s] = shown'[s]]
        /\ out' = [out EXCEPT ![s] = out'[s]]
    BY <1>2 DEF Line, Types
  <2>2. wait' \in [Shell -> {"no", "peers", "msgs", "reply"}] /\ left' \in [Shell -> Nat]
    <3>1. wait'[s] \in {"no", "peers", "msgs", "reply"}
      BY <1>2, <1>6 DEF Types
    <3>2. PICK w \in {"no", "peers", "msgs", "reply"}, n \in Nat : w = wait'[s] /\ n = left'[s]
      BY <1>6, <3>1
    <3>3. wait' = [wait EXCEPT ![s] = w] /\ left' = [left EXCEPT ![s] = n]
      BY <2>1, <3>2
    <3> QED
      BY <1>2, <3>3 DEF Types
  <2>3. view' \in [Shell -> Seq(Seq(Byte))]
    BY <1>2, <1>6, <2>1 DEF Types
  <2>4. shown' \in [Shell -> Seq(Text)]
    BY <1>2, <1>6, <2>1 DEF Types
  <2>5. out' \in [Shell -> Seq(Byte)]
    BY <1>2, <1>6, <2>1 DEF Types
  <2> QED
    BY <1>1, <1>2, <2>2, <2>3, <2>4, <2>5 DEF Types
<1>9. Jobs'
  BY <1>1 DEF IInv, Jobs
<1>10. \A x \in Shell \ {s} : Same(x)
  BY <1>1, <1>7 DEF Same
<1>11. Connected(s)'
  <2>1. Idle(s)'
    BY <1>1, <1>4 DEF Written, Idle
  <2>2. CASE wait'[s] = "no"
    BY <1>1, <1>5, <2>1, <2>2 DEF After, Connected, Silent
  <2>3. CASE wait'[s] # "no"
    <3>1. wait'[s] = wait[s] /\ Written(s)'
      BY <1>5, <2>1, <2>3 DEF After, Written
    <3>2. wait[s] # "peers" => Listed(s)'
      BY <1>1, <1>3, <1>5, ListedKept, AgesSame DEF After, Connected
    <3>3. daemon => req[s] = NoRequest
      BY <1>4 DEF Written, Idle
    <3>4. ASSUME daemon', wait'[s] # "msgs" \/ req'[s] # NoRequest PROVE shown'[s] = drained'[s]
      <4>1. wait[s] # "msgs" /\ shown[s] = drained[s]
        BY <1>1, <1>3, <3>1, <3>3, <3>4 DEF Connected
      <4>2. shown'[s] = shown[s]
        BY <1>2, <4>1, LineIs
      <4> QED
        BY <1>1, <4>1, <4>2
    <3> QED
      BY <1>1, <1>4, <2>3, <3>1, <3>2, <3>4 DEF Connected
  <2> QED
    BY <2>2, <2>3
<1>12. ASSUME picked'[s] # <<>> PROVE Picked(s)'
  <2>1. Picked(s) /\ wait[s] # "peers"
    BY <1>1, <1>2, <1>12 DEF OneShell, Picked
  <2>2. view'[s] = view[s] /\ wait'[s] # "peers"
    BY <1>5, <1>6, <2>1 DEF After
  <2> QED
    BY <1>1, <1>4, <2>1, <2>2, PickedKept
<1>13. IsPrefix(shown[s], drained[s])'
  BY <1>1, <1>5 DEF After
<1>14. OneShell(s)'
  BY <1>1, <1>3, <1>11, <1>12, <1>13 DEF OneShell
<1> QED
  BY <1>1, <1>8, <1>9, <1>10, <1>14, AgesSame, OthersKept
-----------------------------------------------------------------------------
(* The threads of the peers                                                *)

(* A step of the node that no shell and no handler takes part in.          *)
LEMMA NodeKeeps ==
    ASSUME IInv, Ages, Types', UNCHANGED <<daemon, shell, req, out, handler>>
    PROVE  IInv'
<1>1. Jobs'
  BY DEF IInv, Jobs, handler
<1>2. ASSUME NEW x \in Shell PROVE OneShell(x)'
  <2>1. Same(x)
    BY DEF Same, shell, handler
  <2> QED
    BY <2>1, ShellKept DEF IInv
<1> QED
  BY <1>1, <1>2 DEF IInv

(* A new connection comes last in the table, and is the youngest.          *)
LEMMA AddPeerKeeps ==
    ASSUME IInv, add_peer
    PROVE  IInv'
<1>1. /\ daemon /\ born < MaxPeers /\ born' = born + 1 /\ peers_' = Append(peers_, born + 1)
      /\ UNCHANGED <<daemon, received_msgs_, rcvd, shell, req, out, handler>>
  BY DEF add_peer
<1>2. Types
  BY DEF IInv
<1>3. PICK n \in Nat : n = Len(peers_)
  BY <1>2, ListingIs DEF Types
<1>4. /\ peers_ \in Seq(1 .. MaxPeers) /\ DOMAIN peers_ = 1 .. n
      /\ \A i \in 1 .. n : peers_[i] \in 1 .. MaxPeers
      /\ \A i, j \in 1 .. n : i < j => peers_[i] < peers_[j]
  BY <1>2, <1>3, ListingIs DEF Types
<1>5. PICK c \in 1 .. MaxPeers : c = born + 1
  BY <1>1, <1>2, ControlAssumption DEF Types
<1>6. \A i \in 1 .. n : peers_[i] < c
  <2>1. \A p \in ToSet(peers_) : p <= born
    BY <1>2 DEF Types
  <2>2. ASSUME NEW i \in 1 .. n PROVE peers_[i] < c
    <3>1. peers_[i] \in ToSet(peers_)
      BY <1>4 DEF ToSet
    <3>2. peers_[i] <= born /\ born \in Nat /\ peers_[i] \in Nat
      BY <1>2, <1>4, <2>1, <3>1, ControlAssumption DEF Types
    <3> QED
      BY <1>5, <3>2
  <2> QED
    BY <2>2
<1>7. /\ peers_' \in Seq(1 .. MaxPeers) /\ DOMAIN peers_' = 1 .. n + 1
      /\ \A i \in 1 .. n : peers_'[i] = peers_[i]
      /\ peers_'[n + 1] = c
  <2> DEFINE T == Append(peers_, c)
  <2>1. /\ T \in Seq(1 .. MaxPeers) /\ Len(T) = n + 1
        /\ \A i \in 1 .. n : T[i] = peers_[i]
        /\ T[n + 1] = c
    BY <1>3, <1>4, AppendProperties
  <2>2. DOMAIN T = 1 .. n + 1
    BY <2>1, LenProperties
  <2>3. peers_' = T
    BY <1>1, <1>5
  <2> HIDE DEF T
  <2> QED
    BY <2>1, <2>2, <2>3
<1>8. Increasing(peers_')
  <2> SUFFICES ASSUME NEW i \in 1 .. n + 1, NEW j \in 1 .. n + 1, i < j
               PROVE  peers_'[i] < peers_'[j]
    BY <1>7 DEF Increasing
  <2>1. i \in 1 .. n
    OBVIOUS
  <2>2. CASE j = n + 1
    BY <1>6, <1>7, <2>1, <2>2
  <2>3. CASE j \in 1 .. n
    BY <1>4, <1>7, <2>1, <2>3
  <2> QED
    BY <2>2, <2>3
<1>9. \A p \in ToSet(peers_') : p \in ToSet(peers_) \/ p = c
  <2>1. ASSUME NEW p \in ToSet(peers_') PROVE p \in ToSet(peers_) \/ p = c
    <3>1. PICK i \in 1 .. n + 1 : p = peers_'[i]
      BY <1>7 DEF ToSet
    <3>2. i = n + 1 \/ i \in 1 .. n
      OBVIOUS
    <3> QED
      BY <1>4, <1>7, <3>1, <3>2 DEF ToSet
  <2> QED
    BY <2>1
<1>10. Types'
  <2>1. peers_' \in Listing
    BY <1>7, <1>8 DEF Listing
  <2>2. born' \in 0 .. MaxPeers
    BY <1>1, <1>2, ControlAssumption DEF Types
  <2>3. \A p \in ToSet(peers_') : p <= born'
    <3>1. \A p \in ToSet(peers_) : p \in Nat /\ p <= born
      BY <1>2, <1>4 DEF Types, ToSet
    <3>2. born \in Nat
      BY <1>2, ControlAssumption DEF Types
    <3> QED
      BY <1>1, <1>5, <1>9, <3>1, <3>2
  <2> QED
    BY <1>1, <1>2, <2>1, <2>2, <2>3 DEF Types, shell, handler
<1>11. Ages
  <2> SUFFICES ASSUME NEW L \in Listing, Since(L) PROVE Since(L)'
    BY DEF Ages
  <2>1. \A q \in ToSet(L) : q <= born /\ q \in Nat
    <3>1. \A q \in ToSet(L) : q \in Nat
      BY ListingIs DEF ToSet
    <3> QED
      BY <1>1, <3>1 DEF Since
  <2>2. born \in Nat
    BY <1>2, ControlAssumption DEF Types
  <2>3. \A q \in ToSet(L) : q < c /\ q <= born'
    BY <1>1, <1>5, <2>1, <2>2
  <2>4. Later(L, peers_')
    BY <1>9, <2>3 DEF Since, Later
  <2> QED
    BY <2>3, <2>4 DEF Since
<1> QED
  BY <1>1, <1>10, <1>11, NodeKeeps

(* An erasure keeps the order of the table.                                *)
LEMMA RemovePeerKeeps ==
    ASSUME IInv, NEW p \in 1 .. MaxPeers, remove_peer(p)
    PROVE  IInv'
<1>1. /\ peers_' = erased(peers_, p)
      /\ UNCHANGED <<daemon, received_msgs_, born, rcvd, shell, req, out, handler>>
  BY DEF remove_peer
<1>2. Types
  BY DEF IInv
<1>3. PICK n \in Nat : n = Len(peers_)
  BY <1>2, ListingIs DEF Types
<1>4. /\ peers_ \in Seq(1 .. MaxPeers) /\ DOMAIN peers_ = 1 .. n
      /\ \A i, j \in 1 .. n : i < j => peers_[i] < peers_[j]
  BY <1>2, <1>3, ListingIs DEF Types
<1>5. /\ peers_' \in Seq(1 .. MaxPeers) /\ ToSet(peers_') \subseteq ToSet(peers_)
      /\ InOrder(peers_, n, peers_')
  <2>1. /\ erased(peers_, p) \in Seq(1 .. MaxPeers)
        /\ ToSet(erased(peers_, p)) = ToSet(peers_) \ {p}
        /\ InOrder(peers_, Len(peers_), erased(peers_, p))
    BY <1>4, ErasedIsRest
  <2> QED
    BY <1>1, <1>3, <2>1
<1>6. PICK g \in [DOMAIN peers_' -> 1 .. n] :
        /\ \A i, j \in DOMAIN peers_' : i < j => g[i] < g[j]
        /\ \A j \in DOMAIN peers_' : peers_'[j] = peers_[g[j]]
  BY <1>5 DEF InOrder
<1>7. Increasing(peers_')
  BY <1>4, <1>6 DEF Increasing
<1>8. peers_' \in Listing
  BY <1>5, <1>7 DEF Listing
<1>9. Types'
  BY <1>1, <1>2, <1>5, <1>8 DEF Types, shell, handler
<1>10. Ages
  BY <1>1, <1>5 DEF Ages, Since, Later
<1> QED
  BY <1>1, <1>9, <1>10, NodeKeeps

(* The ring never holds more than RING messages.                           *)
LEMMA ReceiveKeeps ==
    ASSUME IInv, Receive
    PROVE  IInv'
<1>1. /\ rcvd < Len(Texts) /\ rcvd' = rcvd + 1
      /\ received_msgs_' =
           Append(IF Len(received_msgs_) >= RING THEN Tail(received_msgs_) ELSE received_msgs_,
                  Texts[rcvd + 1])
      /\ UNCHANGED <<daemon, peers_, born, shell, req, out, handler>>
  BY DEF Receive
<1>2. Types
  BY DEF IInv
<1>3. PICK n \in Nat : n = Len(received_msgs_)
  BY <1>2, LenProperties DEF Types, Batch
<1>4. received_msgs_ \in Seq(Text) /\ n <= RING /\ RING \in Nat \ {0}
  BY <1>2, <1>3, ControlAssumption DEF Types, Batch
<1>5. PICK c \in Text : c = Texts[rcvd + 1]
  <2>1. PICK k \in Nat : k = Len(Texts)
    BY ControlAssumption, LenProperties
  <2>2. rcvd + 1 \in 1 .. k
    BY <1>1, <1>2, <2>1 DEF Types
  <2>3. \A i \in 1 .. k : Texts[i] \in Text
    BY <2>1, ControlAssumption, ElementOfSeq DEF Text
  <2> QED
    BY <2>2, <2>3
<1> DEFINE b == IF n >= RING THEN Tail(received_msgs_) ELSE received_msgs_
<1>6. b \in Seq(Text) /\ Len(b) + 1 <= RING
  <2>1. CASE n >= RING
    <3>1. received_msgs_ # <<>>
      BY <1>3, <1>4, <2>1
    <3>2. Tail(received_msgs_) \in Seq(Text) /\ Len(Tail(received_msgs_)) = n - 1
      BY <1>3, <1>4, <3>1, HeadTailProperties
    <3> QED
      BY <1>4, <2>1, <3>2
  <2>2. CASE ~(n >= RING)
    BY <1>3, <1>4, <2>2
  <2> QED
    BY <2>1, <2>2
<1> HIDE DEF b
<1>7. Append(b, c) \in Batch
  <2>1. Append(b, c) \in Seq(Text) /\ Len(Append(b, c)) = Len(b) + 1
    BY <1>6, AppendProperties
  <2> QED
    BY <1>6, <2>1 DEF Batch
<1>8. received_msgs_' \in Batch
  BY <1>1, <1>3, <1>5, <1>7 DEF b
<1>9. rcvd' \in Nat
  BY <1>1, <1>2 DEF Types
<1>10. Types'
  BY <1>1, <1>2, <1>8, <1>9 DEF Types, shell, handler
<1> QED
  BY <1>1, <1>10, AgesSame, NodeKeeps
-----------------------------------------------------------------------------
(* The threads of the handlers                                             *)

(* One call of send_msg: what has been sent to and what is yet to be sent  *)
(* to are never more than the table had entries.                           *)
LEMMA SendKeeps ==
    ASSUME IInv, NEW s \in Shell, Send(s)
    PROVE  IInv'
<1>1. /\ daemon /\ hp[s] = "busy" /\ job[s].to # <<>>
      /\ UNCHANGED <<daemon, peers_, received_msgs_, born, rcvd, sh, prog, wait, left, view,
                     shown, req, out, hp, drained, picked, ignored>>
  BY DEF Send, node, shell
<1>2. Types /\ Jobs /\ OneShell(s)
  BY DEF IInv
<1>3. PICK ok \in BOOLEAN :
        job' = [job EXCEPT ![s].to = Tail(@), ![s].count = IF ok THEN @ + 1 ELSE @]
  BY DEF Send
<1> DEFINE J == [to : Seq(1 .. MaxPeers), count : Nat, reply : Seq(Byte)]
<1>4. job[s] \in J /\ job[s].count + Len(job[s].to) <= MaxPeers
  BY <1>1, <1>2 DEF Jobs, Fits
<1>5. DOMAIN job = Shell
  BY <1>2 DEF Types
<1>6. /\ DOMAIN job' = Shell /\ \A x \in Shell \ {s} : job'[x] = job[x]
      /\ job'[s] = [job[s] EXCEPT !.to = Tail(job[s].to),
                                  !.count = IF ok THEN job[s].count + 1 ELSE job[s].count]
  BY <1>3, <1>5
<1>7. PICK to \in Seq(1 .. MaxPeers), c \in Nat : to = job[s].to /\ c = job[s].count
  BY <1>4
<1>8. PICK n \in Nat : n = Len(to)
  BY LenProperties
<1>9. Tail(to) \in Seq(1 .. MaxPeers) /\ Len(Tail(to)) = n - 1 /\ n > 0
  <2>1. Tail(to) \in Seq(1 .. MaxPeers) /\ Len(Tail(to)) = Len(to) - 1
    BY <1>1, <1>7, HeadTailProperties
  <2>2. Len(to) # 0
    BY <1>1, <1>7, EmptySeq
  <2> QED
    BY <1>8, <2>1, <2>2
<1>10. /\ job'[s] \in J /\ job'[s].to = Tail(to) /\ job'[s].reply = job[s].reply
       /\ job'[s].count \in Nat /\ job'[s].count <= c + 1
  <2> DEFINE d == IF ok THEN c + 1 ELSE c
  <2>1. d \in Nat /\ d <= c + 1
    OBVIOUS
  <2> HIDE DEF d
  <2>2. job'[s] = [job[s] EXCEPT !.to = Tail(to), !.count = d]
    BY <1>6, <1>7 DEF d
  <2> QED
    BY <1>4, <1>9, <2>1, <2>2
<1>11. job'[s].count + Len(job'[s].to) <= MaxPeers
  <2>1. c + n <= MaxPeers /\ MaxPeers \in Nat
    BY <1>4, <1>7, <1>8, ControlAssumption
  <2> QED
    BY <1>8, <1>9, <1>10, <2>1
<1> HIDE DEF J
<1>12. Types'
  BY <1>1, <1>2, <1>6 DEF Types
<1>13. Jobs'
  <2>1. Fits(job'[s])
    BY <1>10, <1>11 DEF Fits, J
  <2> QED
    BY <1>1, <1>2, <1>6, <2>1 DEF Jobs
<1>14. \A x \in Shell \ {s} : Same(x)
  BY <1>1, <1>6 DEF Same
<1>15. Ages
  BY <1>1, AgesSame
<1>16. ASSUME sh[s] = "on" PROVE Connected(s)'
  <2>1. Connected(s)
    BY <1>2, <1>16 DEF OneShell
  <2>2. wait[s] # "no" /\ Working(s)
    <3>1. wait[s] # "no"
      BY <1>1, <2>1 DEF Connected, Idle
    <3> QED
      BY <1>1, <2>1, <3>1 DEF Connected, Asked, Written, Ignored, Lost, Idle
  <2>3. Working(s)'
    BY <1>1, <1>10, <1>15, <2>2, UnreadKept DEF Working, Silent
  <2>4. wait[s] # "peers" => Listed(s)'
    BY <1>1, <1>15, <2>1, ListedKept DEF Connected
  <2> QED
    BY <1>1, <2>1, <2>2, <2>3, <2>4 DEF Connected
<1>17. OneShell(s)'
  <2>1. sh[s] # "on" => Away(s)'
    BY <1>1, <1>2 DEF OneShell, Away
  <2>2. picked[s] # <<>> => Picked(s)'
    BY <1>1, <1>2, PickedKept DEF OneShell, Picked
  <2> QED
    BY <1>1, <1>2, <1>16, <2>1, <2>2 DEF OneShell
<1> QED
  BY <1>1, <1>12, <1>13, <1>14, <1>15, <1>17, OthersKept

(* The handler of a shell that has ended is through.                       *)
LEMMA HangUpKeeps ==
    ASSUME IInv, NEW s \in Shell, HangUp(s)
    PROVE  IInv'
<1>1. /\ sh[s] = "ended" /\ hp' = [hp EXCEPT ![s] = "none"]
      /\ picked' = [picked EXCEPT ![s] = <<>>] /\ drained' = [drained EXCEPT ![s] = <<>>]
      /\ UNCHANGED <<daemon, peers_, received_msgs_, born, rcvd, sh, prog, wait, left, view,
                     shown, req, out, job, ignored>>
  BY DEF HangUp, node, shell
<1>2. Types /\ Jobs /\ OneShell(s)
  BY DEF IInv
<1>3. /\ hp'[s] = "none" /\ picked'[s] = <<>> /\ drained'[s] = <<>>
      /\ hp' \in [Shell -> {"none", "idle", "busy"}] /\ DOMAIN picked' = Shell
      /\ \A x \in Shell \ {s} : hp'[x] = hp[x] /\ picked'[x] = picked[x] /\ drained'[x] = drained[x]
  BY <1>1, <1>2 DEF Types
<1>4. drained' \in [Shell -> Seq(Text)]
  <2>1. <<>> \in Seq(Text)
    OBVIOUS
  <2> QED
    BY <1>1, <1>2, <2>1 DEF Types
<1>5. Types'
  BY <1>1, <1>2, <1>3, <1>4 DEF Types
<1>6. Jobs'
  BY <1>1, <1>2, <1>3 DEF Jobs
<1>7. \A x \in Shell \ {s} : Same(x)
  BY <1>1, <1>3 DEF Same
<1>8. Away(s) /\ shown[s] = <<>>
  BY <1>1, <1>2 DEF OneShell, Away
<1>9. Away(s)'
  BY <1>1, <1>3, <1>8 DEF Away
<1>10. IsPrefix(shown[s], drained[s])'
  <2>1. <<>> \in Seq(Text)
    OBVIOUS
  <2> QED
    <3>1. IsPrefix(<<>>, <<>>)
      BY <2>1, EmptyPrefix
    <3>2. shown'[s] = <<>> /\ drained'[s] = <<>>
      BY <1>1, <1>3, <1>8
    <3> QED
      BY <3>1, <3>2
<1>11. OneShell(s)'
  BY <1>1, <1>3, <1>9, <1>10 DEF OneShell
<1> QED
  BY <1>1, <1>5, <1>6, <1>7, <1>11, AgesSame, OthersKept

(* What is written is the answer, in full.                                 *)
LEMMA SaidIsLine ==
    ASSUME NEW word \in {"OK", "OK_n", "ERR"}
    PROVE  \E line \in Lines : Say(word) = line \o <<"LF">>
<1>1. word \in Byte /\ word # "LF" /\ word # "CR"
  BY DEF Byte
<1> DEFINE line == <<word>>
<1>2. /\ line \in Seq(Byte) /\ Len(line) = 1 /\ DOMAIN line = 1 .. 1 /\ line[1] = word
      /\ line # <<>>
  BY <1>1
<1>3. Say(word) = line \o <<"LF">>
  BY DEF Say
<1> HIDE DEF line
<1>4. Whole(line)
  BY <1>1, <1>2 DEF Whole
<1> QED
  BY <1>2, <1>3, <1>4 DEF Lines
(* A list or a batch of messages is none of the other replies.             *)
LEMMA HeaderFirst ==
    ASSUME NEW word \in {"PEERS", "MSGS"}, NEW n \in Number, NEW rest \in Seq(Byte)
    PROVE  /\ Header(word, n) \o rest \in Seq(Byte)
           /\ Header(word, n) \o rest # Say("OK_n") /\ Header(word, n) \o rest # Say("OK")
<1> DEFINE h == Header(word, n)
           t == h \o rest
<1>1. word \in Byte /\ to_string[n] \in Byte /\ "LF" \in Byte
  BY NumberIs DEF Byte, Char
<1>2. h \in Seq(Byte) /\ Len(h) = 3 /\ h[1] = word
  BY <1>1 DEF Header
<1> HIDE DEF h
<1>3. t \in Seq(Byte) /\ t[1] = word
  <2>1. PICK m \in Nat : m = Len(rest)
    BY LenProperties
  <2>2. 1 \in 1 .. 3 + m /\ 1 <= 3
    BY <2>1
  <2> QED
    BY <1>2, <2>1, <2>2, ConcatProperties
<1> HIDE DEF t
<1>4. Say("OK_n")[1] = "OK_n" /\ Say("OK")[1] = "OK"
  BY DEF Say
<1>5. t # Say("OK_n") /\ t # Say("OK")
  BY <1>3, <1>4
<1> QED
  BY <1>3, <1>5 DEF t, h

(* What is written is still the answer, whatever the calls returned.       *)
LEMMA ReplyIsAnswer ==
    ASSUME Types, Jobs, NEW s \in Shell, Working(s)
    PROVE  Unread(s, Reply(job[s]), 0) /\ Reply(job[s]) \in Seq(Byte)
<1>1. hp[s] = "busy" /\ Unread(s, job[s].reply, 0)
  BY DEF Working
<1>2. /\ job[s] \in [to : Seq(1 .. MaxPeers), count : Nat, reply : Seq(Byte)]
      /\ job[s].count + Len(job[s].to) <= MaxPeers
  BY <1>1 DEF Jobs, Fits
<1>3. job[s].count \in Number /\ job[s].reply \in Seq(Byte)
  <2>1. Len(job[s].to) \in Nat /\ job[s].count \in Nat
    BY <1>2, LenProperties
  <2>2. RING \in Nat /\ MaxPeers \in Nat
    BY ControlAssumption
  <2> QED
    BY <1>2, <2>1, <2>2 DEF Number
<1>4. CASE wait[s] = "reply"
  <2>1. \E line \in Lines : Reply(job[s]) = line \o <<"LF">>
    <3>1. CASE job[s].reply = Say("OK_n")
      <4>1. Reply(job[s]) = <<"OK_", to_string[job[s].count], "LF">>
        <5>1. Say("OK") # Say("OK_n")
          BY DEF Say
        <5> QED
          BY <3>1, <5>1 DEF Reply
      <4>2. "OK_" \in Byte /\ "OK_" # "LF"
        BY DEF Byte
      <4> QED
        BY <1>3, <4>1, <4>2, PairIsLine
    <3>2. CASE job[s].reply = Say("OK") /\ job[s].count = 0
      <4>1. Say("OK") # Say("OK_n")
        BY DEF Say
      <4>2. Reply(job[s]) = Say("ERR")
        BY <3>2, <4>1 DEF Reply
      <4> QED
        BY <4>2, SaidIsLine
    <3>3. CASE job[s].reply # Say("OK_n") /\ ~(job[s].reply = Say("OK") /\ job[s].count = 0)
      <4>1. Reply(job[s]) = job[s].reply
        BY <3>3 DEF Reply
      <4> QED
        BY <1>1, <1>4, <4>1 DEF Unread
    <3> QED
      BY <3>1, <3>2, <3>3
  <2>2. PICK line \in Lines : Reply(job[s]) = line \o <<"LF">>
    BY <2>1
  <2>3. line \o <<"LF">> \in Seq(Byte)
    <3>1. line \in Seq(Byte)
      BY DEF Lines
    <3> QED
      BY <3>1, NewlineIs, ConcatProperties
  <2> QED
    BY <1>4, <2>1, <2>2, <2>3 DEF Unread
<1>5. CASE wait[s] # "reply"
  <2>1. \/ \E L \in Listing : job[s].reply = ListReply(L)
        \/ \E b \in Batch : job[s].reply = MsgReply(b)
    BY <1>1, <1>5 DEF Unread
  <2>2. job[s].reply # Say("OK_n") /\ job[s].reply # Say("OK")
    <3>1. ASSUME NEW L \in Listing PROVE ListReply(L) # Say("OK_n") /\ ListReply(L) # Say("OK")
      <4>1. Len(L) \in Number /\ Rows(ListRows(L)) \in Seq(Byte)
        BY ListRowsAre, RowsAre
      <4> QED
        BY <4>1, HeaderFirst DEF ListReply
    <3>2. ASSUME NEW b \in Batch PROVE MsgReply(b) # Say("OK_n") /\ MsgReply(b) # Say("OK")
      <4>1. Len(b) \in Number /\ Rows(MsgRows(b)) \in Seq(Byte)
        <5>1. b \in Seq(Text) /\ Len(b) <= RING /\ Len(b) \in Nat
          BY LenProperties DEF Batch
        <5>2. MsgRows(b) \in Seq(Lines)
          BY <5>1, MsgRowsAre
        <5> QED
          BY <5>1, <5>2, RowsAre, ControlAssumption DEF Number
      <4> QED
        BY <4>1, HeaderFirst DEF MsgReply
    <3> QED
      BY <2>1, <3>1, <3>2
  <2>3. Reply(job[s]) = job[s].reply
    BY <2>2 DEF Reply
  <2> QED
    BY <1>1, <1>3, <2>3
<1> QED
  BY <1>4, <1>5

(* A shell whose handler is busy waits for it.                             *)
LEMMA BusyIsWorking ==
    ASSUME IInv, NEW s \in Shell, daemon, hp[s] = "busy", sh[s] = "on"
    PROVE  Connected(s) /\ wait[s] # "no" /\ Working(s)
<1>1. Connected(s)
  BY DEF IInv, OneShell
<1>2. wait[s] # "no"
  BY <1>1 DEF Connected, Idle
<1> QED
  BY <1>1, <1>2 DEF Connected, Asked, Written, Ignored, Lost, Idle

(* The reply is written to a shell that is there.                          *)
LEMMA ReplyKeeps ==
    ASSUME IInv, NEW s \in Shell, Write(s), sh[s] = "on"
    PROVE  IInv'
<1>1. /\ daemon /\ hp[s] = "busy"
      /\ out' = [out EXCEPT ![s] = @ \o Reply(job[s])]
      /\ hp' = [hp EXCEPT ![s] = "idle"] /\ job' = [job EXCEPT ![s] = <<>>]
      /\ UNCHANGED <<daemon, peers_, received_msgs_, born, rcvd, req, drained, picked, sh, prog,
                     wait, left, view, shown, ignored>>
  BY DEF Write, node, shell
<1>2. Types /\ Jobs /\ OneShell(s)
  BY DEF IInv
<1>3. Connected(s) /\ wait[s] # "no" /\ Working(s)
  BY <1>1, BusyIsWorking
<1>4. PICK r : r = Reply(job[s]) /\ Unread(s, r, 0) /\ r \in Seq(Byte)
  BY <1>2, <1>3, ReplyIsAnswer
<1>5. out[s] = <<>> /\ left[s] = 0 /\ req[s] = NoRequest
  BY <1>3 DEF Working, Silent
<1>6. /\ out'[s] = r /\ hp'[s] = "idle" /\ hp' \in [Shell -> {"none", "idle", "busy"}]
      /\ DOMAIN job' = Shell
      /\ \A x \in Shell \ {s} : hp'[x] = hp[x] /\ job'[x] = job[x] /\ out'[x] = out[x]
  <2>1. out'[s] = <<>> \o r
    BY <1>1, <1>2, <1>4, <1>5 DEF Types
  <2>2. <<>> \o r = r
    BY <1>4, ConcatEmptySeq
  <2> QED
    BY <1>1, <1>2, <2>1, <2>2 DEF Types
<1>7. out' \in [Shell -> Seq(Byte)]
  <2>1. out' = [out EXCEPT ![s] = r]
    BY <1>1, <1>2, <1>6 DEF Types
  <2> QED
    BY <1>2, <1>4, <2>1 DEF Types
<1>8. Types'
  BY <1>1, <1>2, <1>6, <1>7 DEF Types
<1>9. Jobs'
  BY <1>2, <1>6 DEF Jobs
<1>10. \A x \in Shell \ {s} : Same(x)
  BY <1>1, <1>6 DEF Same
<1>11. Ages
  BY <1>1, AgesSame
<1>12. Written(s)'
  <2>1. Unread(s, r, 0)'
    BY <1>1, <1>4, <1>11, UnreadKept
  <2> QED
    BY <1>1, <1>5, <1>6, <2>1 DEF Written, Idle
<1>13. Connected(s)'
  <2>1. wait[s] # "peers" => Listed(s)'
    BY <1>1, <1>3, <1>11, ListedKept DEF Connected
  <2> QED
    BY <1>1, <1>3, <1>12, <2>1 DEF Connected
<1>14. picked[s] # <<>> => Picked(s)'
  BY <1>1, <1>2, PickedKept DEF OneShell, Picked
<1>15. OneShell(s)'
  BY <1>1, <1>2, <1>13, <1>14 DEF OneShell
<1> QED
  BY <1>1, <1>8, <1>9, <1>10, <1>11, <1>15, OthersKept

(* The daemon dies: what has been written can still be read, the requests  *)
(* that it has not answered are lost.                                      *)
LEMMA DieKeeps ==
    ASSUME IInv, daemon, Die, UNCHANGED <<shell, out, ignored>>
    PROVE  IInv'
<1>1. /\ daemon /\ daemon' = FALSE
      /\ peers_' = <<>> /\ received_msgs_' = <<>> /\ born' = 0 /\ rcvd' = 0
      /\ hp' = [x \in Shell |-> "none"] /\ job' = [x \in Shell |-> <<>>]
      /\ req' = [x \in Shell |-> NoRequest]
      /\ UNCHANGED <<out, sh, prog, wait, left, view, shown, ignored>>
  BY DEF Die, shell
<1>2. Types /\ \A x \in Shell : OneShell(x)
  BY DEF IInv
<1>3. /\ DOMAIN picked' = Shell /\ DOMAIN drained' = Shell
      /\ \A x \in Shell : sh[x] # "ended" => picked'[x] = picked[x] /\ drained'[x] = drained[x]
      /\ \A x \in Shell : sh[x] = "ended" => picked'[x] = <<>> /\ drained'[x] = <<>>
  BY DEF Die
<1>4. <<>> \in Seq(Text) /\ Len(<<>>) = 0
  OBVIOUS
<1>5. Types'
  <2>1. peers_' \in Listing /\ ToSet(peers_') = {}
    BY <1>1, EmptyList DEF ToSet
  <2>2. received_msgs_' \in Batch
    BY <1>1, <1>4, ControlAssumption DEF Batch
  <2>3. drained' \in [Shell -> Seq(Text)]
    BY <1>2, <1>4 DEF Types, Die
  <2>4. /\ hp' \in [Shell -> {"none", "idle", "busy"}] /\ DOMAIN job' = Shell
        /\ req' \in [Shell -> Sends \cup {LIST, RECV, QUIT, NoRequest}]
        /\ born' \in 0 .. MaxPeers /\ rcvd' \in Nat
    BY <1>1, ControlAssumption
  <2>5. /\ sh' \in [Shell -> {"off", "on", "ended"}] /\ prog' \in [Shell -> Progs]
        /\ wait' \in [Shell -> {"no", "peers", "msgs", "reply"}] /\ left' \in [Shell -> Nat]
        /\ out' \in [Shell -> Seq(Byte)] /\ view' \in [Shell -> Seq(Seq(Byte))]
        /\ shown' \in [Shell -> Seq(Text)] /\ daemon' \in BOOLEAN
    BY <1>1, <1>2 DEF Types
  <2>6. /\ peers_' \in Listing /\ born' \in 0 .. MaxPeers /\ \A p \in ToSet(peers_') : p <= born'
        /\ received_msgs_' \in Batch /\ rcvd' \in Nat
    BY <2>1, <2>2, <2>4
  <2> QED
    BY <1>3, <2>3, <2>4, <2>5, <2>6 DEF Types
<1>6. Jobs'
  BY <1>1 DEF Jobs
<1>7. Ages
  <2>1. ToSet(peers_') = {}
    BY <1>1 DEF ToSet
  <2> QED
    BY <1>1, <2>1 DEF Ages, Since, Later
<1>8. ASSUME NEW x \in Shell, sh[x] = "on" PROVE Connected(x)'
  <2>1. Connected(x)
    BY <1>2, <1>8 DEF OneShell
  <2>2. Idle(x)'
    BY <1>1 DEF Idle
  <2>3. Asked(x) \/ Working(x) => Lost(x)'
    BY <1>1 DEF Asked, Working, Lost, Silent, Unread
  <2>4. Written(x) => Written(x)'
    BY <1>1, <1>3, <1>7, <1>8, <2>2, UnreadKept DEF Written
  <2>5. Ignored(x) => Ignored(x)'
    BY <1>1, <2>2 DEF Ignored, Silent
  <2>6. wait[x] # "no" => Lost(x)' \/ Written(x)' \/ Ignored(x)'
    BY <1>1, <2>1, <2>3, <2>4, <2>5 DEF Connected, Lost
  <2>7. wait[x] = "no" => Silent(x)'
    BY <1>1, <2>1 DEF Connected, Silent
  <2>8. wait[x] # "peers" => Listed(x)'
    BY <1>1, <1>7, <2>1, ListedKept DEF Connected
  <2> QED
    BY <1>1, <2>1, <2>2, <2>6, <2>7, <2>8 DEF Connected
<1>9. ASSUME NEW x \in Shell, sh[x] # "ended" PROVE OneShell(x)'
  <2>1. sh[x] # "on" => Away(x)'
    BY <1>1, <1>2, <1>3, <1>9 DEF OneShell, Away
  <2>2. picked'[x] # <<>> => Picked(x)'
    BY <1>1, <1>2, <1>3, <1>9, PickedKept DEF OneShell, Picked
  <2> QED
    BY <1>1, <1>2, <1>3, <1>8, <1>9, <2>1, <2>2 DEF OneShell
<1>10. ASSUME NEW x \in Shell, sh[x] = "ended" PROVE OneShell(x)'
  <2>1. Away(x) /\ shown[x] = <<>>
    BY <1>2, <1>10 DEF OneShell, Away
  <2>2. Away(x)'
    BY <1>1, <1>10, <2>1 DEF Away
  <2>3. IsPrefix(shown[x], drained[x])'
    BY <1>1, <1>3, <1>4, <1>10, <2>1, EmptyPrefix
  <2> QED
    BY <1>1, <1>3, <1>10, <2>2, <2>3 DEF OneShell
<1>11. ASSUME NEW x \in Shell PROVE OneShell(x)'
  BY <1>9, <1>10
<1> QED
  BY <1>5, <1>6, <1>11 DEF IInv

(* The handler meets a request: of a shell that waits for its answer, or   *)
(* of one that has ended.                                                  *)
LEMMA RequestIsAsked ==
    ASSUME IInv, NEW s \in Shell, daemon, hp[s] = "idle", req[s] # NoRequest
    PROVE  \/ sh[s] = "ended" /\ Away(s)
           \/ /\ sh[s] = "on" /\ Connected(s) /\ Asked(s)
              /\ wait[s] # "no" /\ prog[s] \in Rest1 /\ shown[s] = drained[s]
<1>1. Types /\ OneShell(s)
  BY DEF IInv
<1>2. CASE sh[s] # "on"
  <2>1. sh[s] \in {"off", "ended"} /\ Away(s)
    BY <1>1, <1>2 DEF Types, OneShell
  <2> QED
    BY <2>1 DEF Away
<1>3. CASE sh[s] = "on"
  <2>1. Connected(s)
    BY <1>1, <1>3 DEF OneShell
  <2>2. wait[s] # "no" /\ shown[s] = drained[s]
    BY <2>1 DEF Connected, Idle
  <2> QED
    BY <1>3, <2>1, <2>2 DEF Connected, Working, Written, Ignored, Lost, Idle
<1> QED
  BY <1>2, <1>3

(* What every command has in common.                                       *)
LEMMA DispatchFrame ==
    ASSUME IInv, NEW s \in Shell, Dispatch(s),
           hp' \in [Shell -> {"none", "idle", "busy"}],
           DOMAIN job' = Shell, DOMAIN picked' = Shell, drained' \in [Shell -> Seq(Text)],
           \A x \in Shell \ {s} : /\ hp'[x] = hp[x] /\ job'[x] = job[x]
                                  /\ drained'[x] = drained[x] /\ picked'[x] = picked[x],
           received_msgs_' \in Batch,
           hp'[s] = "busy" => Fits(job'[s]),
           IsPrefix(shown[s], drained'[s]),
           sh[s] = "on" /\ wait[s] # "msgs" => drained'[s] = drained[s],
           picked'[s] # <<>> => Picked(s)',
           sh[s] = "on" => Working(s)' \/ Ignored(s)'
    PROVE  IInv'
<1>1. /\ daemon /\ hp[s] = "idle" /\ req[s] # NoRequest
      /\ req' = [req EXCEPT ![s] = NoRequest]
      /\ UNCHANGED <<daemon, peers_, born, rcvd, sh, prog, wait, left, view, shown, out>>
  BY DEF Dispatch, shell
<1>2. Types /\ Jobs /\ OneShell(s)
  BY DEF IInv
<1>3. req'[s] = NoRequest /\ \A x \in Shell \ {s} : req'[x] = req[x]
  BY <1>1, <1>2 DEF Types
<1>4. Types'
  <2>1. req' \in [Shell -> Sends \cup {LIST, RECV, QUIT, NoRequest}]
    BY <1>1, <1>2 DEF Types
  <2> QED
    BY <1>1, <1>2, <2>1 DEF Types
<1>5. Jobs'
  BY <1>2 DEF Jobs
<1>6. \A x \in Shell \ {s} : Same(x)
  BY <1>1, <1>3 DEF Same
<1>7. Ages
  BY <1>1, AgesSame
<1>8. ASSUME sh[s] = "on" PROVE Connected(s)'
  <2>1. /\ Connected(s) /\ wait[s] # "no" /\ prog[s] \in Rest1 /\ shown[s] = drained[s]
    BY <1>1, <1>8, RequestIsAsked
  <2>2. wait[s] # "peers" => Listed(s)'
    BY <1>1, <1>7, <2>1, ListedKept DEF Connected
  <2>3. Working(s)' \/ Ignored(s)'
    BY <1>8
  <2>4. wait[s] # "msgs" => shown'[s] = drained'[s]
    BY <1>1, <1>8, <2>1
  <2> QED
    BY <1>1, <1>3, <2>1, <2>2, <2>3, <2>4 DEF Connected
<1>9. sh[s] # "on" => Away(s)'
  BY <1>1, <1>3, RequestIsAsked DEF Away
<1>10. IsPrefix(shown[s], drained[s])'
  BY <1>1
<1>11. OneShell(s)'
  BY <1>1, <1>8, <1>9, <1>10 DEF OneShell
<1> QED
  BY <1>1, <1>4, <1>5, <1>6, <1>7, <1>11, OthersKept

(* What picked has, stays as it is.                                        *)
LEMMA DispatchPicked ==
    ASSUME IInv, NEW s \in Shell, Dispatch(s), UNCHANGED picked, picked[s] # <<>>
    PROVE  Picked(s)'
<1>1. Picked(s) /\ UNCHANGED <<prog, wait, view>>
  BY DEF IInv, OneShell, Dispatch, shell
<1> QED
  BY <1>1, PickedKept DEF Picked

(* The thread of s has been given a job that ends with reply r.            *)
Given(s, r) ==
    /\ hp'[s] = "busy" /\ hp' \in [Shell -> {"none", "idle", "busy"}]
    /\ DOMAIN job' = Shell
    /\ \A x \in Shell \ {s} : hp'[x] = hp[x] /\ job'[x] = job[x]
    /\ Fits(job'[s]) /\ job'[s].reply = r

(* A thread gets a job.                                                    *)
LEMMA ThenIs ==
    ASSUME Types, NEW s \in Shell, NEW t \in Seq(1 .. MaxPeers), Len(t) <= MaxPeers,
           NEW r \in Seq(Byte), Then(s, Job(t, r))
    PROVE  Given(s, r)
<1>1. hp' = [hp EXCEPT ![s] = "busy"] /\ job' = [job EXCEPT ![s] = Job(t, r)]
  BY DEF Then
<1>2. hp \in [Shell -> {"none", "idle", "busy"}] /\ DOMAIN job = Shell
  BY DEF Types
<1>3. Len(t) \in Nat
  BY LenProperties
<1>4. Fits(Job(t, r)) /\ Job(t, r).reply = r
  BY <1>3 DEF Job, Fits
<1>5. job'[s] = Job(t, r) /\ DOMAIN job' = Shell /\ \A x \in Shell \ {s} : job'[x] = job[x]
  BY <1>1, <1>2
<1>6. /\ hp'[s] = "busy" /\ hp' \in [Shell -> {"none", "idle", "busy"}]
      /\ \A x \in Shell \ {s} : hp'[x] = hp[x]
  BY <1>1, <1>2
<1> QED
  BY <1>4, <1>5, <1>6 DEF Given

(* A job with nothing to send is a reply.                                  *)
LEMMA ThenReply ==
    ASSUME Types, NEW s \in Shell, NEW r \in Seq(Byte), Then(s, Job(<<>>, r))
    PROVE  Given(s, r)
<1>1. <<>> \in Seq(1 .. MaxPeers) /\ Len(<<>>) <= MaxPeers
  BY ControlAssumption
<1>2. PICK none \in Seq(1 .. MaxPeers) : none = <<>> /\ Len(none) <= MaxPeers
  BY <1>1
<1>3. Then(s, Job(none, r)) /\ Len(none) <= MaxPeers
  BY <1>2
<1> QED
  BY <1>3, ThenIs

(* LIST: the reply is the table of this moment.                            *)
LEMMA ListKeeps ==
    ASSUME IInv, NEW s \in Shell, Dispatch(s), req[s][1] = "LIST", ctl_list(s)
    PROVE  IInv'
<1>1. /\ daemon /\ hp[s] = "idle" /\ req[s] # NoRequest
      /\ req' = [req EXCEPT ![s] = NoRequest]
      /\ UNCHANGED <<daemon, peers_, born, rcvd, sh, prog, wait, left, view, shown, out>>
  BY DEF Dispatch, shell
<1>2. Types /\ OneShell(s)
  BY DEF IInv
<1>3. PICK P \in Listing : P = peers_
  BY <1>2 DEF Types
<1>4. Then(s, Job(<<>>, ListReply(P))) /\ UNCHANGED <<received_msgs_, drained, picked>>
  BY <1>3 DEF ctl_list, ListReply, ListRows
<1>5. ListReply(P) \in Seq(Byte)
  <2>1. Len(P) \in Number /\ Rows(ListRows(P)) \in Seq(Byte)
    BY ListRowsAre, RowsAre
  <2> QED
    BY <2>1, HeaderFirst DEF ListReply
<1>6. PICK r \in Seq(Byte) : r = ListReply(P) /\ Then(s, Job(<<>>, r))
  BY <1>4, <1>5
<1>7. Given(s, r)
  BY <1>2, <1>6, ThenReply
<1>8. ASSUME sh[s] = "on" PROVE Working(s)'
  <2>1. Asked(s)
    BY <1>1, <1>8, RequestIsAsked
  <2>2. wait[s] = "peers" /\ view[s] = <<>> /\ Silent(s)
    BY <2>1, RequestsApart DEF Asked
  <2>3. req'[s] = NoRequest
    BY <1>1, <1>2 DEF Types
  <2>4. Since(P)'
    BY <1>1, <1>2, <1>3 DEF Since, Later, Types
  <2>5. Unread(s, job[s].reply, 0)'
    BY <1>1, <1>6, <1>7, <2>2, <2>4 DEF Unread, Given
  <2> QED
    BY <1>1, <1>7, <2>2, <2>3, <2>5 DEF Working, Silent, Given
<1>9. /\ received_msgs_' \in Batch /\ drained' \in [Shell -> Seq(Text)] /\ DOMAIN picked' = Shell
      /\ IsPrefix(shown[s], drained'[s])
  BY <1>2, <1>4 DEF Types, OneShell
<1>10. picked'[s] # <<>> => Picked(s)'
  BY <1>4, DispatchPicked
<1> QED
  BY <1>4, <1>7, <1>8, <1>9, <1>10, DispatchFrame DEF Given
(* RECV: what is taken from the ring is what the reply says.               *)
LEMMA RecvKeeps ==
    ASSUME IInv, NEW s \in Shell, Dispatch(s), req[s][1] = "RECV", ctl_recv(s)
    PROVE  IInv'
<1>1. /\ daemon /\ hp[s] = "idle" /\ req[s] # NoRequest
      /\ req' = [req EXCEPT ![s] = NoRequest]
      /\ UNCHANGED <<daemon, peers_, born, rcvd, sh, prog, wait, left, view, shown, out>>
  BY DEF Dispatch, shell
<1>2. Types /\ OneShell(s)
  BY DEF IInv
<1>3. PICK b \in Batch : b = received_msgs_
  BY <1>2 DEF Types
<1>4. /\ Then(s, Job(<<>>, MsgReply(b))) /\ received_msgs_' = <<>>
      /\ drained' = [drained EXCEPT ![s] = @ \o b] /\ UNCHANGED picked
  BY <1>3 DEF ctl_recv, MsgReply, MsgRows
<1>5. MsgReply(b) \in Seq(Byte)
  <2>1. b \in Seq(Text) /\ Len(b) <= RING /\ Len(b) \in Nat
    BY LenProperties DEF Batch
  <2>2. Len(b) \in Number /\ Rows(MsgRows(b)) \in Seq(Byte)
    <3>1. MsgRows(b) \in Seq(Lines)
      BY <2>1, MsgRowsAre
    <3> QED
      BY <2>1, <3>1, RowsAre, ControlAssumption DEF Number
  <2> QED
    BY <2>2, HeaderFirst DEF MsgReply
<1>6. PICK r \in Seq(Byte) : r = MsgReply(b) /\ Then(s, Job(<<>>, r))
  BY <1>4, <1>5
<1>7. Given(s, r)
  BY <1>2, <1>6, ThenReply
<1>8. PICK d \in Seq(Text) : d = drained[s]
  BY <1>2 DEF Types
<1>9. d \o b \in Seq(Text) /\ drained' = [drained EXCEPT ![s] = d \o b]
  <2>1. b \in Seq(Text)
    BY DEF Batch
  <2>2. d \o b \in Seq(Text)
    BY <2>1, ConcatProperties
  <2> QED
    BY <1>4, <1>8, <2>2
<1>10. /\ drained' \in [Shell -> Seq(Text)] /\ drained'[s] = d \o b
       /\ \A x \in Shell \ {s} : drained'[x] = drained[x]
  <2>1. PICK e \in Seq(Text) : e = d \o b /\ drained' = [drained EXCEPT ![s] = e]
    BY <1>9
  <2> QED
    BY <1>2, <2>1 DEF Types
<1>11. ASSUME sh[s] = "on" PROVE Working(s)' /\ wait[s] = "msgs" /\ shown[s] = d
  <2>1. Asked(s) /\ shown[s] = d
    BY <1>1, <1>8, <1>11, RequestIsAsked
  <2>2. wait[s] = "msgs" /\ Silent(s)
    BY <2>1, RequestsApart DEF Asked
  <2>3. req'[s] = NoRequest
    BY <1>1, <1>2 DEF Types
  <2>4. Unread(s, job[s].reply, 0)'
    BY <1>1, <1>6, <1>7, <1>10, <2>1, <2>2 DEF Unread, Given
  <2> QED
    BY <1>1, <1>7, <2>1, <2>2, <2>3, <2>4 DEF Working, Silent, Given
<1>12. IsPrefix(shown[s], drained'[s])
  <2>1. CASE sh[s] = "on"
    <3>1. b \in Seq(Text)
      BY DEF Batch
    <3> QED
      BY <1>10, <1>11, <2>1, <3>1, PrefixConcat
  <2>2. CASE sh[s] # "on"
    <3>1. shown[s] = <<>>
      BY <1>2, <2>2 DEF OneShell, Away
    <3> QED
      BY <1>9, <1>10, <3>1, EmptyPrefix
  <2> QED
    BY <2>1, <2>2
<1>13. received_msgs_' \in Batch /\ DOMAIN picked' = Shell
  <2>1. <<>> \in Seq(Text) /\ Len(<<>>) <= RING
    BY ControlAssumption
  <2> QED
    BY <1>2, <1>4, <2>1 DEF Types, Batch
<1>14. picked'[s] # <<>> => Picked(s)'
  BY <1>4, DispatchPicked
<1> QED
  BY <1>4, <1>7, <1>10, <1>11, <1>12, <1>13, <1>14, DispatchFrame DEF Given

(* The commands that are answered with a line.                             *)
LEMMA AnswerKeeps ==
    ASSUME IInv, NEW s \in Shell, Dispatch(s), req[s][1] \in {"SEND", "SENDFILE", "BROADCAST"},
           NEW word \in {"OK", "OK_n", "ERR"}, Given(s, Say(word)),
           UNCHANGED <<received_msgs_, drained>>, DOMAIN picked' = Shell,
           \A x \in Shell \ {s} : picked'[x] = picked[x], picked'[s] # <<>> => Picked(s)'
    PROVE  IInv'
<1>1. /\ daemon /\ hp[s] = "idle" /\ req[s] # NoRequest
      /\ req' = [req EXCEPT ![s] = NoRequest]
      /\ UNCHANGED <<daemon, peers_, born, rcvd, sh, prog, wait, left, view, shown, out>>
  BY DEF Dispatch, shell
<1>2. Types /\ OneShell(s)
  BY DEF IInv
<1>3. PICK line \in Lines : Say(word) = line \o <<"LF">>
  BY SaidIsLine
<1>4. ASSUME sh[s] = "on" PROVE Working(s)'
  <2>1. Asked(s)
    BY <1>1, <1>4, RequestIsAsked
  <2>2. wait[s] = "reply" /\ Silent(s)
    BY <2>1, RequestsApart DEF Asked
  <2>3. req'[s] = NoRequest
    BY <1>1, <1>2 DEF Types
  <2>4. job'[s].reply = line \o <<"LF">>
    BY <1>3 DEF Given
  <2>5. Unread(s, job[s].reply, 0)'
    BY <1>1, <2>2, <2>4 DEF Unread
  <2> QED
    BY <1>1, <2>2, <2>3, <2>5 DEF Working, Silent, Given
<1>5. /\ received_msgs_' \in Batch /\ drained' \in [Shell -> Seq(Text)]
      /\ IsPrefix(shown[s], drained'[s])
  BY <1>2 DEF Types, OneShell
<1> QED
  BY <1>4, <1>5, DispatchFrame DEF Given

(* The two replies that SEND, SENDFILE and BROADCAST start from.           *)
LEMMA SayIs == \A word \in {"OK", "OK_n", "ERR"} : Say(word) \in Seq(Byte)
<1> SUFFICES ASSUME NEW word \in {"OK", "OK_n", "ERR"} PROVE Say(word) \in Seq(Byte)
  OBVIOUS
<1>1. word \in Byte /\ "LF" \in Byte
  BY DEF Byte, Char
<1> QED
  BY <1>1 DEF Say

(* SEND and SENDFILE: the peer is looked up in the table of this moment.   *)
LEMMA CtlSendKeeps ==
    ASSUME IInv, NEW s \in Shell, Dispatch(s), req[s][1] \in {"SEND", "SENDFILE"},
           NEW usable \in BOOLEAN, ctl_send(s, req[s][2], usable)
    PROVE  IInv'
<1>1. /\ daemon /\ hp[s] = "idle" /\ req[s] # NoRequest
      /\ UNCHANGED <<daemon, peers_, born, rcvd, sh, prog, wait, left, view, shown, out>>
  BY DEF Dispatch, shell
<1>2. Types /\ OneShell(s)
  BY DEF IInv
<1>3. UNCHANGED <<received_msgs_, drained>>
  BY DEF ctl_send
<1>4. CASE Then(s, Job(<<>>, Say("ERR"))) /\ UNCHANGED picked
  <2>1. PICK r \in Seq(Byte) : r = Say("ERR") /\ Then(s, Job(<<>>, r))
    BY <1>4, SayIs
  <2>2. Given(s, Say("ERR"))
    BY <1>2, <2>1, ThenReply
  <2>3. picked'[s] # <<>> => Picked(s)'
    BY <1>4, DispatchPicked
  <2> QED
    BY <1>2, <1>3, <1>4, <2>2, <2>3, AnswerKeeps DEF Types
<1>5. ASSUME NEW i \in 1 .. MaxPeers, i \in DOMAIN peers_,
             Then(s, Job(<<peers_[i]>>, Say("OK"))),
             picked' = [picked EXCEPT ![s] = <<i, peers_[i], peers_>>]
      PROVE  IInv'
  <2>1. PICK P \in Listing : P = peers_
    BY <1>2 DEF Types
  <2>2. PICK t \in Seq(1 .. MaxPeers) : t = <<P[i]>> /\ Len(t) <= MaxPeers
    <3>1. P[i] \in 1 .. MaxPeers
      BY <1>5, <2>1, ListingIs
    <3>2. <<P[i]>> \in Seq(1 .. MaxPeers) /\ Len(<<P[i]>>) = 1
      BY <3>1
    <3>3. 1 <= MaxPeers
      BY ControlAssumption
    <3> QED
      BY <3>2, <3>3
  <2>3. PICK r \in Seq(Byte) : r = Say("OK")
    BY SayIs
  <2>4. Then(s, Job(t, r)) /\ Len(t) <= MaxPeers
    BY <1>5, <2>1, <2>2, <2>3
  <2>5. Given(s, r)
    BY <1>2, <2>4, ThenIs
  <2>6. /\ DOMAIN picked' = Shell /\ \A x \in Shell \ {s} : picked'[x] = picked[x]
        /\ picked'[s] = <<i, P[i], P>>
    BY <1>2, <1>5, <2>1 DEF Types
  <2>7. prog[s] \in Rest1 /\ wait[s] # "peers" /\ Listed(s)
    <3>1. CASE sh[s] = "ended" /\ Away(s)
      BY <3>1, EmptyList DEF Away, Listed, Rest1
    <3>2. CASE sh[s] = "on" /\ Connected(s) /\ Asked(s) /\ prog[s] \in Rest1
      BY <3>2, RequestsApart DEF Asked, Connected
    <3> QED
      BY <1>1, <3>1, <3>2, RequestIsAsked
  <2>8. PICK L \in Listing : Later(L, P) /\ view[s] = ListRows(L)
    BY <2>1, <2>7 DEF Listed, Since
  <2>9. Picked(s)'
    BY <1>1, <1>5, <2>1, <2>6, <2>7, <2>8 DEF Picked
  <2> QED
    BY <1>3, <2>3, <2>5, <2>6, <2>9, AnswerKeeps
<1> QED
  BY <1>4, <1>5 DEF ctl_send

(* BROADCAST goes to no more peers than the table has.                     *)
LEMMA BroadcastKeeps ==
    ASSUME IInv, NEW s \in Shell, Dispatch(s), req[s][1] = "BROADCAST", ctl_broadcast(s)
    PROVE  IInv'
<1>1. Types
  BY DEF IInv
<1>2. Then(s, Job(peers_, Say("OK_n"))) /\ UNCHANGED <<received_msgs_, drained, picked>>
  BY DEF ctl_broadcast
<1>3. PICK t \in Seq(1 .. MaxPeers) : t = peers_ /\ Len(t) <= MaxPeers
  BY <1>1, ListingIs DEF Types
<1>4. PICK r \in Seq(Byte) : r = Say("OK_n")
  BY SayIs
<1>5. Then(s, Job(t, r)) /\ Len(t) <= MaxPeers
  BY <1>2, <1>3, <1>4
<1>6. Given(s, r)
  BY <1>1, <1>5, ThenIs
<1>7. DOMAIN picked' = Shell /\ (picked'[s] # <<>> => Picked(s)')
  BY <1>1, <1>2, DispatchPicked DEF Types
<1> QED
  BY <1>2, <1>4, <1>6, <1>7, AnswerKeeps
(* A request that is passed over, and QUIT, which only a shell that has    *)
(* ended has written.                                                      *)
LEMMA PassedOverKeeps ==
    ASSUME IInv, NEW s \in Shell, Dispatch(s), UNCHANGED <<job, received_msgs_, drained, picked>>,
           \/ req[s][2] = "CR" /\ UNCHANGED hp
           \/ req[s][1] = "QUIT" /\ hp' = [hp EXCEPT ![s] = "none"]
    PROVE  IInv'
<1>1. /\ daemon /\ hp[s] = "idle" /\ req[s] # NoRequest
      /\ req' = [req EXCEPT ![s] = NoRequest]
      /\ UNCHANGED <<daemon, peers_, born, rcvd, sh, prog, wait, left, view, shown, out>>
  BY DEF Dispatch, shell
<1>2. Types /\ OneShell(s)
  BY DEF IInv
<1>3. /\ hp' \in [Shell -> {"none", "idle", "busy"}] /\ hp'[s] # "busy"
      /\ \A x \in Shell \ {s} : hp'[x] = hp[x]
  <2>1. hp \in [Shell -> {"none", "idle", "busy"}] /\ hp[s] # "busy"
    BY <1>1, <1>2 DEF Types
  <2>2. hp' = hp \/ hp' = [hp EXCEPT ![s] = "none"]
    OBVIOUS
  <2> QED
    BY <2>1, <2>2
<1>4. ASSUME sh[s] = "on" PROVE Ignored(s)'
  <2>1. Asked(s)
    BY <1>1, <1>4, RequestIsAsked
  <2>2. req[s][1] # "QUIT"
    BY <2>1, RequestsApart DEF Asked
  <2>3. wait[s] = "reply" /\ Silent(s) /\ UNCHANGED hp
    BY <2>1, <2>2, RequestsApart DEF Asked
  <2>4. req'[s] = NoRequest
    BY <1>1, <1>2 DEF Types
  <2> QED
    BY <1>1, <2>3, <2>4 DEF Ignored, Idle, Silent
<1>5. /\ received_msgs_' \in Batch /\ drained' \in [Shell -> Seq(Text)] /\ DOMAIN picked' = Shell
      /\ DOMAIN job' = Shell /\ IsPrefix(shown[s], drained'[s])
  BY <1>2 DEF Types, OneShell
<1>6. picked'[s] # <<>> => Picked(s)'
  BY DispatchPicked
<1> QED
  BY <1>3, <1>4, <1>5, <1>6, DispatchFrame

(* The handler takes a request up.                                         *)
LEMMA DispatchKeeps ==
    ASSUME IInv, NEW s \in Shell, Dispatch(s)
    PROVE  IInv'
<1>1. \/ req[s][1] = "LIST" /\ ctl_list(s)
      \/ req[s][1] = "RECV" /\ ctl_recv(s)
      \/ req[s][1] = "SEND" /\ ctl_send(s, req[s][2], TRUE)
      \/ req[s][1] = "SENDFILE" /\ \E usable \in BOOLEAN : ctl_send(s, req[s][2], usable)
      \/ req[s][1] = "BROADCAST" /\ ctl_broadcast(s)
      \/ /\ req[s][2] = "CR"
         /\ UNCHANGED <<hp, job, received_msgs_, drained, picked>>
      \/ /\ req[s][1] = "QUIT"
         /\ hp' = [hp EXCEPT ![s] = "none"]
         /\ UNCHANGED <<job, received_msgs_, drained, picked>>
  BY DEF Dispatch
<1>2. ASSUME NEW usable \in BOOLEAN, req[s][1] \in {"SEND", "SENDFILE"},
             ctl_send(s, req[s][2], usable)
      PROVE  IInv'
  BY <1>2, CtlSendKeeps
<1>3. TRUE \in BOOLEAN
  OBVIOUS
<1>4. CASE req[s][1] = "LIST" /\ ctl_list(s)
  BY <1>4, ListKeeps
<1>5. CASE req[s][1] = "RECV" /\ ctl_recv(s)
  BY <1>5, RecvKeeps
<1>6. CASE req[s][1] = "SEND" /\ ctl_send(s, req[s][2], TRUE)
  BY <1>2, <1>3, <1>6
<1>7. CASE req[s][1] = "SENDFILE" /\ \E usable \in BOOLEAN : ctl_send(s, req[s][2], usable)
  BY <1>2, <1>7
<1>8. CASE req[s][1] = "BROADCAST" /\ ctl_broadcast(s)
  BY <1>8, BroadcastKeeps
<1>9. CASE req[s][2] = "CR" /\ UNCHANGED <<hp, job, received_msgs_, drained, picked>>
  BY <1>9, PassedOverKeeps
<1>10. CASE /\ req[s][1] = "QUIT" /\ hp' = [hp EXCEPT ![s] = "none"]
            /\ UNCHANGED <<job, received_msgs_, drained, picked>>
  BY <1>10, PassedOverKeeps
<1> QED
  BY <1>1, <1>4, <1>5, <1>6, <1>7, <1>8, <1>9, <1>10

-----------------------------------------------------------------------------
(* The theorems                                                            *)

(* No shell has connected yet.                                             *)
LEMMA InitHolds == Init => IInv
<1> SUFFICES ASSUME Init PROVE IInv
  OBVIOUS
<1>1. /\ daemon = TRUE /\ peers_ = <<>> /\ received_msgs_ = <<>> /\ born = 0 /\ rcvd = 0
      /\ sh = [s \in Shell |-> "off"] /\ prog = [s \in Shell |-> <<>>]
      /\ wait = [s \in Shell |-> "no"] /\ left = [s \in Shell |-> 0]
      /\ req = [s \in Shell |-> NoRequest] /\ out = [s \in Shell |-> <<>>]
      /\ hp = [s \in Shell |-> "none"] /\ job = [s \in Shell |-> <<>>]
      /\ view = [s \in Shell |-> <<>>] /\ drained = [s \in Shell |-> <<>>]
      /\ shown = [s \in Shell |-> <<>>] /\ picked = [s \in Shell |-> <<>>]
  BY DEF Init
<1>2. /\ <<>> \in Progs /\ <<>> \in Seq(Byte) /\ <<>> \in Seq(Seq(Byte)) /\ <<>> \in Seq(Text)
      /\ Len(<<>>) = 0
  BY DEF Progs, Rest1
<1>3. Types
  <2>1. peers_ \in Listing /\ ToSet(peers_) = {} /\ born \in 0 .. MaxPeers /\ rcvd \in Nat
    BY <1>1, EmptyList, ControlAssumption DEF ToSet
  <2>2. received_msgs_ \in Batch
    BY <1>1, <1>2, ControlAssumption DEF Batch
  <2>3. /\ sh \in [Shell -> {"off", "on", "ended"}] /\ prog \in [Shell -> Progs]
        /\ wait \in [Shell -> {"no", "peers", "msgs", "reply"}] /\ left \in [Shell -> Nat]
        /\ req \in [Shell -> Sends \cup {LIST, RECV, QUIT, NoRequest}]
        /\ hp \in [Shell -> {"none", "idle", "busy"}]
        /\ DOMAIN job = Shell /\ DOMAIN picked = Shell
    BY <1>1, <1>2
  <2>4. out \in [Shell -> Seq(Byte)]
    BY <1>1, <1>2
  <2>5. view \in [Shell -> Seq(Seq(Byte))]
    BY <1>1, <1>2
  <2>6. drained \in [Shell -> Seq(Text)] /\ shown \in [Shell -> Seq(Text)]
    BY <1>1, <1>2
  <2> QED
    BY <1>1, <2>1, <2>2, <2>3, <2>4, <2>5, <2>6 DEF Types
<1>4. Jobs
  BY <1>1 DEF Jobs
<1>5. ASSUME NEW s \in Shell PROVE OneShell(s)
  <2>1. Away(s) /\ sh[s] = "off" /\ picked[s] = <<>> /\ shown[s] = <<>> /\ drained[s] = <<>>
    BY <1>1 DEF Away
  <2>2. IsPrefix(shown[s], drained[s])
    BY <1>2, <2>1, EmptyPrefix
  <2> QED
    BY <2>1, <2>2 DEF OneShell
<1> QED
  BY <1>3, <1>4, <1>5 DEF IInv

(* Nothing of it is about steps of other programs.                         *)
LEMMA StutterKeeps ==
    ASSUME IInv, UNCHANGED vars
    PROVE  IInv'
<1>1. UNCHANGED <<daemon, peers_, received_msgs_, born, rcvd, shell, req, out, handler>>
  BY DEF vars, node
<1>2. Types'
  BY <1>1 DEF IInv, Types, shell, handler
<1> QED
  BY <1>1, <1>2, AgesSame, NodeKeeps

(* Every step of the shells, of the handlers and of the peers keeps it.    *)
LEMMA NextKeeps ==
    ASSUME IInv, [Next]_vars
    PROVE  IInv'
<1>1. ASSUME NEW s \in Shell, ShellThread(s) PROVE IInv'
  BY <1>1, AskKeeps, LineKeeps, EndOfFileKeeps DEF ShellThread
<1>2. ASSUME NEW s \in Shell, HandlerThread(s) PROVE IInv'
  <2>1. CASE Write(s)
    <3>1. CASE sh[s] = "on"
      BY <2>1, <3>1, ReplyKeeps
    <3>2. CASE sh[s] # "on"
      BY <2>1, <3>2, DieKeeps DEF Write
    <3> QED
      BY <3>1, <3>2
  <2>2. CASE SendFileThrows(s)
    BY <2>2, DieKeeps DEF SendFileThrows
  <2> QED
    BY <1>2, <2>1, <2>2, DispatchKeeps, SendKeeps, HangUpKeeps DEF HandlerThread
<1>3. ASSUME NEW s \in Shell, Connect(s) \/ Kill(s) PROVE IInv'
  BY <1>3, ConnectKeeps, KillKeeps
<1>4. ASSUME NEW s \in Shell, NEW t \in Commands[s], Type(s, t) PROVE IInv'
  BY <1>4, TypeKeeps
<1>5. ASSUME add_peer \/ (\E p \in 1 .. MaxPeers : remove_peer(p)) \/ Receive PROVE IInv'
  BY <1>5, AddPeerKeeps, RemovePeerKeeps, ReceiveKeeps
<1>6. CASE UNCHANGED vars
  BY <1>6, StutterKeeps
<1> QED
  BY <1>1, <1>2, <1>3, <1>4, <1>5, <1>6 DEF Next

(* Where a request is, what is left of its answer, the list that the       *)
(* screen shows and the table that has come after it: for any number of    *)
(* shells, over every interleaving of shells, handlers and peers, kills of *)
(* shells and the death of the daemon included.                            *)
THEOREM ControlInvariant == Spec => []IInv
<1>1. Init => IInv
  BY InitHolds
<1>2. IInv /\ [Next]_vars => IInv'
  BY NextKeeps
<1> QED
  BY <1>1, <1>2, PTL DEF Spec

(* At the prompt no byte of a reply is left over, and no request is on its *)
(* way: do_list and do_recv of main.cpp read exactly what ctl_list and     *)
(* ctl_recv write, also when the table or the ring is empty.               *)
THEOREM PromptStaysQuiet == Spec => []QuietAtPrompt
<1>1. IInv => QuietAtPrompt
  BY PromptIsQuiet
<1> QED
  BY <1>1, ControlInvariant, PTL

(* The shell displays the messages that the daemon took from the ring for  *)
(* it, in order and all of them at the prompt, for all texts: escape_ctl   *)
(* hides every newline and every carriage return, unescape_ctl brings them *)
(* back, and do_recv displays what it then has whole, or its size with as  *)
(* much of its beginning as the first MAX_LINES lines hold.                *)
THEOREM DisplayIsDrained == Spec => []ShownAsDrained
<1>1. IInv => ShownAsDrained
  BY ScreenTells
<1> QED
  BY <1>1, ControlInvariant, PTL

(* SEND i never reaches a peer listed before i, and reaches the one listed *)
(* at i if none up to i has left: add_peer appends, and remove_peer keeps  *)
(* the order.                                                              *)
THEOREM SendReachesListed == Spec => []SentToListed
<1>1. IInv => SentToListed
  BY PickedIsListed
<1> QED
  BY <1>1, ControlInvariant, PTL
=============================================================================
