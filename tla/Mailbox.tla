------------------------------- MODULE Mailbox -------------------------------
(***************************************************************************)
(* Messages and shared pages between an interpreter and the processes it   *)
(* spawns (src/src/process.rs: send, receive, share, and the channel half  *)
(* of spawn).  A channel is a pair of datagram sockets; each process keeps *)
(* a list of channels, labelled with the pid of the peer.                  *)
(***************************************************************************)
EXTENDS FileIo

CONSTANTS
  Pids,        \* the process numbers the system gives out
  MailBytes,   \* bytes a socket buffer holds
  RecvMax      \* bytes receive asks for

ASSUME MailAssumption == MailBytes \in Nat /\ RecvMax \in Nat

VARIABLES
  pid,     \* the number of each process, 0 before it starts
  made,    \* how it was made: "root", "spawn" or "fork"
  chans,   \* its channels: labels and socket ends
  ends,    \* the socket ends it holds open, listed or not
  mail,    \* per channel, the datagrams on their way to end 1 and to end 2
  inbox,   \* what receive has put in places, and under which label
  page,    \* the shared pages
  pages    \* the pages each process knows

mailVars == <<pid, made, chans, ends, mail, inbox, page, pages>>

Other(e) == <<e[1], 3 - e[2]>>

\* The first channel labelled n, which is the one used: a set with at most
\* one socket end.
PeerEnd(p, n) ==
  LET at == {i \in 1..Len(chans[p]) : chans[p][i].pid = n}
  IN  IF at = {} THEN {} ELSE {chans[p][Min(at)].end}

\* The size of the datagrams of a queue.
Bytes(q) ==
  LET sum[k \in 0..Len(q)] == IF k = 0 THEN 0 ELSE sum[k - 1] + Len(q[k].text)
  IN  sum[Len(q)]

\* send without the test that the whole message has gone out.
SendAlways(p, n, text) ==
  /\ Begin(p, "send")
  /\ \E e \in PeerEnd(p, n) :
       LET to == Other(e) IN
       mail' = [mail EXCEPT ![to[1]][to[2]] =
                  Append(@, [by |-> p, pid |-> pid[p], to |-> n, text |-> text])]
  /\ UNCHANGED <<kernelVars, call, line, buf, hist,
                 pid, made, chans, ends, inbox, page, pages>>

\* The repr of the message goes out as one datagram or not at all: nothing is
\* sent when the buffer is full or nobody holds the other end.
Send(p, n, text) ==
  /\ Begin(p, "send")
  /\ \E e \in PeerEnd(p, n) :
       LET to == Other(e) IN
       /\ \E q \in Running : to \in ends[q]
       /\ Bytes(mail[to[1]][to[2]]) + Len(text) <= MailBytes
       /\ mail' = [mail EXCEPT ![to[1]][to[2]] =
                     Append(@, [by |-> p, pid |-> pid[p], to |-> n, text |-> text])]
  /\ UNCHANGED <<kernelVars, call, line, buf, hist,
                 pid, made, chans, ends, inbox, page, pages>>

\* A datagram is taken off the socket, cut to the size of the buffer, and
\* then assigned; if the place cannot be assigned it is gone all the same.
Receive(p, n) ==
  /\ Begin(p, "receive")
  /\ \E e \in PeerEnd(p, n) :
       /\ mail[e[1]][e[2]] # <<>>
       /\ mail' = [mail EXCEPT ![e[1]][e[2]] = Tail(@)]
       /\ LET m == Head(mail[e[1]][e[2]])
              value == [m EXCEPT !.text = SubSeq(@, 1, Min({RecvMax, Len(@)}))]
          IN  inbox' \in {inbox,
                [inbox EXCEPT ![p] = Append(@, [as |-> n, mail |-> value])]}
  /\ UNCHANGED <<kernelVars, call, line, buf, hist,
                 pid, made, chans, ends, page, pages>>

\* spawn without the clearing of the channel list in the child.
SpawnKeepsChannels(p, q, flag) ==
  LET k == Len(mail) + 1 IN
  IF flag
    THEN /\ mail' = Append(mail, <<<<>>, <<>>>>)
         /\ chans' = [chans EXCEPT
              ![p] = Append(@, [pid |-> pid'[q], end |-> <<k, 1>>]),
              ![q] = Append(chans[p], [pid |-> pid[p], end |-> <<k, 2>>])]
         /\ ends' = [ends EXCEPT ![p] = @ \cup {<<k, 1>>},
                                 ![q] = ends[p] \cup {<<k, 2>>}]
    ELSE /\ mail' = mail
         /\ chans' = [chans EXCEPT ![q] = chans[p]]
         /\ ends' = [ends EXCEPT ![q] = ends[p]]

\* The child of a spawn forgets the channels of its parent, without closing
\* their sockets; with a message flag it gets one to its parent.
SpawnChannels(p, q, flag) ==
  LET k == Len(mail) + 1 IN
  IF flag
    THEN /\ mail' = Append(mail, <<<<>>, <<>>>>)
         /\ chans' = [chans EXCEPT
              ![p] = Append(@, [pid |-> pid'[q], end |-> <<k, 1>>]),
              ![q] = <<[pid |-> pid[p], end |-> <<k, 2>>]>>]
         /\ ends' = [ends EXCEPT ![p] = @ \cup {<<k, 1>>},
                                 ![q] = ends[p] \cup {<<k, 2>>}]
    ELSE /\ mail' = mail
         /\ chans' = [chans EXCEPT ![q] = <<>>]
         /\ ends' = [ends EXCEPT ![q] = ends[p]]

\* q is a child that p itself has spawned with a channel: each names the other,
\* and p has the end that is made for the parent.
SpawnedBy(q, p) ==
  \E k \in 1..Len(mail) :
    /\ [pid |-> pid[q], end |-> <<k, 1>>] \in ToSet(chans[p])
    /\ [pid |-> pid[p], end |-> <<k, 2>>] \in ToSet(chans[q])

\* The channels of a list that are not labelled n, in their order.
Without(list, n) ==
  LET kept[i \in 0..Len(list)] ==
        IF i = 0 THEN <<>>
        ELSE IF list[i].pid = n THEN kept[i - 1] ELSE Append(kept[i - 1], list[i])
  IN  kept[Len(list)]

\* abort drops every channel of p that is labelled n, and closes its socket;
\* copies that forked and spawned children hold stay open.
AbortChannels(p, n) ==
  /\ chans' = [chans EXCEPT ![p] = Without(@, n)]
  /\ ends' = [ends EXCEPT ![p] = @ \ {c.end : c \in {d \in ToSet(chans[p]) : d.pid = n}}]

\* The child of a fork goes on with the channels of its parent.
ForkChannels(p, q) ==
  /\ chans' = [chans EXCEPT ![q] = chans[p]]
  /\ ends' = [ends EXCEPT ![q] = ends[p]]
  /\ mail' = mail

(* Shared pages: the length of the value, then its bytes.  For each page,  *)
(* last is the value written last, and mixed tells that writes overlapped  *)
(* or that a writer died half-way.                                         *)

NewPage(p) ==
  /\ Begin(p, "new-page")
  /\ page' = Append(page, [len |-> 0, bytes |-> <<>>,
                           last |-> <<>>, mixed |-> FALSE])
  /\ pages' = [pages EXCEPT ![p] = @ \cup {Len(page) + 1}]
  /\ UNCHANGED <<kernelVars, call, line, buf, hist,
                 pid, made, chans, ends, mail, inbox>>

InWrite(k) == {q \in Running : call[q].op = "page-write" /\ call[q].k = k}

BeginPageWrite(p, k, text) ==
  /\ Begin(p, "share") /\ k \in pages[p]
  /\ page' = [page EXCEPT ![k].len = Len(text), ![k].mixed = InWrite(k) # {}]
  /\ call' = [q \in Procs |->
       IF q = p THEN [op |-> "page-write", k |-> k, text |-> text]
       ELSE IF call[q].op = "page-read" THEN [call[q] EXCEPT !.quiet = FALSE]
       ELSE call[q]]
  /\ UNCHANGED <<kernelVars, line, buf, hist,
                 pid, made, chans, ends, mail, inbox, pages>>

PageWriteEnd(p) ==
  LET c == call[p] IN
  /\ c.op = "page-write"
  /\ page' = [page EXCEPT
       ![c.k].bytes = c.text \o SubSeq(@, Len(c.text) + 1, Len(@)),
       ![c.k].last = c.text]
  /\ Becomes(p, Idle)
  /\ UNCHANGED <<kernelVars, line, buf, hist, left,
                 pid, made, chans, ends, mail, inbox, pages>>

\* A length of 0 is nil.
BeginPageRead(p, k) ==
  /\ Begin(p, "share") /\ k \in pages[p]
  /\ page[k].len # 0
  /\ Becomes(p, [op |-> "page-read", k |-> k, n |-> page[k].len,
                 quiet |-> InWrite(k) = {}])
  /\ UNCHANGED <<kernelVars, line, buf, hist, mailVars>>

\* A read that takes all bytes of the page for the value.
PageTextWhole(c) == page[c.k].bytes

\* The value of the call: the first n bytes of the page, read as a form.
PageText(c) == SubSeq(page[c.k].bytes, 1, c.n)

PageReadEnd(p) ==
  /\ call[p].op = "page-read"
  /\ Becomes(p, Idle)
  /\ UNCHANGED <<kernelVars, line, buf, hist, left, mailVars>>
=============================================================================
