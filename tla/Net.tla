--------------------------------- MODULE Net ---------------------------------
(***************************************************************************)
(* The buffered streams of util/neo_net.c: a client that connects and a    *)
(* server that listens and accepts, each running a program of writes and   *)
(* reads and closing at its end or at the first error.  The operating      *)
(* system moves any part of what it is asked to move, in order, and a wait *)
(* may time out.                                                           *)
(***************************************************************************)
EXTENDS Integers, Sequences, SequencesExt

CONSTANTS
  Programs,        \* pairs of programs: [client |-> ops, server |-> ops]
  BufSize,         \* NET_BUFSIZE
  WireSize,        \* what the system holds in one direction
  MaxDigits,       \* buf[32] of _ne_net_read_int
  MaxFaults        \* bound on system calls that fail, timeouts, and garbage

VARIABLES
  end,             \* what each endpoint does, with its NSOCK
  wire,            \* the characters on their way to each endpoint
  given            \* the programs, the faults so far and what they spoilt

vars == <<end, wire, given>>

Ends == {"client", "server"}
Peer(e) == IF e = "client" THEN "server" ELSE "client"
NoValue == <<"null">>
Digits == <<"0", "1", "2", "3", "4", "5", "6", "7", "8", "9">>
Least(m, n) == IF m < n THEN m ELSE n
Drop(s, n) == SubSeq(s, n + 1, Len(s))

(* ne_net_write_int, _binary (and _str), _line; and ne_net_write itself.    *)
(* An integer is its digits, and the strings are shorter than ten.          *)
Encoded(op) == CASE op.kind = "int" -> op.v \o <<",">>
                 [] op.kind = "str" -> <<Digits[Len(op.v) + 1], ":">> \o op.v \o <<",">>
                 [] op.kind = "null" -> <<"-", "1", ":", ",">>
                 [] op.kind = "line" -> op.v \o <<"\n">>
                 [] op.kind = "raw" -> op.v
-----------------------------------------------------------------------------
(* ne_net_listen and ne_net_accept; ne_net_connect.  Every call may fail,   *)
(* and the descriptor that was open is then closed.                         *)
SetupCalls == [server |-> <<"socket", "reuse", "keepalive", "nodelay", "bind", "listen", "accept", "alloc">>,
               client |-> <<"gethostbyname", "socket", "getfl", "setfl", "connect", "select", "getsockopt",
                            "optval", "getfl", "setfl", "alloc">>]
Calling(e, c) == end[e].pc = "setup" /\ SetupCalls[e][end[e].at] = c
Faulty == given.faults < MaxFaults /\ given' = [given EXCEPT !.faults = @ + 1]
Fetch(r) == [r EXCEPT !.pc = IF r.ops = <<>> THEN "close" ELSE Head(r.ops).do,
                      !.todo = IF r.ops # <<>> /\ Head(r.ops).do = "write" THEN Encoded(Head(r.ops)) ELSE <<>>,
                      !.acc = <<>>, !.at = 0]
Advance(e, n) == LET r == end[e]
                     c == SetupCalls[e][r.at]
                     next == [r EXCEPT !.at = @ + n, !.fd = c # "listen" /\ (@ \/ c \in {"socket", "accept"}),
                                       !.open = @ \/ c \in {"listen", "connect"}]
                 IN  end' = [end EXCEPT ![e] = IF next.at > Len(SetupCalls[e]) THEN Fetch(next) ELSE next]
Setup(e) ==
  /\ end[e].pc = "setup"
  /\ Calling(e, "connect") => end["server"].open
  /\ Calling(e, "accept") => end["client"].open
  /\ \/ Advance(e, 1)
     \/ Calling(e, "connect") /\ Advance(e, 4)
  /\ UNCHANGED <<wire, given>>
SetupFails(e) ==
  /\ end[e].pc = "setup"
  /\ \/ Faulty
     \/ Calling(e, "connect") /\ ~end["server"].open /\ UNCHANGED given
  /\ end' = [end EXCEPT ![e].pc = "down", ![e].fd = FALSE]
  /\ UNCHANGED wire
(* The server waits for a client that will not come: its user stops it.     *)
SetupAbandoned == /\ Calling("server", "accept")
                  /\ end["client"].pc = "down" /\ ~end["client"].open
                  /\ end' = [end EXCEPT !["server"].pc = "down"]
                  /\ UNCHANGED <<wire, given>>
-----------------------------------------------------------------------------
Done(e, r, item) == end' = [end EXCEPT ![e] = Fetch([r EXCEPT !.ops = Tail(@), !.got = @ \o item])]
(* An error: the program closes the stream, which flushes it again.         *)
Fail(e) == end' = [end EXCEPT ![e].ops = <<>>, ![e].pc = "close", ![e].at = 0]
Spoil(why) == given' = [given EXCEPT !.faults = @ + 1, !.spoilt = TRUE]

(* ne_net_write: what fits goes to the buffer, a full buffer is flushed.    *)
Write(e) ==
  LET r == end[e]
      n == Least(Len(r.todo), BufSize - Len(r.obuf))
      w == [r EXCEPT !.obuf = @ \o SubSeq(r.todo, 1, n), !.todo = Drop(@, n)]
  IN  /\ r.pc = "write"
      /\ IF w.todo = <<>> THEN Done(e, w, <<>>)
         ELSE end' = [end EXCEPT ![e] = [w EXCEPT !.pc = "flush", !.back = "write", !.at = 0]]
      /\ UNCHANGED <<wire, given>>

(* ne_net_flush: at is the local variable x.  The buffer is kept until all  *)
(* of it is written.                                                        *)
Flush(e) ==
  LET r == end[e] IN
  /\ r.pc = "flush"
  /\ IF r.at = Len(r.obuf)
     THEN /\ end' = [end EXCEPT ![e].obuf = <<>>, ![e].at = 0, ![e].pc = r.back]
          /\ UNCHANGED wire
     ELSE \E n \in 1 .. Least(Len(r.obuf) - r.at, WireSize - Len(wire[Peer(e)])) :
            /\ end[Peer(e)].pc # "down"
            /\ wire' = [wire EXCEPT ![Peer(e)] = @ \o SubSeq(r.obuf, r.at + 1, r.at + n)]
            /\ end' = [end EXCEPT ![e].at = @ + n]
  /\ UNCHANGED given
(* A timeout, or the peer is gone.  What was written stays in the buffer.   *)
FlushFails(e) ==
  LET r == end[e] IN
  /\ r.pc = "flush"
  /\ r.at < Len(r.obuf)
  /\ \/ end[Peer(e)].pc = "down" /\ UNCHANGED given
     \/ end[Peer(e)].pc # "down" /\ given.faults < MaxFaults
        /\ given' = [given EXCEPT !.faults = @ + 1, !.spoilt = @ \/ (r.at > 0 /\ r.back # "closed")]
  /\ IF r.back = "closed" THEN end' = [end EXCEPT ![e].pc = "closed"] ELSE Fail(e)
  /\ UNCHANGED wire

(* ne_net_close; an error of its flush does not keep the socket open.       *)
Close(e) == /\ end[e].pc = "close"
            /\ end' = [end EXCEPT ![e].pc = "flush", ![e].back = "closed", ![e].at = 0]
            /\ UNCHANGED <<wire, given>>
Closed(e) == /\ end[e].pc = "closed"
             /\ end' = [end EXCEPT ![e].pc = "down", ![e].fd = FALSE]
             /\ UNCHANGED <<wire, given>>
-----------------------------------------------------------------------------
(* Reading takes characters until the item is complete.  Ending(op) is the  *)
(* character that ends its number or line.                                  *)
Ending(op) == CASE op.kind = "int" -> "," [] op.kind = "line" -> "\n" [] OTHER -> ":"
(* strtol: nothing at all is 0.                                             *)
IsNumber(s) == LET d == IF s # <<>> /\ s[1] = "-" THEN Tail(s) ELSE s
               IN  ToSet(d) \subseteq ToSet(Digits) /\ (d = <<>> => s = <<>>)
Decimal(s) == FoldLeft(LAMBDA n, d : 10 * n + SelectInSeq(Digits, LAMBDA c : c = d) - 1, 0, s)
Until(s, c) == LET k == SelectInSeq(s, LAMBDA x : x = c) IN IF k = 0 THEN Len(s) + 1 ELSE k
Item(v) == <<[kind |-> "item", v |-> v]>>
EofItem == <<[kind |-> "eof", v |-> <<>>]>>

(* acc is what is read of the number, the line or the bytes; size the       *)
(* length of the bytes that are being read, or -1 before it is known.       *)
Number(e, r) ==
  IF ~IsNumber(r.acc) THEN Fail(e)
  ELSE IF Head(r.ops).kind = "int" THEN Done(e, r, Item(IF r.acc = <<>> THEN <<"0">> ELSE r.acc))
  ELSE IF "-" \in ToSet(r.acc) THEN Done(e, r, Item(NoValue))
  ELSE end' = [end EXCEPT ![e] = [r EXCEPT !.acc = <<>>, !.size = Decimal(r.acc)]]
TakeNumber(e) ==
  LET r == end[e]
      k == Until(r.ibuf, Ending(Head(r.ops)))
      n == Least(k - 1, MaxDigits - Len(r.acc))
      t == [r EXCEPT !.acc = @ \o SubSeq(r.ibuf, 1, n), !.ibuf = Drop(@, n)]
  IN  IF Len(t.acc) = MaxDigits THEN Fail(e)
      ELSE IF k <= Len(r.ibuf) THEN Number(e, [t EXCEPT !.ibuf = Tail(@)])
      ELSE end' = [end EXCEPT ![e] = t]
TakeLine(e) ==
  LET r == end[e]
      k == Until(r.ibuf, "\n")
      t == [r EXCEPT !.acc = @ \o SubSeq(r.ibuf, 1, k - 1), !.ibuf = Drop(@, k - 1)]
  IN  IF t.ibuf # <<>> THEN Done(e, t, Item(t.acc)) ELSE end' = [end EXCEPT ![e] = t]
(* The bytes of a string, and the comma after them.                         *)
TakeBytes(e, size, comma) ==
  LET r == end[e]
      n == Least(Len(r.ibuf), size + comma - Len(r.acc))
      t == [r EXCEPT !.acc = @ \o SubSeq(r.ibuf, 1, n), !.ibuf = Drop(@, n)]
      bytes == SubSeq(t.acc, 1, size)
  IN  IF Len(t.acc) < size + comma THEN end' = [end EXCEPT ![e] = t]
      ELSE IF comma = 1 /\ Last(t.acc) # "," THEN Fail(e)
      ELSE Done(e, [t EXCEPT !.size = -1], Item(bytes))
Take(e) ==
  LET r == end[e] IN
  /\ r.pc = "read"
  /\ r.ibuf # <<>>
  /\ CASE Head(r.ops).kind = "line" -> TakeLine(e)
       [] Head(r.ops).kind = "raw" -> TakeBytes(e, Head(r.ops).n, 0)
       [] r.size >= 0 -> TakeBytes(e, r.size, 1)
       [] OTHER -> TakeNumber(e)
  /\ UNCHANGED <<wire, given>>

(* ne_net_fill: the output is flushed before the wait for input.            *)
FillOnly(e) ==
  LET r == end[e] IN
  /\ r.pc = "read"
  /\ r.ibuf = <<>>
  /\ \E n \in 1 .. Least(Len(wire[e]), BufSize) :
       /\ end' = [end EXCEPT ![e].ibuf = SubSeq(wire[e], 1, n)]
       /\ wire' = [wire EXCEPT ![e] = Drop(@, n)]
  /\ UNCHANGED given
Fill(e) ==
  \/ /\ end[e].pc = "read" /\ end[e].ibuf = <<>> /\ end[e].obuf # <<>>
     /\ end' = [end EXCEPT ![e].pc = "flush", ![e].back = "read", ![e].at = 0]
     /\ UNCHANGED <<wire, given>>
  \/ end[e].obuf = <<>> /\ FillOnly(e)

Waits(e) == end[e].pc = "read" /\ end[e].ibuf = <<>> /\ end[e].obuf = <<>> /\ wire[e] = <<>>
(* No answer in time.                                                       *)
FillFails(e) == /\ Waits(e)
                /\ end[Peer(e)].pc # "down"
                /\ Faulty
                /\ Fail(e)
                /\ UNCHANGED wire
(* The end of the stream: the call returns without an error, with nothing   *)
(* in the integer or line it was to set; the bytes of a string, and its     *)
(* comma, are then whatever the memory held.                                *)
Eof(e) == /\ Waits(e)
          /\ end[Peer(e)].pc = "down"
          /\ \/ Done(e, [end[e] EXCEPT !.size = -1], EofItem)
             \/ Head(end[e].ops).kind = "str" /\ Fail(e)
          /\ UNCHANGED <<wire, given>>
(* _ne_net_read_int tests buf[x] before it is set when the buffer is empty: *)
(* if it happens to hold the end character, the number ends there.          *)
Stray(e) == /\ end[e].pc = "read" /\ end[e].ibuf = <<>> /\ end[e].size < 0
            /\ Head(end[e].ops).kind \in {"int", "str"}
            /\ given.faults < MaxFaults
            /\ Spoil("stray")
            /\ Number(e, end[e])
            /\ UNCHANGED wire
-----------------------------------------------------------------------------
Starting(ops) == [pc |-> "setup", at |-> 1, fd |-> FALSE, open |-> FALSE, ops |-> ops, todo |-> <<>>,
                  obuf |-> <<>>, ibuf |-> <<>>, acc |-> <<>>, size |-> -1, back |-> "read", got |-> <<>>]
Init == \E p \in Programs :
          /\ given = [programs |-> p, faults |-> 0, spoilt |-> FALSE]
          /\ end = [e \in Ends |-> Starting(p[e])]
          /\ wire = [e \in Ends |-> <<>>]
Step(e) == Setup(e) \/ Write(e) \/ Flush(e) \/ Close(e) \/ Closed(e) \/ Take(e) \/ Fill(e) \/ Eof(e)
Fault(e) == SetupFails(e) \/ FlushFails(e) \/ FillFails(e) \/ Stray(e)
Next == SetupAbandoned \/ \E e \in Ends : Step(e) \/ Fault(e)
Spec == Init /\ [][Next]_vars
-----------------------------------------------------------------------------
(* What the peer's program writes, as its reader should return it.          *)
Sent(e) == LET writes == SelectSeq(given.programs[Peer(e)], LAMBDA op : op.do = "write")
           IN  FlattenSeq([i \in DOMAIN writes |-> CASE writes[i].kind = "null" -> <<NoValue>>
                                                      [] writes[i].kind = "line" -> <<writes[i].v, <<"\n">>>>
                                                      [] OTHER -> <<writes[i].v>>])
Returned(e) == LET k == SelectInSeq(end[e].got, LAMBDA g : g.kind = "eof")
                   items == IF k = 0 THEN end[e].got ELSE SubSeq(end[e].got, 1, k - 1)
               IN  [i \in DOMAIN items |-> items[i].v]

(* What an endpoint reads is what the other wrote, in order and cut nowhere *)
(* in the middle, however the system splits it, and whoever times out or    *)
(* leaves first -- unless a flush failed after a part of its buffer was     *)
(* sent, or a number ended on a byte that was never read.                   *)
StreamExact == ~given.spoilt => \A e \in Ends : IsPrefix(Returned(e), Sent(e))

(* The endpoints never wait for each other's data with nothing under way:   *)
(* when both read, one of them has something to read or to send first       *)
(* (ne_net_fill).                                                           *)
NeverBothWait == ~given.spoilt /\ (\A e \in Ends : end[e].pc = "read") => ENABLED (\E e \in Ends : Take(e) \/ Fill(e))

(* A call that fails half way, and a stream that is closed, leave no        *)
(* descriptor open but the one that listens, which the caller has.          *)
NoDescriptorLost == \A e \in Ends : end[e].pc = "down" => ~end[e].fd
==============================================================================
