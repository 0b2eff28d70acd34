------------------------------ MODULE HostTransfers ------------------------------
(***************************************************************************)
(* What the compat layer carries between the guest's memory and the host:  *)
(* sockets with plain buffers and with scatter lists, addresses with       *)
(* lengths the guest gives and gets back, options, extended attributes,    *)
(* links and paths.  A handler reads the guest's memory, makes the host    *)
(* call on a buffer of its own, and writes what came back: a write that    *)
(* fails is answered EFAULT, after the host call was made.                 *)
(*                                                                         *)
(* Memory is a few cells, some not mapped; a cell holds a byte, a length   *)
(* or a number.  The host's stream holds 1, 2, ...: what a byte is tells   *)
(* its place.  A descriptor that is not open, a name that does not exist   *)
(* and other refusals of the host are one outcome, `Refused`.              *)
(***************************************************************************)
EXTENDS Integers, Sequences, FiniteSets, SequencesExt

CONSTANTS MaxCell,      \* the guest's cells are 1..MaxCell; 0 is NULL
          StreamLen,    \* bytes the host has for the guest
          MaxSent,      \* a bound of the model on bytes the guest sends
          Room,         \* size of sockaddr_storage and of a path, in cells
          MaxIov,       \* MAX_GUEST_IOV
          MaxSide,      \* MAX_GUEST_MSG_SIDE_BYTES
          Spans,        \* buffers the guest names, [at, len]
          NameSpans,        \* those of them for addresses and control data
          Iovecs,       \* scatter lists, sequences of spans
          Pointers,     \* addresses of lengths and numbers
          Lengths,      \* how long the names and values of the host are
          Holes         \* the sets of cells that may be unmapped

ASSUME TransferAssumption ==
  /\ {MaxCell, StreamLen, MaxSent, Room, MaxIov, MaxSide} \subseteq Nat
  /\ Spans \subseteq [at : 0..MaxCell, len : Nat] /\ NameSpans \subseteq Spans
  /\ Iovecs \subseteq Seq(Spans) /\ Pointers \subseteq 0..MaxCell
  /\ Lengths \subseteq 0..Room /\ Holes \subseteq SUBSET (1..MaxCell)

VARIABLES mem,      \* the guest's memory
          stream,   \* bytes on their way to the guest
          sent,     \* bytes the host got from the guest
          meant, got, lost,   \* histories: what the guest wanted to send, what it
                              \* found after calls that succeeded, whether a call
                              \* failed after it took bytes from the stream
          answer    \* of the last call: ret, the cells the guest gave for output,
                    \* the values it may now rely on
transfervars == <<mem, stream, sent, meant, got, lost, answer>>

Cells == 1..MaxCell
NoCell == -1          \* a cell that is not mapped
Host(n) == [i \in 1..n |-> 50 + i]      \* a name, an option or a path of the host

TransferInit ==
  /\ mem \in {[c \in Cells |-> IF c \in hole THEN NoCell ELSE 20 + c] : hole \in Holes}
  /\ stream = [i \in 1..StreamLen |-> i]
  /\ sent = <<>> /\ meant = <<>> /\ got = <<>> /\ lost = FALSE
  /\ answer = [ret |-> 0, given |-> {}, claims |-> {}]

-------------------------------------------------------------------------------
(***************************************************************************)
(* The guest's memory.                                                     *)
(***************************************************************************)
Least(a, b) == IF a < b THEN a ELSE b
CellsOf(s) == s.at .. (s.at + s.len - 1)
Mapped(at, n) == \A c \in at..(at + n - 1) : c \in Cells /\ mem[c] # NoCell
BytesAt(at, n) == [i \in 1..n |-> mem[at + i - 1]]
Piece(at, bytes) == [at |-> at, bytes |-> bytes]
Wrote(m, p) == [c \in Cells |->
  IF c \in p.at..(p.at + Len(p.bytes) - 1) THEN p.bytes[c - p.at + 1] ELSE m[c]]
Fits(p) == Mapped(p.at, Len(p.bytes))

\* Pieces one after the other up to the first that fails, as with `?`.
Written(m, pieces) ==
  LET step(r, p) == IF r.ok /\ Fits(p) THEN [mem |-> Wrote(r.mem, p), ok |-> TRUE]
                    ELSE [mem |-> r.mem, ok |-> FALSE]
      after[k \in 0..Len(pieces)] ==
        IF k = 0 THEN [mem |-> m, ok |-> TRUE] ELSE step(after[k - 1], pieces[k])
  IN after[Len(pieces)]
\* Each piece on its own, failures ignored, as with `let _ =`.
WrittenBlindly(m, pieces) ==
  LET step(r, p) == IF Fits(p) THEN Wrote(r, p) ELSE r
      after[k \in 0..Len(pieces)] == IF k = 0 THEN m ELSE step(after[k - 1], pieces[k])
  IN after[Len(pieces)]

\* read_guest_iovecs, read_guest_iovec_bytes
IovecsOk(iov) == Len(iov) <= MaxIov
Gatherable(iov) == \A i \in DOMAIN iov : Mapped(iov[i].at, iov[i].len)
Flat(iov) == FlattenSeq([i \in DOMAIN iov |-> [j \in 1..iov[i].len |-> iov[i].at + j - 1]])
Total(iov) == Len(Flat(iov))
OfIovecs(iov) == ToSet(Flat(iov))
Disjoint(iov) == Cardinality(OfIovecs(iov)) = Total(iov)

\* write_guest_iovec_bytes: each buffer gets its share of what was read, perhaps nothing.
\* Mutant: a buffer that is filled in part does not use up the rest.
Before(iov, i) == Total(SubSeq(iov, 1, i - 1))
ShareFromStart(iov, bytes, i) == SubSeq(bytes, 1, Least(iov[i].len, Len(bytes)))
Share(iov, bytes, i) ==
  SubSeq(bytes, Before(iov, i) + 1, Least(Before(iov, i) + iov[i].len, Len(bytes)))
Scattered(iov, bytes) == [i \in DOMAIN iov |-> Piece(iov[i].at, Share(iov, bytes, i))]

-------------------------------------------------------------------------------
(***************************************************************************)
(* Answers.                                                                *)
(***************************************************************************)
Claims(at, bytes) == {<<at + i - 1, bytes[i]>> : i \in DOMAIN bytes}
Refused == /\ answer' = [ret |-> -1, given |-> {}, claims |-> {}]
           /\ UNCHANGED <<mem, stream, sent, meant, got, lost>>
Unchanged(ret) == /\ answer' = [ret |-> ret, given |-> {}, claims |-> {}]
                  /\ UNCHANGED <<mem, stream, sent, meant, got, lost>>

\* A call that takes `used` bytes from the stream, writes pieces and tells ret; the
\* guest then finds at `cells` what it was sent.
Delivered(m, ret, pieces, used, cells, given, claims) ==
  LET r == Written(m, pieces)
  IN /\ mem' = r.mem
     /\ stream' = SubSeq(stream, used + 1, Len(stream))
     /\ answer' = [ret |-> IF r.ok THEN ret ELSE -1, given |-> given, claims |-> claims]
     /\ lost' = (lost \/ (~r.ok /\ used > 0))
     /\ got' = IF r.ok /\ used > 0 THEN got \o [i \in 1..ret |-> r.mem[cells[i]]] ELSE got
     /\ UNCHANGED <<sent, meant>>
\* The same for a value of the host that stays where it is.
Told(m, ret, pieces, given, claims) == Delivered(m, ret, pieces, 0, <<>>, given, claims)
\* A call that ignores what it could not write: only cells that are mapped are relied on.
ToldBlindly(m, ret, pieces, given) ==
  /\ mem' = WrittenBlindly(m, pieces)
  /\ answer' = [ret |-> ret, given |-> given,
                claims |-> UNION {Claims(p.at, p.bytes) : p \in {q \in ToSet(pieces) : Fits(q)}}]
  /\ UNCHANGED <<stream, sent, meant, got, lost>>

\* How many bytes the host's call hands out of n: none only at the end or for n = 0.
Counts(n) == {k \in 0..Least(n, Len(stream)) : k > 0 \/ n = 0 \/ stream = <<>>}
Sent(cells, bytes) ==
  \E k \in 0..Len(bytes) :
    /\ Len(sent) + k <= MaxSent
    /\ sent' = sent \o SubSeq(bytes, 1, k)
    /\ meant' = meant \o [i \in 1..k |-> mem[cells[i]]]
    /\ answer' = [ret |-> k, given |-> {}, claims |-> {}]
    /\ UNCHANGED <<mem, stream, got, lost>>

\* The guest puts a length where a call will look for it.
Prepared(at, n) == IF Mapped(at, 1) THEN [mem EXCEPT ![at] = n] ELSE mem
\* read_socklen, or the size of sockaddr_storage where it cannot be read.
Asked(at, n) == IF Mapped(at, 1) THEN Least(n, Room) ELSE Room

-------------------------------------------------------------------------------
(***************************************************************************)
(* Bytes from and to sockets and files.                                    *)
(***************************************************************************)
Recv(s, peek) ==
  \E k \in Counts(s.len) :
    LET bytes == SubSeq(stream, 1, k)
    IN Delivered(mem, k, IF k > 0 THEN <<Piece(s.at, bytes)>> ELSE <<>>, IF peek THEN 0 ELSE k,
                 Flat(<<s>>), CellsOf(s), Claims(s.at, bytes))

\* The address is written only with bytes before it: at the end of the stream the
\* length stays what the guest asked for.
Recvfrom(s, peek, name, lp) ==
  IF name.at = 0 \/ lp = 0 THEN Recv(s, peek)
  ELSE \E k \in Counts(s.len), actual \in Lengths :
    LET asked == Asked(lp, name.len)
        bytes == SubSeq(stream, 1, k)
        address == Host(Least(actual, asked))
    IN /\ Disjoint(<<s, [name EXCEPT !.len = asked], [at |-> lp, len |-> 1]>>)
       /\ Delivered(Prepared(lp, name.len), k,
            IF k = 0 THEN <<>> ELSE
              <<Piece(s.at, bytes)>> \o (IF address = <<>> THEN <<>> ELSE <<Piece(name.at, address)>>)
              \o <<Piece(lp, <<actual>>)>>,
            IF peek THEN 0 ELSE k, Flat(<<s>>),
            CellsOf(s) \cup CellsOf([name EXCEPT !.len = asked]) \cup {lp},
            Claims(s.at, bytes) \cup (IF k = 0 THEN {} ELSE Claims(name.at, address) \cup {<<lp, actual>>}))

Readv(iov) ==
  IF ~IovecsOk(iov) THEN Refused
  ELSE \E k \in Counts(Total(iov)) :
    LET bytes == SubSeq(stream, 1, k)
    IN Disjoint(iov) /\ Delivered(mem, k, Scattered(iov, bytes), k, Flat(iov), OfIovecs(iov), {})

\* The header at hp keeps the lengths of name and control data; both are written
\* also when no byte came.
Recvmsg(iov, peek, name, control, hp) ==
  LET header == [at |-> hp, len |-> 2] IN
  IF ~Mapped(hp, 2) \/ ~IovecsOk(iov) \/ name.len > MaxSide \/ control.len > MaxSide THEN Refused
  ELSE \E k \in Counts(Total(iov)), namelen, controllen \in Lengths :
    LET bytes == SubSeq(stream, 1, k)
        out(s, n) == IF s.at = 0 \/ s.len = 0 THEN <<>> ELSE <<Piece(s.at, Host(Least(n, s.len)))>>
    IN /\ Disjoint(iov \o <<name, control, header>>)
       /\ Delivered([mem EXCEPT ![hp] = name.len, ![hp + 1] = control.len], k,
            Scattered(iov, bytes) \o out(name, namelen) \o out(control, controllen)
              \o <<Piece(hp, <<namelen, controllen>>)>>,
            IF peek THEN 0 ELSE k, Flat(iov),
            OfIovecs(iov \o <<name, control, header>>),
            {<<hp, namelen>>, <<hp + 1, controllen>>})

Pread(s, offset) ==
  \E k \in 0..Least(s.len, Room - offset) :
    LET bytes == SubSeq(Host(Room), offset + 1, offset + k)
    IN Told(mem, k, IF k > 0 THEN <<Piece(s.at, bytes)>> ELSE <<>>, CellsOf(s), Claims(s.at, bytes))

Send(s) == IF ~Mapped(s.at, s.len) THEN Refused ELSE Sent(Flat(<<s>>), BytesAt(s.at, s.len))

\* read_sockaddr_storage: the address must be there, as for connect and bind.
Address(name) == name.at # 0 /\ name.len # 0 /\ Mapped(name.at, Least(name.len, Room))
Connect(name) == IF Address(name) THEN Unchanged(0) ELSE Refused
Sendto(s, name) ==
  IF name.at = 0 \/ name.len = 0 THEN Send(s)
  ELSE IF ~Mapped(s.at, s.len) \/ ~Address(name) THEN Refused
  ELSE Sent(Flat(<<s>>), BytesAt(s.at, s.len))

Writev(iov) ==
  IF ~IovecsOk(iov) \/ ~Gatherable(iov) THEN Refused
  ELSE Sent(Flat(iov), FlattenSeq([i \in DOMAIN iov |-> BytesAt(iov[i].at, iov[i].len)]))

\* read_guest_side_bytes: a name or control data may be absent, but not too long.
SideOk(s) == s.len <= MaxSide /\ (s.at = 0 \/ Mapped(s.at, s.len))
Sendmsg(iov, name, control, hp) ==
  IF ~Mapped(hp, 2) \/ ~SideOk(name) \/ ~SideOk(control) THEN Refused ELSE Writev(iov)

-------------------------------------------------------------------------------
(***************************************************************************)
(* Values of the host: addresses, options, attributes, paths, numbers.     *)
(***************************************************************************)
\* copy_sockaddr_to_guest, which ignores what it cannot write.
\* Mutant: the length the guest gave does not bound what is written.
AddressOutWhole(name, lp, asked, actual) ==
  IF name.at = 0 \/ asked = 0 THEN <<Piece(lp, <<actual>>)>>
  ELSE <<Piece(name.at, Host(actual)), Piece(lp, <<actual>>)>>
AddressOut(name, lp, asked, actual) ==
  IF name.at = 0 \/ asked = 0 THEN <<Piece(lp, <<actual>>)>>
  ELSE <<Piece(name.at, Host(Least(actual, asked))), Piece(lp, <<actual>>)>>

AddressTold(name, lp) ==
  LET asked == Asked(lp, name.len)
      buffer == [name EXCEPT !.len = asked]
  IN \E actual \in Lengths :
       /\ Disjoint(<<buffer, [at |-> lp, len |-> 1]>>)
       /\ ToldBlindly(Prepared(lp, name.len), 0, AddressOut(name, lp, asked, actual),
                      CellsOf(buffer) \cup {lp})
SocketName(name, lp) == IF name.at = 0 \/ lp = 0 THEN Refused ELSE AddressTold(name, lp)
Accept(name, lp) == IF name.at = 0 \/ lp = 0 THEN Unchanged(3) ELSE AddressTold(name, lp)

\* The numbers of a pair are written without a look at the result.
Socketpair(at) ==
  IF at = 0 THEN Refused
  ELSE ToldBlindly(mem, 0, <<Piece(at, <<3>>), Piece(at + 1, <<4>>)>>, {at, at + 1})

Setsockopt(s) == IF Mapped(s.at, s.len) THEN Unchanged(0) ELSE Refused
Getsockopt(s, lp) ==
  IF ~Mapped(lp, 1) \/ (s.at = 0 /\ s.len > 0) THEN Refused
  ELSE \E actual \in Lengths :
    LET value == Host(Least(actual, s.len))
    IN /\ Disjoint(<<s, [at |-> lp, len |-> 1]>>)
       /\ Told(Prepared(lp, s.len), 0,
               (IF value = <<>> THEN <<>> ELSE <<Piece(s.at, value)>>) \o <<Piece(lp, <<actual>>)>>,
               CellsOf(s) \cup {lp}, Claims(s.at, value) \cup {<<lp, actual>>})

\* getxattr and listxattr: a size of zero asks for the length, a short buffer is refused.
Getxattr(s) ==
  IF s.len > 0 /\ s.at = 0 THEN Refused
  ELSE \E length \in Lengths :
    IF s.len = 0 THEN Unchanged(length)
    ELSE IF s.len < length THEN Refused
    ELSE Told(mem, length, IF length = 0 THEN <<>> ELSE <<Piece(s.at, Host(length))>>,
              CellsOf(s), Claims(s.at, Host(length)))
Setxattr(s) == IF s.len = 0 \/ (s.at # 0 /\ Mapped(s.at, s.len)) THEN Unchanged(0) ELSE Refused

\* What does not fit is left out, without a word.
Readlink(s) ==
  \E length \in Lengths \ {0} :
    LET text == Host(Least(length, s.len))
    IN Told(mem, Len(text), IF text = <<>> THEN <<>> ELSE <<Piece(s.at, text)>>,
            CellsOf(s), Claims(s.at, text))

\* sysctl: the length is written before the value, and both also after a refusal.  A
\* value of the configured identity is written whole, whatever length the guest gave:
\* it is taken to have room for it.
Sysctl(s, lp, identity) ==
  IF s.at # 0 /\ ~Mapped(lp, 1) THEN Refused
  ELSE \E actual \in Lengths :
    LET short == s.at # 0 /\ ~identity /\ actual > s.len
        value == IF s.at = 0 THEN <<>> ELSE Host(IF short THEN s.len ELSE actual)
        length == IF short THEN s.len ELSE actual
        buffer == IF identity THEN [s EXCEPT !.len = actual] ELSE s
    IN /\ Disjoint(<<buffer, [at |-> lp, len |-> 1]>>)
       /\ Told(Prepared(lp, s.len), IF short THEN -1 ELSE 0,
               (IF lp = 0 THEN <<>> ELSE <<Piece(lp, <<length>>)>>)
                 \o (IF value = <<>> THEN <<>> ELSE <<Piece(s.at, value)>>),
               CellsOf(buffer) \cup {lp},
               Claims(s.at, value) \cup (IF lp = 0 THEN {} ELSE {<<lp, length>>}))

Terminated(n) == Append(Host(n), 0)
Getcwd(s) ==
  \E length \in Lengths \ {0} :
    IF (s.at # 0 /\ s.len = 0) \/ (s.len > 0 /\ length + 1 > s.len) THEN Refused
    ELSE IF s.at = 0 THEN Unchanged(1)          \* in a block of the guest's heap
    ELSE Told(mem, s.at, <<Piece(s.at, Terminated(length))>>, CellsOf(s), Claims(s.at, Terminated(length)))
\* The buffer has no size: the guest gives PATH_MAX bytes.
Realpath(at) ==
  \E length \in Lengths \ {0, Room} :
    IF at = 0 THEN Unchanged(1)
    ELSE Told(mem, at, <<Piece(at, Terminated(length))>>, at..(at + Room - 1), Claims(at, Terminated(length)))

\* inet_ntop and getnameinfo copy their whole buffer, not only the text.
Padded(n, size) == [i \in 1..size |-> IF i <= n THEN 50 + i ELSE 0]
InetNtop(s, from) ==
  IF ~Mapped(from.at, from.len) \/ s.len <= Room THEN Refused
  ELSE Told(mem, s.at, <<Piece(s.at, Padded(Room, s.len))>>, CellsOf(s), Claims(s.at, Terminated(Room)))
Getnameinfo(name, host, service) ==
  IF ~Address(name) THEN Refused
  ELSE /\ Disjoint(<<host, service>>)
       /\ ToldBlindly(mem, 0,
            <<Piece(host.at, Padded(host.len - 1, host.len)),
              Piece(service.at, Padded(service.len - 1, service.len))>>,
            OfIovecs(<<host, service>>))

\* FIONREAD tells how much the next recv would find.
Ioctl(at) ==
  IF at = 0 THEN Refused
  ELSE Told(mem, 0, <<Piece(at, <<Len(stream)>>)>>, {at}, {<<at, Len(stream)>>})
Fstat(at, size) ==
  IF at = 0 THEN Refused ELSE Told(mem, 0, <<Piece(at, <<size>>)>>, {at}, {<<at, size>>})

\* poll: the entries are read and written back whole; a failed write is ignored.
Poll(s) ==
  IF ~Mapped(s.at, s.len) THEN Refused
  ELSE \E ready \in 0..s.len :
    ToldBlindly(mem, ready, IF s.len = 0 THEN <<>> ELSE <<Piece(s.at, Padded(ready, s.len))>>, CellsOf(s))

(***************************************************************************)
(* getattrlist: the total length, then fixed values and references in the  *)
(* order of the attributes, then what the references name.  A reference    *)
(* is two cells: the distance from itself to the data, and its length.     *)
(***************************************************************************)
NameRef == 2
AttrBuffer(fixed, name) ==
  LET head == <<0, 2 + fixed, Len(name)>> \o [i \in 1..fixed |-> 90]
      whole == head \o name
  IN [whole EXCEPT ![1] = Len(whole)]
Getattrlist(s, fixed, name) ==
  LET buffer == AttrBuffer(fixed, name) IN
  IF s.at = 0 \/ Len(buffer) > s.len THEN Refused
  ELSE Told(mem, 0, <<Piece(s.at, buffer)>>, CellsOf(s),
            \* what a guest finds that follows the reference
            Claims(s.at + NameRef - 1 + buffer[NameRef], name) \cup {<<s.at, Len(buffer)>>})

StreamCalls ==
  \/ \E s \in Spans, peek \in BOOLEAN : Recv(s, peek)
  \/ \E s \in Spans, name \in NameSpans, lp \in Pointers, peek \in BOOLEAN : Recvfrom(s, peek, name, lp)
  \/ \E iov \in Iovecs : Readv(iov) \/ Writev(iov)
  \/ \E iov \in Iovecs, name, control \in NameSpans, hp \in Pointers, peek \in BOOLEAN :
       Recvmsg(iov, peek, name, control, hp)
  \/ \E iov \in Iovecs, name, control \in NameSpans, hp \in Pointers : Sendmsg(iov, name, control, hp)
  \/ \E s \in Spans : Send(s) \/ \E name \in NameSpans : Sendto(s, name)
  \/ \E at \in Pointers : Ioctl(at)
ValueCalls ==
  \/ \E s \in Spans : \/ Setsockopt(s) \/ Setxattr(s) \/ Connect(s)
                      \/ Getxattr(s) \/ Readlink(s) \/ Getcwd(s) \/ Poll(s)
                      \/ \E offset \in 0..1 : Pread(s, offset)
                      \/ \E fixed \in 0..1 : Getattrlist(s, fixed, <<7>>)
  \/ \E s, t \in Spans : InetNtop(s, t)
  \/ \E s, t, u \in Spans : Getnameinfo(s, t, u)
  \/ \E s \in Spans, lp \in Pointers : \/ Getsockopt(s, lp) \/ SocketName(s, lp) \/ Accept(s, lp)
                                       \/ \E identity \in BOOLEAN : Sysctl(s, lp, identity)
  \/ \E at \in Pointers : Realpath(at) \/ Socketpair(at) \/ Fstat(at, 9)
TransferNext == StreamCalls \/ ValueCalls
TransferSpec == TransferInit /\ [][TransferNext]_transfervars

-------------------------------------------------------------------------------
\* Bytes pass through in order: what the guest found after calls that succeeded are
\* the bytes of the stream from its start, none twice and none left out, until a
\* call fails on a buffer that is not mapped; and the host got what the guest had
\* in its buffers, whichever lists and partial results carried them.
ThroughInOrder ==
  /\ ~lost => got = [i \in 1..(StreamLen - Len(stream)) |-> i]
  /\ sent = meant

\* What a call that succeeded says of lengths, names and values is in memory.
AnswersHold == answer.ret >= 0 => \A claim \in answer.claims : mem[claim[1]] = claim[2]

\* No call, not even one that fails halfway, changes a cell outside of the buffers
\* and lengths the guest gave it.
WithinGiven == \A c \in Cells : mem'[c] # mem[c] => c \in answer'.given

TransfersHonest == [](ThroughInOrder /\ AnswersHold) /\ [][WithinGiven]_transfervars
===============================================================================
