------------------------------ MODULE Marshall ------------------------------
(***************************************************************************)
(* The bytes of one call: the marshall and unmarshall objects (marshall.h, *)
(* rpc.cc), the stubs rpcc::call and rpcs::reg that use them (rpc.h), and  *)
(* the length field the connection fills in.                               *)
(*                                                                         *)
(* A byte is a number below Radix (256 in the program) and an int is four  *)
(* of them, the highest first.  Bytes of a buffer that nobody has written  *)
(* are Junk.  bool, char and unsigned char are one byte, short two, long   *)
(* long two ints.  A vector is its length followed by its elements; a map  *)
(* likewise, with two values for an element.                               *)
(***************************************************************************)
EXTENDS Integers, Sequences, SequencesExt

CONSTANTS Radix,          \* values of a byte
          DEFAULT_RPC_SZ, \* first size of a marshall buffer
          Values,         \* arguments and results: records [t, v]
          MaxArgs,        \* bound on the arguments of a call
          MaxBytes,       \* bound on the bytes of a value
          Headers,        \* request headers
          Rets            \* what handlers and dispatch return, as bit patterns

RPC_SZ == 4               \* sizeof(rpc_sz_t), the length field
RPC_HEADER_SZ == 24       \* the length field and the five ints of req_header
Junk == -1

Word == Radix * Radix * Radix * Radix   \* values of an int
Byte == 0 .. Radix - 1
UInt == 0 .. Word - 1

Size(a) ==
  CASE a.t = "byte" -> 1 [] a.t = "short" -> 2 [] a.t = "int" -> 4 [] a.t = "long" -> 8
    [] a.t = "string" -> 4 + Len(a.v) [] a.t = "vector" -> 4 + 4 * Len(a.v)

ASSUME RadixAssumption == Radix \in Nat /\ Radix > 1
ASSUME BufferAssumption == DEFAULT_RPC_SZ \in Nat /\ DEFAULT_RPC_SZ >= RPC_HEADER_SZ
ASSUME ValuesAssumption ==
  \A a \in Values :
    /\ a = [t |-> a.t, v |-> a.v]
    /\ \/ a.t = "byte" /\ a.v \in Byte
       \/ a.t = "short" /\ a.v \in 0 .. Radix * Radix - 1
       \/ a.t = "int" /\ a.v \in UInt
       \/ a.t = "long" /\ a.v \in UInt \X UInt
       \/ a.t = "string" /\ a.v \in Seq(Byte)
       \/ a.t = "vector" /\ a.v \in Seq(UInt)
ASSUME HeadersAssumption ==
  /\ Headers \subseteq [xid : UInt, proc : UInt, clt_nonce : UInt, srv_nonce : UInt,
                        xid_rep : UInt]
  /\ Rets \subseteq UInt
\* A message is counted in an int; readpdu refuses one far shorter, of MAX_PDU.
ASSUME SizeAssumption ==
  /\ MaxArgs \in Nat /\ MaxBytes \in Nat /\ \A a \in Values : Size(a) <= MaxBytes
  /\ RPC_HEADER_SZ + (MaxArgs + 1) * MaxBytes < Word

VARIABLES
  at,        \* where the call is
  m,         \* the marshall object in use: the request's, then the reply's
  args, sig, \* the arguments, and the types the handler was registered with
  res,       \* what the handler stored in R
  todo,      \* values still to be marshalled
  hdr,       \* the header packed: req_header, then reply_header
  u,         \* the unmarshall object in use
  want, got, \* types still to be read, values read
  hdr_in     \* the header unpacked

callVars == <<at, m, args, sig, res, todo, hdr, u, want, got, hdr_in>>

-----------------------------------------------------------------------------
(* marshall.                                                               *)

NewMarshall == [buf |-> [i \in 1 .. DEFAULT_RPC_SZ |-> Junk],
                capa |-> DEFAULT_RPC_SZ, ind |-> RPC_HEADER_SZ]

realloc(x, c) ==
  [buf |-> [i \in 1 .. c |-> IF i <= x.capa THEN x.buf[i] ELSE Junk],
   capa |-> c, ind |-> x.ind]

\* s is copied to the write position.
Put(x, s) ==
  [buf |-> [i \in 1 .. x.capa |-> IF x.ind < i /\ i <= x.ind + Len(s)
                                  THEN s[i - x.ind] ELSE x.buf[i]],
   capa |-> x.capa, ind |-> x.ind + Len(s)]

\* Mutant: the buffer grows one byte late.
rawbyte_Late(x, b) ==
  Put(IF x.ind > x.capa THEN realloc(x, 2 * x.capa) ELSE x, <<b>>)

rawbyte(x, b) ==
  Put(IF x.ind >= x.capa THEN realloc(x, 2 * x.capa) ELSE x, <<b>>)

\* The capacity rawbytes grows to.
Grown(x, n) == IF x.capa > n THEN 2 * x.capa ELSE x.capa + n

rawbytes(x, s) ==
  Put(IF x.ind + Len(s) > x.capa THEN realloc(x, Grown(x, Len(s))) ELSE x, s)

\* i >> 8, and i & 0xff.
Shifted(i) == i \div Radix
Mask(i) == i % Radix

\* The bytes of an int, the highest first.
Bytes(i) ==
  <<Mask(Shifted(Shifted(Shifted(i)))), Mask(Shifted(Shifted(i))), Mask(Shifted(i)), Mask(i)>>

\* pack, and operator<< of an int.
pack(x, i) ==
  rawbyte(rawbyte(rawbyte(rawbyte(x, Bytes(i)[1]), Bytes(i)[2]), Bytes(i)[3]), Bytes(i)[4])

pack_short(x, i) == rawbyte(rawbyte(x, Mask(Shifted(i))), Mask(i))

\* operator<< of a value; of a vector, the size.
shl(x, a) ==
  CASE a.t = "byte" -> rawbyte(x, a.v)
    [] a.t = "short" -> pack_short(x, a.v)
    [] a.t = "int" -> pack(x, a.v)
    [] a.t = "long" -> pack(pack(x, a.v[1]), a.v[2])
    [] a.t = "string" -> rawbytes(pack(x, Len(a.v)), a.v)
    [] a.t = "vector" -> pack(x, Len(a.v))

\* The header is packed last, in front of what was marshalled.
pack_req_header(x, h) ==
  LET y == pack(pack(pack(pack(pack([x EXCEPT !.ind = RPC_SZ],
               h.xid), h.proc), h.clt_nonce), h.srv_nonce), h.xid_rep)
  IN  [y EXCEPT !.ind = x.ind]

pack_reply_header(x, h) ==
  LET y == pack(pack([x EXCEPT !.ind = RPC_SZ], h.xid), h.ret)
  IN  [y EXCEPT !.ind = x.ind]

\* What is sent: writepdu puts the length into the first bytes.
Pdu(x) == [i \in 1 .. x.ind |-> IF i <= RPC_SZ THEN Bytes(x.ind)[i] ELSE x.buf[i]]

-----------------------------------------------------------------------------
(* unmarshall.                                                             *)

NewUnmarshall(b) == [buf |-> b, ind |-> 0, ok |-> TRUE]
None == [buf |-> <<>>, ind |-> 0, ok |-> FALSE]

\* rawbyte returns a char as an unsigned int, which extends its sign.
SignExtended(c) == IF c < Radix \div 2 THEN c ELSE c + Word - Radix

get_rawbyte(x) ==
  IF x.ind >= Len(x.buf) THEN [u |-> [x EXCEPT !.ok = FALSE], c |-> 0]
  ELSE [u |-> [x EXCEPT !.ind = @ + 1], c |-> SignExtended(x.buf[x.ind + 1])]

get_byte(x) == LET a == get_rawbyte(x) IN [u |-> a.u, v |-> Mask(a.c)]

get_short(x) ==
  LET a == get_rawbyte(x)
      b == get_rawbyte(a.u)
  IN  [u |-> b.u, v |-> Mask(a.c) * Radix + Mask(b.c)]

\* unpack, and operator>> of an int.
unpack(x) ==
  LET a == get_short(x)
      b == get_short(a.u)
  IN  [u |-> b.u, v |-> a.v * Radix * Radix + b.v]

\* rawbytes, whose sum is one of unsigned ints.
get_rawbytes(x, n) ==
  IF (x.ind + n) % Word > Len(x.buf) THEN [u |-> [x EXCEPT !.ok = FALSE], v |-> <<>>]
  ELSE [u |-> [x EXCEPT !.ind = (@ + n) % Word],
        v |-> [i \in 1 .. n |-> IF x.ind + i <= Len(x.buf) THEN x.buf[x.ind + i] ELSE Junk]]

get_string(x) ==
  LET n == unpack(x)
  IN  IF n.u.ok THEN get_rawbytes(n.u, n.v) ELSE [u |-> n.u, v |-> <<>>]

get_long(x) ==
  LET h == unpack(x)
      l == unpack(h.u)
  IN  [u |-> l.u, v |-> <<h.v, l.v>>]

\* operator>> into a variable of type t; of a vector, its length.
shr(x, t) ==
  CASE t = "byte" -> get_byte(x) [] t = "short" -> get_short(x)
    [] t = "long" -> get_long(x) [] t = "string" -> get_string(x)
    [] OTHER -> unpack(x)

unpack_req_header(x) ==
  LET a == unpack([x EXCEPT !.ind = RPC_SZ])
      b == unpack(a.u)
      c == unpack(b.u)
      d == unpack(c.u)
      e == unpack(d.u)
  IN  [u |-> [e.u EXCEPT !.ind = RPC_HEADER_SZ],
       h |-> [xid |-> a.v, proc |-> b.v, clt_nonce |-> c.v, srv_nonce |-> d.v,
              xid_rep |-> e.v]]

unpack_reply_header(x) ==
  LET a == unpack([x EXCEPT !.ind = RPC_SZ])
      b == unpack(a.u)
  IN  [u |-> [b.u EXCEPT !.ind = RPC_HEADER_SZ], h |-> [xid |-> a.v, ret |-> b.v]]

\* Mutant: what is left over in the buffer does not matter.
okdone_Ok(x) == x.ok

okdone(x) == x.ok /\ x.ind = Len(x.buf)

\* take_in: the caller's object takes over the buffer.
take_in(x) == [buf |-> x.buf, ind |-> RPC_HEADER_SZ, ok |-> Len(x.buf) >= RPC_HEADER_SZ]

-----------------------------------------------------------------------------
(* One call.                                                               *)

Int32(i) == [t |-> "int", v |-> i]

\* What follows the size of a vector.
Elements(a) == IF a.t = "vector" THEN [i \in 1 .. Len(a.v) |-> Int32(a.v[i])] ELSE <<>>

Types == {a.t : a \in Values}
TypesOf(s) == [i \in 1 .. Len(s) |-> s[i].t]
Negative(i) == i >= Word \div 2

\* rpcc::call, with an argument list of any length up to MaxArgs.
MInit ==
  /\ at = "args" /\ m = NewMarshall
  /\ args \in SeqOf(Values, MaxArgs) /\ todo = args
  /\ sig = <<>> /\ res = <<>> /\ hdr = <<>> /\ hdr_in = <<>>
  /\ u = None /\ want = <<>> /\ got = <<>>

\* m << a of a stub, ret << r of a handler.
marshall_value ==
  /\ at \in {"args", "result"} /\ todo # <<>>
  /\ m' = shl(m, Head(todo)) /\ todo' = Elements(Head(todo)) \o Tail(todo)
  /\ UNCHANGED <<at, args, sig, res, hdr, u, want, got, hdr_in>>

\* call1 packs the header and sends the buffer.
call1_packs(h) ==
  /\ at = "args" /\ todo = <<>> /\ at' = "request"
  /\ hdr' = h /\ m' = pack_req_header(m, h) /\ u' = NewUnmarshall(Pdu(m'))
  /\ UNCHANGED <<args, sig, res, todo, want, got, hdr_in>>

\* dispatch unpacks the header, and calls the handler.
dispatch_calls(s) ==
  LET r == unpack_req_header(u)
  IN  /\ at = "request" /\ at' = IF r.u.ok THEN "fn" ELSE "dropped"
      /\ u' = r.u /\ hdr_in' = r.h /\ m' = NewMarshall
      /\ sig' = s /\ want' = s
      /\ UNCHANGED <<args, res, todo, hdr, got>>

\* dispatch answers an old server instance or a forgotten xid by a header.
dispatch_refuses(ret) ==
  LET r == unpack_req_header(u)
  IN  /\ at = "request" /\ r.u.ok /\ Negative(ret) /\ at' = "reply"
      /\ hdr' = [xid |-> r.h.xid, ret |-> ret] /\ hdr_in' = r.h
      /\ m' = pack_reply_header(NewMarshall, hdr') /\ u' = NewUnmarshall(Pdu(m'))
      /\ UNCHANGED <<args, sig, res, todo, want, got>>

\* args >> a of a handler, u >> r of call_m: one value.  After the size of a
\* vector its elements are wanted.
unmarshall_value ==
  LET t == Head(want)
      r == shr(u, t)
  IN  /\ at \in {"fn", "call_m"} /\ want # <<>>
      /\ u' = r.u
      /\ got' = Append(got, [t |-> IF t = "vector" THEN "int" ELSE t, v |-> r.v])
      /\ want' = (IF t = "vector" THEN [i \in 1 .. r.v |-> "int"] ELSE <<>>) \o Tail(want)
      /\ UNCHANGED <<at, m, args, sig, res, todo, hdr, hdr_in>>

\* The handler's okdone; without it dispatch fails a VERIFY.
fn_checks ==
  /\ at = "fn" /\ want = <<>> /\ at' = IF okdone(u) THEN "meth" ELSE "aborted"
  /\ UNCHANGED <<m, args, sig, res, todo, hdr, u, want, got, hdr_in>>

\* The method returns ret and a result, and ret << r begins.
fn_returns(r) ==
  /\ at = "meth" /\ at' = "result" /\ res' = <<r>> /\ todo' = <<r>>
  /\ UNCHANGED <<m, args, sig, hdr, u, want, got, hdr_in>>

\* dispatch packs the reply's header and sends it.
dispatch_replies(ret) ==
  /\ at = "result" /\ todo = <<>> /\ ~Negative(ret) /\ at' = "reply"
  /\ hdr' = [xid |-> hdr_in.xid, ret |-> ret]
  /\ m' = pack_reply_header(m, hdr') /\ u' = NewUnmarshall(Pdu(m'))
  /\ UNCHANGED <<args, sig, res, todo, want, got, hdr_in>>

\* rpcc::got_pdu, and call_m as far as the test of intret.
got_pdu_takes ==
  LET r == unpack_reply_header(u)
  IN  /\ at = "reply" /\ hdr_in' = r.h /\ got' = <<>>
      /\ u' = take_in(r.u)
      /\ at' = IF ~r.u.ok THEN "dropped" ELSE IF Negative(r.h.ret) THEN "failed" ELSE "call_m"
      /\ want' = IF res = <<>> THEN <<>> ELSE <<res[1].t>>
      /\ UNCHANGED <<m, args, sig, res, todo, hdr>>

call_m_returns ==
  /\ at = "call_m" /\ want = <<>> /\ at' = IF okdone(u) THEN "returned" ELSE "aborted"
  /\ UNCHANGED <<m, args, sig, res, todo, hdr, u, want, got, hdr_in>>

MNext ==
  \/ marshall_value \/ unmarshall_value
  \/ \E h \in Headers : call1_packs(h)
  \/ \E s \in SeqOf(Types, MaxArgs) : dispatch_calls(s)
  \/ \E ret \in Rets : dispatch_refuses(ret) \/ dispatch_replies(ret)
  \/ \E r \in Values : fn_returns(r)
  \/ fn_checks \/ got_pdu_takes \/ call_m_returns

MSpec == MInit /\ [][MNext]_callVars

-----------------------------------------------------------------------------
\* The write position of a marshall object never passes the end of its
\* buffer: rawbyte and rawbytes grow it enough, and packing the header after
\* the arguments does not.
Inside == m.ind <= m.capa /\ DOMAIN m.buf = 1 .. m.capa

\* A list of values with each vector replaced by its size and its elements.
Flatten(s) ==
  FlattenSeq([i \in 1 .. Len(s) |->
                IF s[i].t = "vector" THEN <<Int32(Len(s[i].v))>> \o Elements(s[i]) ELSE <<s[i]>>])

\* When the types agree the handler runs, with the arguments and the header
\* the caller packed, and the caller gets its result and what it returned,
\* although reply_header is shorter than the room kept for a header.  With an
\* argument missing or one too many the handler never runs.
CallArrives ==
  /\ at \notin {"args", "request", "reply"} => hdr_in = hdr \/ at = "result"
  /\ at = "meth" /\ sig = TypesOf(args) => got = Flatten(args)
  /\ at = "meth" => ~IsStrictPrefix(sig, TypesOf(args)) /\ ~IsStrictPrefix(TypesOf(args), sig)
  /\ at = "aborted" => sig # TypesOf(args) /\ res = <<>>
  /\ at # "dropped"
  /\ at = "returned" => got = Flatten(res)
=============================================================================
