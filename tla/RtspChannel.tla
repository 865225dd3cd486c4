----------------------------- MODULE RtspChannel -----------------------------
(***************************************************************************)
(* One RTSP connection from its bytes up: the read loop of client_task and *)
(* its buffer (rtsp/rtsp_server.c), the encrypted blocks of                *)
(* rtsp/rtsp_crypto.c, the pairing requests that turn encryption on        *)
(* (handle_post of rtsp/rtsp_handlers.c, hap/hap_pair_setup.c,             *)
(* hap_pair_verify.c, srp.c), and a client on the other end.  Keys are     *)
(* terms; a request and a block have a size in units of some bytes.        *)
(***************************************************************************)
EXTENDS Integers, Sequences, SequencesExt, FiniteSetsExt

CONSTANTS
  Scripts,            \* what a client may have to say: sequences of requests
  RTSP_BUFFER_INITIAL, RTSP_BUFFER_LARGE, RTSP_ENCRYPTED_BLOCK_MAX,
  MaxTimeouts         \* bound: receive timeouts

ASSUME BufferAssumption ==
  /\ RTSP_ENCRYPTED_BLOCK_MAX \in Nat \ {0} /\ MaxTimeouts \in Nat
  /\ RTSP_BUFFER_INITIAL \in Nat /\ RTSP_BUFFER_INITIAL > RTSP_ENCRYPTED_BLOCK_MAX
  /\ RTSP_BUFFER_LARGE \in Nat /\ RTSP_BUFFER_LARGE >= RTSP_BUFFER_INITIAL

(* A request: its size and its answer's, whether its proof is right, and   *)
(* the transient password it pairs with.                                   *)
Pairing == {"setup1", "setup3", "setup5", "verify1", "verify3", "raw1", "raw3"}
Requests == [do : Pairing \union {"other"}, size : Nat \ {0}, answer : Nat \ {0},
             good : BOOLEAN, transient : BOOLEAN]

(* What a client of either protocol sends: it proves what it has begun, has *)
(* nothing to pair once the channel is encrypted, and hears nothing of a    *)
(* request too large for the buffer.                                        *)
Encrypts(s, r) == s[r].do = "verify3" \/ (s[r].do = "setup3" /\ s[r].good /\ s[r].transient)
Orderly(s) ==
  /\ s \in Seq(Requests)
  /\ \A r \in DOMAIN s :
       /\ s[r].do = "verify3" => r > 1 /\ s[r - 1].do = "verify1"
       /\ s[r].do = "setup3" =>
            r > 1 /\ s[r - 1].do = "setup1" /\ s[r - 1].transient = s[r].transient
       /\ Encrypts(s, r) => \A q \in (r + 1) .. Len(s) : s[q].do = "other"
       /\ s[r].size > RTSP_BUFFER_LARGE => r = Len(s)
ASSUME ScriptAssumption == \A s \in Scripts : Orderly(s)

VARIABLES
  script, sent,       \* the client's requests, and how many it has sent
  peer,               \* its end of the channel
  broken,             \* it met an answer it cannot read
  wire, back,         \* pieces under way to the receiver, answers to the client
  channel,            \* the receiver's end: encrypted_mode, tx, rx
  hap,                \* hap_session: pairing states and keys in the making
  reader,             \* pieces of the block being read
  errno,              \* of client_task: 0, EAGAIN or other
  buffer, capacity,   \* units of requests received, and room for them
  dispatched,         \* the requests dispatched
  open,               \* the connection
  timeouts

channelVars == << script, sent, peer, broken, wire, back, channel, hap, reader, errno, buffer,
                  capacity, dispatched, open, timeouts >>

-----------------------------------------------------------------------------
(* Keys.  A counter is of the next block. *)
NoKey == << "none" >>
ReadKey(secret) == << "Control-Read-Encryption-Key", secret >>
WriteKey(secret) == << "Control-Write-Encryption-Key", secret >>
VerifyKey(secret) == << "Pair-Verify-Encrypt", secret >>
RawKey(secret) == << "Pair-Verify-AES", secret >>
Counter(key) == [key |-> key, nonce |-> 0]
Plain == [encrypted |-> FALSE, tx |-> Counter(NoKey), rx |-> Counter(NoKey)]

(* hap_session_create: a key pair for life, so that every pair-verify with *)
(* a client's key has the same secret.                                     *)
Curve == "curve"

ChannelInit ==
  /\ script \in Scripts /\ sent = 0 /\ peer = Plain /\ broken = FALSE
  /\ wire = << >> /\ back = << >> /\ channel = Plain
  /\ hap = [setup |-> 0, verify |-> 0, transient |-> FALSE, srp |-> 0, verified |-> FALSE,
            established |-> FALSE]
  /\ reader = << >> /\ errno = "0" /\ buffer = << >> /\ capacity = RTSP_BUFFER_INITIAL
  /\ dispatched = << >> /\ open = TRUE /\ timeouts = 0

-----------------------------------------------------------------------------
(* The client.  It waits for its answers while it pairs, and may send its  *)
(* other requests one after another.                                       *)
Units(r) == [i \in 1 .. script[r].size |-> [request |-> r, unit |-> i]]

(* A block arrives as its length, of two bytes, and its text. *)
Pieces(blocks) ==
  [i \in 1 .. 3 * Len(blocks) |-> [block |-> blocks[(i + 2) \div 3], piece |-> ((i - 1) % 3) + 1]]

(* The last block of a request is what is left of it. *)
Blocks(c, units) ==
  LET n == (Len(units) + RTSP_ENCRYPTED_BLOCK_MAX - 1) \div RTSP_ENCRYPTED_BLOCK_MAX
  IN  [b \in 1 .. n |->
        [key |-> c.key, nonce |-> c.nonce + b - 1,
         units |-> SubSeq(units, (b - 1) * RTSP_ENCRYPTED_BLOCK_MAX + 1,
                          Min({b * RTSP_ENCRYPTED_BLOCK_MAX, Len(units)}))]]

Answered(r) == r <= Len(dispatched) /\ \A i \in DOMAIN back : back[i].to # r

Send ==
  /\ open /\ ~broken /\ sent < Len(script)
  /\ sent > 0 /\ {script[sent].do, script[sent + 1].do} \cap Pairing # {} => Answered(sent)
  /\ sent' = sent + 1
  /\ LET blocks == Blocks(peer.tx, Units(sent + 1))
     IN  IF peer.encrypted
           THEN /\ wire' = wire \o Pieces(blocks)
                /\ peer' = [peer EXCEPT !.tx.nonce = @ + Len(blocks)]
           ELSE wire' = wire \o Units(sent + 1) /\ UNCHANGED peer
  /\ UNCHANGED << script, broken, back, channel, hap, reader, errno, buffer, capacity,
                  dispatched, open, timeouts >>

(* It reads an answer, frame by frame.  An M4, read in the clear, ends the *)
(* pairing, and it turns encryption on: by SRP's key after a transient     *)
(* pair-setup, by the curve's after a pair-verify.                         *)
Frames(c, n) == [i \in 1 .. n |-> [key |-> c.key, nonce |-> c.nonce + i - 1]]

Readable(answer) ==
  IF peer.encrypted THEN answer.frames = Frames(peer.rx, Len(answer.frames)) /\ answer.frames # << >>
  ELSE answer.frames = << >>

Turned(secret) ==
  [encrypted |-> TRUE, tx |-> Counter(WriteKey(secret)), rx |-> Counter(ReadKey(secret))]
IsM4(answer, m3) == answer.ok /\ script[answer.to].do = m3 /\ ~peer.encrypted

ReadAnswer ==
  /\ back # << >> /\ ~broken
  /\ back' = Tail(back)
  /\ broken' = ~Readable(Head(back))
  /\ peer' = IF broken' THEN peer
             ELSE IF IsM4(Head(back), "setup3") THEN Turned(Head(back).proof)
             ELSE IF IsM4(Head(back), "verify3") THEN Turned(Curve)
             ELSE IF peer.encrypted THEN [peer EXCEPT !.rx.nonce = @ + Len(Head(back).frames)]
             ELSE peer
  /\ UNCHANGED << script, sent, wire, channel, hap, reader, errno, buffer, capacity, dispatched,
                  open, timeouts >>

-----------------------------------------------------------------------------
(* rtsp_send_response, in rtsp_crypto_write_frame's frames if encrypted. *)
Respond(c, r, ok, proof) ==
  LET n == IF c.encrypted THEN script[r].answer ELSE 0
  IN  [answer |-> [to |-> r, ok |-> ok, proof |-> proof, frames |-> Frames(c.tx, n)],
       channel |-> [c EXCEPT !.tx.nonce = @ + n]]

(* hap_pair_setup_m1: a new SRP exchange, in place of the last. *)
PairSetupM1(h, r) ==
  [h EXCEPT !.setup = 2, !.transient = script[r].transient, !.srp = @ + 1, !.verified = FALSE]

(* srp_verify_client, which computes with the transient password whatever  *)
(* srp_start took.                                                         *)
Proves(h, r) == h.srp # 0 /\ script[r].good /\ h.transient

(* The control keys of a secret, with or without new counters. *)
Keyed(c, secret) ==
  [c EXCEPT !.tx = Counter(ReadKey(secret)), !.rx = Counter(WriteKey(secret))]

(* Mutant: encryption is on before the answer that announces it. *)
PairSetupEarly(c, h, r) ==
  LET on == script[r].do = "setup3" /\ Proves(h, r)
      keyed == IF on THEN [Keyed(c, h.srp) EXCEPT !.encrypted = TRUE] ELSE c
      h2 == IF script[r].do = "setup1" THEN PairSetupM1(h, r)
            ELSE IF on THEN [h EXCEPT !.setup = 4, !.verified = TRUE] ELSE h
      out == Respond(keyed, r, on \/ script[r].do = "setup1", h.srp)
  IN  [hap |-> h2, answer |-> out.answer, channel |-> out.channel]

(* The pairing branches of handle_post: the session after the request, and *)
(* the answer in the keys of that moment.                                  *)
PairSetup(c, h, r) ==
  LET do == script[r].do
      proved == do = "setup3" /\ Proves(h, r)
      keyed == IF proved /\ h.transient THEN Keyed(c, h.srp)
               ELSE IF do = "setup5" /\ h.verified
                 THEN [c EXCEPT !.tx.nonce = 0, !.rx.nonce = 0]
               ELSE c
      h2 == IF do = "setup1" THEN PairSetupM1(h, r)
            ELSE IF proved
              THEN [h EXCEPT !.setup = 4, !.verified = TRUE, !.established = @ \/ h.transient]
            ELSE h
      out == Respond(keyed, r, do = "setup1" \/ proved, h.srp)
      on == h2.setup = 4 /\ h2.established /\ proved
  IN  [hap |-> h2, answer |-> out.answer,
       channel |-> [out.channel EXCEPT !.encrypted = @ \/ on]]

(* pair-verify, in TLVs, turns encryption on before it answers M3; raw, it *)
(* makes keys but leaves the channel plain, and its M3 has an empty answer,*)
(* which goes out as an error.                                             *)
PairVerify(c, h, r) ==
  LET do == script[r].do
      m1 == do = "verify1" \/ (do = "raw1" /\ h.verify = 0)
      m3 == do = "verify3" /\ c.tx.key = VerifyKey(Curve)
      raw3 == do = "raw3" /\ h.verify = 2
      keyed ==
        CASE do = "verify1" -> [c EXCEPT !.tx.key = VerifyKey(Curve)]
          [] m3 -> [c EXCEPT !.encrypted = TRUE, !.tx.key = ReadKey(Curve), !.rx.key = WriteKey(Curve)]
          [] do = "raw1" /\ m1 -> [c EXCEPT !.tx.key = RawKey(Curve), !.rx.key = RawKey(Curve)]
          [] raw3 -> [c EXCEPT !.tx = Counter(WriteKey(Curve)), !.rx = Counter(ReadKey(Curve))]
          [] OTHER -> c
      out == Respond(keyed, r, m1 \/ m3, 0)
  IN  [hap |-> [h EXCEPT !.verify = IF m1 THEN 2 ELSE IF m3 \/ raw3 THEN 4 ELSE @,
                         !.established = @ \/ m3 \/ raw3],
       answer |-> out.answer, channel |-> out.channel]

Other(c, h, r) ==
  LET out == Respond(c, r, TRUE, 0)
  IN  [hap |-> h, answer |-> out.answer, channel |-> out.channel]

(* rtsp_dispatch. *)
Handle(c, h, r) ==
  CASE script[r].do \in {"setup1", "setup3", "setup5"} -> PairSetup(c, h, r)
    [] script[r].do \in {"verify1", "verify3", "raw1", "raw3"} -> PairVerify(c, h, r)
    [] OTHER -> Other(c, h, r)

-----------------------------------------------------------------------------
(* process_rtsp_buffer: the requests that are there in full, in turn. *)
Header == buffer # << >> /\ Head(buffer).unit = 1
Whole == Header /\ Len(buffer) >= script[Head(buffer).request].size
TooLarge == Header /\ script[Head(buffer).request].size > RTSP_BUFFER_LARGE

Dispatch ==
  /\ open /\ Whole /\ ~TooLarge
  /\ LET r == Head(buffer).request
         done == Handle(channel, hap, r)
     IN  /\ channel' = done.channel /\ hap' = done.hap /\ back' = Append(back, done.answer)
         /\ dispatched' = Append(dispatched, r)
         /\ buffer' = SubSeq(buffer, script[r].size + 1, Len(buffer))
  /\ UNCHANGED << script, sent, peer, broken, wire, reader, errno, capacity, open, timeouts >>

(* A request that can never fit takes all that has arrived along. *)
Drop ==
  /\ open /\ TooLarge /\ buffer' = << >>
  /\ UNCHANGED << script, sent, peer, broken, wire, back, channel, hap, reader, errno, capacity,
                  dispatched, open, timeouts >>

(* client_task: the buffer has room for one block, or grows, once, or the  *)
(* connection ends.                                                        *)
Room == RTSP_ENCRYPTED_BLOCK_MAX
Reading == open /\ ~Whole /\ ~TooLarge
Full == Len(buffer) >= capacity - Room

Grow ==
  /\ Reading /\ reader = << >> /\ Full
  /\ IF capacity < RTSP_BUFFER_LARGE
       THEN capacity' = RTSP_BUFFER_LARGE /\ UNCHANGED open
       ELSE open' = FALSE /\ UNCHANGED capacity
  /\ UNCHANGED << script, sent, peer, broken, wire, back, channel, hap, reader, errno, buffer,
                  dispatched, timeouts >>

(* What a recv returns in plain mode: some of what has arrived. *)
Receive ==
  /\ Reading /\ ~channel.encrypted /\ ~Full
  /\ \E n \in 1 .. Min({Len(wire), capacity - Len(buffer)}) :
       /\ \A i \in 1 .. n : "unit" \in DOMAIN wire[i]
       /\ buffer' = buffer \o SubSeq(wire, 1, n)
       /\ wire' = SubSeq(wire, n + 1, Len(wire))
  /\ UNCHANGED << script, sent, peer, broken, back, channel, hap, reader, errno, capacity,
                  dispatched, open, timeouts >>

(* rtsp_crypto_read_block, a recv at a time. *)
IsPiece(i) == "piece" \in DOMAIN reader[i] /\ reader[i].piece = i /\ reader[i].block = reader[1].block
BlockLength ==
  IF \A i \in 1 .. 2 : IsPiece(i) THEN Len(reader[1].block.units) ELSE RTSP_ENCRYPTED_BLOCK_MAX + 1
BadLength ==
  Len(reader) >= 2 /\ (BlockLength > RTSP_ENCRYPTED_BLOCK_MAX \/ BlockLength > capacity - Len(buffer))

ReadPiece ==
  /\ Reading /\ channel.encrypted /\ (reader # << >> \/ ~Full)
  /\ Len(reader) < 3 /\ ~BadLength /\ wire # << >>
  /\ reader' = Append(reader, Head(wire)) /\ wire' = Tail(wire)
  /\ UNCHANGED << script, sent, peer, broken, back, channel, hap, errno, buffer, capacity,
                  dispatched, open, timeouts >>

(* A block that cannot be read ends the connection, unless errno still is  *)
(* that of a timeout before it.                                            *)
EndOfBlock ==
  /\ Reading /\ (Len(reader) = 3 \/ BadLength)
  /\ reader' = << >>
  /\ IF ~BadLength /\ IsPiece(3) /\ reader[1].block.key = channel.rx.key
        /\ reader[1].block.nonce = channel.rx.nonce
       THEN /\ buffer' = buffer \o reader[1].block.units
            /\ channel' = [channel EXCEPT !.rx.nonce = @ + 1]
            /\ UNCHANGED open
       ELSE open' = (errno = "EAGAIN") /\ UNCHANGED << buffer, channel >>
  /\ UNCHANGED << script, sent, peer, broken, wire, back, hap, errno, capacity, dispatched,
                  timeouts >>

(* Mutant: the block is given up. *)
TimeoutReturns ==
  /\ Reading /\ timeouts < MaxTimeouts /\ timeouts' = timeouts + 1
  /\ errno' = "EAGAIN" /\ reader' = << >>
  /\ UNCHANGED << script, sent, peer, broken, wire, back, channel, hap, buffer, capacity,
                  dispatched, open >>

(* SO_RCVTIMEO: nothing came for a second; the recv is called again. *)
Timeout ==
  /\ Reading /\ timeouts < MaxTimeouts /\ timeouts' = timeouts + 1
  /\ errno' = "EAGAIN"
  /\ UNCHANGED << script, sent, peer, broken, wire, back, channel, hap, reader, buffer, capacity,
                  dispatched, open >>

Receiver == Dispatch \/ Drop \/ Grow \/ Receive \/ ReadPiece \/ EndOfBlock
ChannelNext == Send \/ ReadAnswer \/ Receiver \/ Timeout

-----------------------------------------------------------------------------
ChannelTypeOK ==
  /\ sent \in 0 .. Len(script) /\ Len(reader) <= 3 /\ errno \in {"0", "EAGAIN"}
  /\ Len(buffer) <= capacity /\ capacity \in {RTSP_BUFFER_INITIAL, RTSP_BUFFER_LARGE}
  /\ hap.setup \in {0, 2, 4} /\ hap.verify \in {0, 2, 4}
  /\ broken \in BOOLEAN /\ open \in BOOLEAN

(* What the client sends is dispatched whole, once and in its order, in    *)
(* the clear and encrypted, however the bytes arrive and wherever a        *)
(* timeout falls.                                                          *)
InOrder == \A i \in DOMAIN dispatched : dispatched[i] = i

(* The client can read every answer but one: both ends change to           *)
(* encryption, and to a key, at the same message, and count the blocks     *)
(* alike, unless the client pairs by pair-verify in TLVs, whose M4 goes    *)
(* out encrypted to a client that still reads in the clear.                *)
AnswersReadable == broken => script[sent].do = "verify3"

(* "TLV8 pair-verify M3 establishes RTSP channel encryption": a client that *)
(* pairs so goes on in it.  It does not: see AnswersReadable.              *)
AllReadable == ~broken

(* Every request that fits the buffer is answered, and the connection of a *)
(* client that sends no larger one stays open.  It says all it has to say, *)
(* unless it has met an answer it cannot read.                             *)
Fits == \A r \in DOMAIN script : script[r].size <= RTSP_BUFFER_LARGE - Room
AllAnswered ==
  []<>(Fits => /\ open /\ (broken \/ sent = Len(script))
               /\ \A r \in 1 .. sent : Answered(r))
=============================================================================
