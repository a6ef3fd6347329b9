# TLA+ models of mod_proxy's SSH MAC layer

This directory holds TLA+ specifications of `src/lib/proxy/ssh/mac.c`, the
layer that protects SSH packets with a message authentication code (MAC). It
also holds the TLC configurations that check them. Every definition that
models code is listed in `PROJECT.json` ("map") with the lines it translates.

## The system

`mac.c` keeps, for each direction (read and write), the following state:

- **two generation slots** `read_macs[2]` / `write_macs[2]`. Each holds an
  algorithm name, a type (HMAC, UMAC-64, UMAC-128), a digest, a truncation
  length, and a heap key buffer (`key`, `keysz`, `key_len`);
- **the primitive contexts behind the slots**:
  - `hmac_*_ctxs[2]`, allocated by `proxy_ssh_mac_init`;
  - `umac_*_ctxs[2]`, allocated by `set_*_algo`;
- **an active index** `read_mac_idx` / `write_mac_idx`;
- for the read side only, **`mac_blockszs[2]`**: the MAC length the packet
  layer frames with.

A key exchange drives it in two steps per direction:

1. **`set_*_algo`** prepares a slot. It uses the active slot if that slot has
   no key, otherwise the other slot, since a rekey is in progress.
2. **`set_*_key`**, called at NEWKEYS:
   - retires the active generation if it has a key. `switch_*_mac` runs
     `clear_mac`, resets the HMAC and UMAC contexts, zeroes the slot's block
     size and flips the index;
   - derives the new key with `set_mac_key` (RFC 4253 section 7.2);
   - keys the primitive with `init_mac`;
   - on the read side, records the block size.

Per packet, `read_data` and `write_data` call `get_mac`, which computes the
tag and, on read, compares it. A slot with no key means "no MAC":
`read_data` then accepts the packet without a check. The key exchange,
packet framing, crypto table and UMAC code are outside `src/`. They are
modelled from `spec.md`, and the map marks those definitions
`spec_modelled`.

## Modules

| Module | Models | State and actions |
|---|---|---|
| `MacCatalog` | digest table (`proxy_ssh_crypto_get_digest`), `EVP_MD_size`/`block_size`, RFC 4253 key letters, the tag a correct peer computes | constants only |
| `MacSlots` | one direction of `mac.c`, generic over `Dir` and `Role` | variables `macs`, `hmacCtx`, `umacCtx`, `blocksz`, `idx`, `macError`; operations `SetAlgo`, `SetKey` (`SwitchMac`, then `SetMacKey`, `InitResult`/`InitHmac`/`InitUmac` and `SetBlockSize`), `ReadData`, `WriteData`, `MacInitSlots`; the query `GetReadAlgo` |
| `MacKdf` | one call of `set_mac_key`, byte by byte | `Start`, `FirstRound`, `Extend`, `ExtendFail`, `Finish`; buffer bytes named by (hash number, offset) |
| `MacRekey` | the read direction driven by a peer, over a network that may drop, duplicate and reorder packets, with an optional attacker | `Negotiate`, `PeerSendData`, `PeerSendNewKeys`, `RecvBadMac`, `RecvData`, `RecvNewKeys`, `Tamper`, `Drop`, `Replay`, `Reorder`; history variable `forgedAccepted` |
| `MacGenerations` | what the read direction promises: one active generation, switched atomically at the peer's NEWKEYS | `Negotiate`, `Receive`, `Deliver`, `Fail` |
| `MacWriteGenerations` | what the write direction promises: our tags come from one generation, switched right after our NEWKEYS | `Negotiate`, `Send`, `Consume`, `Fail` |
| `MacCompare` | the read-side tag compare of `get_mac` (`memcmp`), with its running time | `Compare(r)` in two runs against one expected tag; `memcmp` as the RECURSIVE `BytesRead` |
| `MacSession` | both directions, `proxy_ssh_mac_init` and `proxy_ssh_mac_free`, against a peer that reads and writes | `MacInit`, `Negotiate` (with `SetWriteAlgo`), `PeerSend`, `PeerRecv`, `Recv`, `SendData`, `SendNewKeys` (with `SetWriteKey`), `MacFree` |

`MacSession` instantiates `MacSlots` twice (`R`, `W`). Both instances share
`blocksz`, because `mac_blockszs` is a single array that only the read side
touches.

**Data abstraction.**
- A key is named by (key-exchange generation, RFC letter). `NoKey` is the
  NULL pointer.
- A context holds the key it was keyed with.
- A tag is (primitive, key, length, seqno), so two tags are equal exactly
  when HMAC or UMAC would make them equal. The seqno is `pkt->seqno`: HMAC
  authenticates it (`mac.c:243`) and UMAC uses it as the nonce (`mac.c:282`).
  It is counted modulo `SeqWrap`, standing for the 32-bit wrap.
- In `MacKdf`, the hash is injective: derived bytes are named by which hash
  produced them and at which offset. This lets the model compare the buffer
  with the RFC stream exactly.
- Lengths are kept in bytes, because they decide buffer sizes and framing.

**Library-dependent behaviour is a nondeterministic choice.** `HMAC_Init_ex`
with a NULL key fails on OpenSSL 1.1 and later but succeeds on 1.0.x
(`initOk`). Each digest call in `set_mac_key` may fail (`kdfOk`,
`DigestCanFail`).

## Runs

| Run | Config | Expect | What it shows |
|---|---|---|---|
| rekey_read | `MC_MacRekey.cfg` | pass | Four rekeys among none, hmac-sha1, hmac-sha1-96 and umac-64, with up to 3 packets in flight. Every packet of a correct peer verifies (`NoSpuriousMismatch`), including packets still in flight under the old key while `set_read_algo` prepares the next slot. The slots refine `MacGenerations` (`GenerationsRefined`). |
| retired_umac_key | `MC_MacRekey_retired.cfg` | violation | After a rekey away from umac-64, the retired slot's UMAC context still holds the old key schedule (finding 8). |
| rekey_read_tamper | `MC_MacRekey_tamper.cfg` | pass | Once a MAC is in force, no packet is accepted that was altered, or that arrives out of its place in the peer's stream (dropped predecessor, replay, reordering) (`NoForgeryAccepted`). The refinement holds with the attacker and the faulty network. Role is server, so the other pair of RFC 4253 letters is used. |
| rekey_umac_null_key | `MC_MacRekey_umac.cfg` | violation | With digest failures, a rekey to umac-64 calls `umac_init` with a NULL key (finding 6). |
| kdf_error_forgery | `MC_MacRekey_kdferr.cfg` | violation | Same as above, but digests may fail: an altered packet is accepted (finding 1). |
| blocksz_monotonic | `MC_MacRekey_blocksz.cfg` | violation | The read block size falls at a rekey to a shorter tag (finding 2). |
| kdf | `MC_MacKdf.cfg` | pass | For every MAC in the table and kex hash sha1/sha256/sha512, with and without the MAC_LEN interop feature: no write past `key + key_sz` (`NoOverrun`); the buffer is the RFC 4253 stream (`DerivesRfcKey`); every error path scrubs derived bytes (`NoKeyResidue`); `key_len` stays within the buffer (`KeyLenWithinBuffer`); under weak fairness every call returns within 7 digest passes (`Termination`). |
| session | `MC_MacSession.cfg` | pass | Both directions, three rekeys, two packets in flight each way, NEWKEYS crossing in either order. Neither side ever rejects a MAC (`NoSpuriousFailure`). This checks the letter choice, the write switch timing and `write_data`. The write direction refines `MacWriteGenerations` (`WriteGenerationsRefined`). |
| teardown_scrub | `MC_MacSession_teardown.cfg` | violation | After `proxy_ssh_mac_free`, derived keys are still allocated (finding 3). |
| write_kdf_error | `MC_MacSession_kdferr.cfg` | violation | With digest failures, our packets go out without the negotiated MAC (finding 4). |
| compare_timing | `MC_MacCompare.cfg` | violation | Rejecting two forged tags for the same expected tag takes different times (finding 7). |
| read_algo_query | `MC_MacSession_algoquery.cfg` | violation | `get_read_algo` dereferences NULL before the first `set_read_algo` (finding 5). |

Every property of a passing run has a mutant in `PROJECT.json`. A mutant is a
plausible bug in the mapped code, and TLC catches each one. Examples:
- the switch forgetting the block size;
- `init_mac` keeping the old HMAC key;
- the KDF hashing only the last block;
- an unscrubbed error path;
- swapped letters.

**Bounds.**
- `MaxRounds` of 3–4 reuses each slot at least once. A slot is reused at the
  third key exchange.
- `MaxChan` of 2–3 lets packets under the old key wait behind NEWKEYS and
  lets the two sides' NEWKEYS cross.
- `SeqWrap` is larger than `MaxChan` (an `ASSUME` in `MacRekey`), so a packet
  displaced by one step of the network (a drop, a duplicate inserted nearby,
  a swap) never lands on its own seqno. A packet held back by repeated
  reorders or replays while `SeqWrap` others are read does land on its own
  seqno again, and is then accepted. That is the real code after 2^32
  packets under one key. `NoForgeryAccepted` does not flag it, since the
  packet is the one the peer sent with that number. In `MacSession`, where no
  packet is replayed, `SeqWrap = 2` is enough for the counters to wrap
  during a run.
- The algorithm sets cover all tag lengths that differ: 0, 8, 12 and 20.
  They also cover both primitive families and a name missing from the table.
- `MacKdf` enumerates the whole table. With sha1 as the kex hash, the 64- and
  128-byte blocks need 4 and 7 hash rounds and must be rounded up (to 80
  and 140 bytes).

**Fairness.**
- `MacKdf` is checked under `FairSpec == Spec /\ WF_vars(Next)`. `set_mac_key`
  is a single synchronous call with no waits, so once called it keeps taking
  steps until it returns. `Termination` says it returns (with a key, with none,
  or with an error). The loop's passes are capped by `MaxHashes = 7`, which is
  the most any table entry needs (hmac-sha2-512, whose sha512 digest has a
  128-byte block, with sha1's 20-byte output). With 6 the property fails, so the bound is tight and cannot hide a
  loop that runs too long.
- The other runs assume no fairness. Whether a session progresses is up
  to the peer and the key exchange, not this layer, so their properties are
  safety properties.

**Deadlock.**
- `MC_MacRekey.cfg` checks deadlock: with a correct peer the session never
  stops.
- The other configurations turn the check off for a stated reason: a fatal
  MAC error ends the session, `proxy_ssh_mac_free` is the last call, and a
  single `set_mac_key` call ends.

## Refinement

`MacGenerations` states the read direction's contract without slots:
- one generation `active` is in force;
- a packet is accepted exactly when its tag is the one `active` produces;
- an accepted NEWKEYS makes the negotiated generation active in one step;
- `set_algorithm` is invisible;
- computing a tag never fails, and only errors of `set_algorithm` and
  `set_key` are fatal;
- the environment may change the stream in any way (append, alter, drop,
  duplicate, reorder), and the tag expected is that of the receiver's own
  seqno.

`MacRekey` instantiates it with this refinement mapping:
- `active <- ActiveGen`: the active slot's algorithm and key, or "none" when
  the slot has no key. That is the case where `read_data` skips the check.
- `pending <- kex`;
- `seq <- rseq`;
- `err <- macError`.

`GenerationsRefined == Gen!Spec` is checked as a PROPERTY. It ties together
the slot choice of `set_read_algo`, the switch, the HMAC and UMAC contexts,
the framing by `mac_blockszs` and the letter. A context out of step with its
slot, a wrong block size or a wrong key each show up as a verdict that the
abstract spec does not allow. With digest failures, the refinement fails in
the same way as finding 1.

The write direction has its own contract, `MacWriteGenerations`:
- every packet we send carries the tag of the active generation;
- our NEWKEYS still carries the old tag, and the negotiated generation takes
  over for everything after it;
- computing a tag never fails, and only errors of `set_algorithm` and
  `set_key` are fatal.

`MacSession` maps it as follows:
- `active <- WActiveGen`: the active write slot, or "none" when it has no
  key. That is the case where `write_data` attaches no MAC.
- `pending <- kexW`;
- `out <- outbox`;
- `seq <- wseq`;
- `err <- wErr`.

`WriteGenerationsRefined` holds in the `session` run. It fails with digest
failures (finding 4).

## Findings

1. **`mac.c:775` (and `911`).** `set_read_key` ignores the return value of
   `set_mac_key`. After a digest error the slot has no key. On OpenSSL 1.0,
   `init_mac` with a NULL key succeeds, so `set_read_key` reports success.
   From then on `read_data` accepts every packet unchecked, altered ones
   included. Spec section 7 says a DigestError is fatal and never absorbed.
2. **`mac.c:128`.** The read block size is per slot and reset at the switch,
   so it falls when a rekey moves to a shorter tag. Spec 4.3 calls it
   monotonic. The code's behaviour is what framing needs: the rekey_read run
   passes because of it. The spec's wording is wrong here.
3. **`mac.c:977`.** `proxy_ssh_mac_free` frees only the HMAC contexts. Slot
   keys are neither scrubbed nor freed, and UMAC contexts are not deleted.
   This contradicts spec 4.5.
4. **`mac.c:911`.** `set_write_key` ignores the return value of `set_mac_key`,
   in the same way as finding 1. On OpenSSL 1.0, after a digest error
   `write_data` sends every later packet with no MAC, although an HMAC was
   negotiated and `set_write_key` returned 0. A correct peer then drops the
   session.
5. **`mac.c:681`.** `get_read_algo` `strcmp()`s the slot's name when the slot
   has no key. Before the first successful `set_read_algo` that name is NULL.
   Spec section 6 says the query answers "none" or empty when no key is
   installed. Whether `kex.c` asks that early is outside `src/`.
6. **`mac.c:223`.** After a digest error in `set_mac_key`, the slot's key is
   NULL, and `init_mac` passes it to `umac_init` for a UMAC algorithm.
   `umac_init` dereferences the key (it is outside `src/`, and modelled from
   the spec as a crash). `NoCrash` says such a failure is returned to the
   caller. TLC reaches the crash at the first rekey to umac-64 after a failed
   digest call.
7. **`mac.c:345`.** `get_mac` compares the received tag with `memcmp`, which
   returns at the first differing byte. A rejection therefore takes longer
   the more leading bytes of a forged tag are right. Spec 4.4 requires a
   constant-time, full-length compare. `MacCompare` models `memcmp` byte by
   byte, and `TimeIndependentOfTag` fails with two forged tags that differ
   from the expected one at different positions. Optimised `memcmp`
   implementations compare a word at a time and leak per word, not per
   byte; the property fails either way. A mismatch is fatal to the session
   (`read_data` returns -1 and the transport ends the connection), so a
   peer gets one timing observation per expected tag. How much that limits
   the leak is not checked here.
8. **`mac.c:121` (and `151`).** At a rekey, `switch_read_mac` scrubs the
   retired key buffer and resets the HMAC context. For a UMAC generation it
   only calls `umac_reset`, which restarts the hash and keeps the key
   schedule. That keyed state stays in the retired slot until the next
   `set_read_algo` deletes the context. Spec 4.3 says the retired slot's
   primitive state is released at the switch. `RetiredKeysScrubbed` looks
   at the key buffer, the HMAC context and the UMAC context of the retired
   slot. It fails at the first rekey away from umac-64.

## Not modelled

- **HMAC and UMAC arithmetic, and the authenticated buffer layout.** These are
  abstracted to keyed functions.
- **Time itself.** `MacCompare` counts the bytes `memcmp` reads, standing
  for its time; cache and branch effects are not modelled.
- **Pools (`make_sub_pool`, `destroy_pool`) and logging.** They change no
  state that a property distinguishes.
- **`get_write_algo`.** It tests the key alone, so it cannot fail, and no
  property depends on its answer. `get_read_algo` is modelled (finding 5).
- **`set_key` on an unprepared slot.** `EVP_MD_block_size(NULL)` and
  `strcmp(NULL, "none")` are modelled as a crash (`SetKeyUnprepared`). The
  modelled key exchange always calls `set_algo` first and never does this.
  A caller that skipped `set_algo` would reach it.

## Plan for the next sittings

1. The interop case (`InteropMacLen = FALSE`, key length 16). It changes only
   `key_len`, which `MacKdf` checks both ways; the tag abstraction does not
   see it.
2. A `MacSession` run with digest failures and an attacker on the inbound
   stream, so that both swallowed errors (findings 1 and 4) show up in one
   session.
3. A `MacSession` run that combines the interop case with a server role,
   so that both letter pairs are checked in one session.
