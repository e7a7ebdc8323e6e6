---------------------------- MODULE NetworkCache ----------------------------
(***************************************************************************)
(* The Lua library NetworkCache of luaExtensions.c: the C array in which   *)
(* Server.send and Client.send remember what they transmitted.  This       *)
(* module holds the functions of the library; Messaging keeps the array.   *)
(*                                                                         *)
(* An entry is [messageId, peerNum, event, status, dataChecksum].  The two *)
(* time stamps, only ever copied, are left out.  event and dataChecksum    *)
(* are the POINTERS the C code compares and never the text they point to:  *)
(* event names are held by NetworkUtils.events and keep their address, a   *)
(* checksum is held by nobody (see Messaging).                             *)
(***************************************************************************)
EXTENDS Integers, Sequences

LeastSlot(slots) == CHOOSE i \in slots : \A j \in slots : i <= j

\* The entries a call with this key matches.
KeySlots(entries, peerNum, event, messageId) ==
  {i \in DOMAIN entries : /\ entries[i].messageId = messageId
                          /\ entries[i].peerNum = peerNum
                          /\ entries[i].event = event}

ChecksumSlots(entries, peerNum, dataChecksum) ==
  {i \in DOMAIN entries : /\ entries[i].peerNum = peerNum
                          /\ entries[i].dataChecksum = dataChecksum}

PeerSlots(entries, peerNum) ==
  {i \in DOMAIN entries : entries[i].peerNum = peerNum}

\* `status == "ack"` compares the address of the Lua string with that of a C
\* literal, which are never the same: every entry is stored as sent.
StoredStatus(status) == "sent"

\* Mutant of NetworkWritten: does not look for an entry with that key.
NetworkAppended(entries, peerNum, messageId, event, status, dataChecksum) ==
  Append(entries, [messageId |-> messageId, peerNum |-> peerNum, event |-> event,
                   status |-> StoredStatus(status), dataChecksum |-> dataChecksum])

\* NetworkCache.set: overwrites the first entry with that key, else appends.
NetworkWritten(entries, peerNum, messageId, event, status, dataChecksum) ==
  LET slots == KeySlots(entries, peerNum, event, messageId)
      entry == [messageId    |-> messageId,
                peerNum      |-> peerNum,
                event        |-> event,
                status       |-> StoredStatus(status),
                dataChecksum |-> dataChecksum]
  IN  IF slots = {} THEN Append(entries, entry)
                    ELSE [entries EXCEPT ![LeastSlot(slots)] = entry]

\* NetworkCache.get answers an entry, and the entry says it is acknowledged.
AcknowledgedInCache(entries, peerNum, event, messageId) ==
  LET slots == KeySlots(entries, peerNum, event, messageId)
  IN  slots # {} /\ entries[LeastSlot(slots)].status = "ack"

\* NetworkCache.getChecksum answers an entry.
ChecksumInCache(entries, peerNum, dataChecksum) ==
  ChecksumSlots(entries, peerNum, dataChecksum) # {}

\* NetworkCache.clear: as long as an entry of the peer is left, a pass over
\* the array moves the slots above each such entry away from it.  The first
\* such entry stays in its slot until the array ends before it, so that the
\* array is cut there whoever the entries behind it belong to.
Cleared(entries, peerNum) ==
  LET slots == PeerSlots(entries, peerNum)
  IN  IF slots = {} THEN entries
                    ELSE SubSeq(entries, 1, LeastSlot(slots) - 1)
=============================================================================
