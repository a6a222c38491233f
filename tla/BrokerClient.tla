----------------------------- MODULE BrokerClient -----------------------------
(***************************************************************************)
(* What vmnet_broker_acquire_network makes of the reply of vmnet-broker to *)
(* its one request (broker/client.c).  The broker and XPC are external.    *)
(*                                                                         *)
(* The serialized network is an object with a reference count: a reply     *)
(* that has it owns one reference, and the caller of the function owns the *)
(* reference that the function gives it.                                   *)
(***************************************************************************)
EXTENDS Integers

VMNET_BROKER_SUCCESS == 0
VMNET_BROKER_XPC_FAILURE == 1
VMNET_BROKER_INVALID_REPLY == 2
VMNET_BROKER_INTERNAL_ERROR == 7

\* Bound: the client cuts the error of the reply, a 64 bit integer, to 32 bits; in the
\* model to a word of Word values, with errors of the broker and two that do not fit.
Word == 16
Errors == (VMNET_BROKER_SUCCESS..VMNET_BROKER_INTERNAL_ERROR) \cup {Word, Word + 1}

\* XPC_TYPE_ERROR, some other object, or a dictionary, with a network or without.
Reply ==
    [type : {"error", "other"}, error : {VMNET_BROKER_SUCCESS}, network : {FALSE}]
    \cup [type : {"dictionary"}, error : Errors, network : BOOLEAN]

\* int32_t error = xpc_dictionary_get_int64().
Cut(error) == error % Word

\* The status that vmnet_broker_acquire_network returns.
BrokerStatus(reply) ==
    IF reply.type = "error" THEN VMNET_BROKER_XPC_FAILURE
    ELSE IF reply.type # "dictionary" THEN VMNET_BROKER_INVALID_REPLY
    ELSE IF Cut(reply.error) # VMNET_BROKER_SUCCESS THEN Cut(reply.error)
    ELSE IF ~reply.network THEN VMNET_BROKER_INVALID_REPLY
    ELSE VMNET_BROKER_SUCCESS

\* A reference more, unless the object is gone, and one less.
Retain(count)  == IF count = 0 THEN 0 ELSE count + 1
Release(count) == count - 1

\* xpc_retain, on success only.
Kept(count, reply) ==
    IF BrokerStatus(reply) = VMNET_BROKER_SUCCESS THEN Retain(count) ELSE count

\* Mutant: the reply is released before its network is retained.
MutantReferences(reply) == IF reply.network THEN Kept(Release(1), reply) ELSE 0

\* References to the network when the function returns: the one of the reply, which
\* xpc_release(reply) drops after the network was retained.
References(reply) == IF reply.network THEN Release(Kept(1, reply)) ELSE 0
==============================================================================
