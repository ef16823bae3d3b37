-------------------------------- MODULE Ntlm --------------------------------
(***************************************************************************)
(* NTLMv2 as CredSSP uses it (nla/ntlm.rs, nla/sspi.rs).  Hashes, ciphers  *)
(* and random numbers are terms: two of them are equal when they were made *)
(* of the same parts.  A keystream is its key and how often it was used;   *)
(* both ends process data of the same sizes in the same order, so that the *)
(* number of calls says where in the stream they are.                      *)
(***************************************************************************)
EXTENDS Naturals

Hmac(key, data) == <<"hmac", key, data>>
Md4(data) == <<"md4", data>>
Rc4k(key, data) == <<"rc4", key, data>>

\* The two ways to the key of an account: from the password and from its hash.
NtOwfHash(hash, user) == Hmac(hash, user)
NtOwf(password, user) == NtOwfHash(Md4(password), user)
ResponseKey(account) ==
    IF account.hashed THEN NtOwfHash(account.secret, account.user)
                      ELSE NtOwf(account.secret, account.user)

\* The proof answers the challenge of the server; only the owner of the account
\* key gets from it to the key the session key is sent under.
Proof(key, challenge, nonce, info) == Hmac(key, <<challenge, nonce, info>>)
BaseKey(key, proof) == Hmac(key, proof)

Mic(exported, negotiate, challenge) == Hmac(exported, <<negotiate, challenge>>)

\* What read_challenge_message answers.  A challenge that names no timestamp, or
\* a field outside of its payload, never gets here: the code panics.
AuthenticateMessage(account, negotiate, challenge, nonce, exported) ==
    LET proof == Proof(ResponseKey(account), challenge.nonce, nonce, challenge.info)
    IN  [user  |-> account.user,
         nonce |-> nonce,
         proof |-> proof,
         key   |-> Rc4k(BaseKey(ResponseKey(account), proof), exported),
         mic   |-> Mic(exported, negotiate, challenge.nonce)]

Ends == {"client", "server"}
SealKey(exported, end) == <<"seal", exported, end>>
SignKey(exported, end) == <<"sign", exported, end>>

\* The security interface of one end: the two keystreams, the keys of the
\* checksums and the number of the next message.
SecurityInterface(exported, end) ==
    LET peer == CHOOSE e \in Ends : e # end
    IN  [encrypt |-> [key |-> SealKey(exported, end),  at |-> 0],
         decrypt |-> [key |-> SealKey(exported, peer), at |-> 0],
         signing |-> SignKey(exported, end),
         verify  |-> SignKey(exported, peer),
         seq_num |-> 0]

Process(stream, data) == [key |-> stream.key, at |-> stream.at, data |-> data]
Used(stream) == [stream EXCEPT !.at = @ + 1]
Plain(stream, cipher) ==
    IF cipher.key = stream.key /\ cipher.at = stream.at
    THEN cipher.data ELSE <<"garbage">>

\* A fault of gss_wrapex: the checksum taken from the stream before the data.
WrappedReversed(security, data) ==
    [payload  |-> Process(Used(security.encrypt), data),
     checksum |-> Process(security.encrypt,
                          Hmac(security.signing, <<security.seq_num, data>>)),
     seq_num  |-> security.seq_num]

\* gss_wrapex: the data first, then its checksum, on one keystream.
Wrapped(security, data) ==
    [payload  |-> Process(security.encrypt, data),
     checksum |-> Process(Used(security.encrypt),
                          Hmac(security.signing, <<security.seq_num, data>>)),
     seq_num  |-> security.seq_num]
\* A fault: the checksum is ciphered on a stream of its own.
AfterWrapOnce(security) == [security EXCEPT !.encrypt = Used(@), !.seq_num = @ + 1]
AfterWrap(security) ==
    [security EXCEPT !.encrypt = Used(Used(@)), !.seq_num = @ + 1]

\* gss_unwrapex: the stream moves on before the checksum is compared, and the
\* number is the one the sender wrote.
Unwrapped(security, m) == Plain(security.decrypt, m.payload)
AfterUnwrap(security) == [security EXCEPT !.decrypt = Used(Used(@))]
Verified(security, m) ==
    Plain(Used(security.decrypt), m.checksum)
        = Hmac(security.verify, <<m.seq_num, Unwrapped(security, m)>>)
=============================================================================
