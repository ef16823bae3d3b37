---------------------------- MODULE MCConnection ----------------------------
(* What a server of kind "any" says: each message with the fields that decide. *)
EXTENDS Connection

Sealed(exported, data) == Wrapped(AfterUnwrap(SecurityInterface(exported, "server")), data)

MCMessages ==
    [t : {"Confirm"}, type : {"Response"}, protocol : Protocols \cup {"unknown"}]
    \cup [t : {"Confirm"}, type : {"Failure", "Request", "unknown"}, protocol : {"SSL"}]
    \cup [t : {"Challenge"}, form : {"good", "empty", "untimed", "astray", "unsigned", "cut", "unknown"},
          nonce : {SrvNonce}, info : {TargetInfo}]
    \cup [t : {"Validate"}, sealed : {Sealed(Exported, PubKeyPlusOne), Sealed(Exported, PubKey),
                                      Sealed(Guess, PubKeyPlusOne)}]
    \cup [t : {"Response"}, blocks : {{"core", "net"}, {"core"}, {"core", "net", "short"}},
          version : {"00080001", "other"}]
    \cup [t : {"Attach"}, result : {0}, initiator : {2, 6, 65000}]
    \cup [t : {"Attach"}, result : {1}, initiator : {6}]
    \cup [t : {"Joined"}, initiator : {6}, channel : {1003, 1007}]
    \cup [t : {"Joined"}, initiator : {2, 65000}, channel : {1003, 465}]
    \cup [t : {"License"}, channel : {1003, 1008}, flag : BOOLEAN, type : {"NewLicense"},
          code : {"StatusValidClient"}, transition : {"StNoTransition"}]
    \cup [t : {"License"}, channel : {1003}, flag : {TRUE}, type : {"ErrorAlert"},
          code : AlertCodes \cup {"unknown"}, transition : Transitions \cup {"unknown"}]
    \cup [t : {"License"}, channel : {1003}, flag : {TRUE}, type : {"LicenseRequest", "short"},
          code : {"none"}, transition : {"none"}]
    \cup [t : {"FastPath", "Ultimatum", "Part", "Malformed"}]
=============================================================================
