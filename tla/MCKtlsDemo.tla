---------------------------- MODULE MCKtlsDemo ------------------------------
(* KtlsDemo for TLC: what peers send.                                       *)
EXTENDS KtlsDemo

Sent(kind, bytes) == [kind |-> kind, bytes |-> bytes]
Data(bytes) == Sent("data", bytes)
HandshakeRecords == <<Sent("hello", <<>>), Sent("keys", <<>>), Sent("finished", <<>>)>>

\* After a handshake: a message in one record, in two, with bytes behind the
\* newline, that just fits, that does not, and one cut short by close_notify;
\* and a record out of place.
MCScripts ==
    {HandshakeRecords \o s : s \in
        {<<Data(<<1, 0>>)>>,
         <<Data(<<1, 2>>), Data(<<0>>)>>,
         <<Data(<<1>>), Data(<<2, 0, 3>>)>>,
         <<Data(<<1, 2>>), Data(<<3>>), Data(<<0>>)>>,
         <<Data(<<1>>), Sent("close_notify", <<>>)>>,
         <<Sent("bad", <<>>)>>}}
    \cup {<<Sent("hello", <<>>), Sent("bad", <<>>)>>}
=============================================================================
