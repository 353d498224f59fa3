---------------------------- MODULE MCBigstringIO ----------------------------
(* Two writers with three bytes and one, buffers and a pipe of two.        *)
EXTENDS BigstringIO

MCTotal == [t \in Writers |-> IF t = 1 THEN 3 ELSE 1]
MCIovecs == {<<1, 2>>}
MCVias == {<<"channel", "channel">>, <<"fd", "fd">>}
MCChannels == {<<"fd", "channel">>}
=============================================================================
