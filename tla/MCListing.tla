----------------------------- MODULE MCListing -----------------------------
(***************************************************************************)
(* A small bucket for Listing: a key beside a directory, the directory's   *)
(* own marker, a key below it, one whose name azureblob escapes after an   *)
(* underscore, and one that climbs.                                        *)
(***************************************************************************)
EXTENDS Listing

A == 97
B == 98

MCNames == {<<A>>, <<A, Slash>>, <<A, Slash, B>>, <<A, Slash, Underscore, Backslash>>,
            <<Dot, Dot, Slash, A>>}
MCPrefixes == {<<>>, <<A, Slash>>}

\* Keys that hold the text of an escape, or the beginning of one: "__0x5c__" shares
\* its blob with "\", and "__0x5\" is read back wrongly.
MCEscapes == {<<Backslash>>, EscapeStart \o Hex(Backslash) \o EscapeEnd,
              EscapeStart \o <<Zero + 5, Backslash>>}

\* unescapeKey undoes escapeKey (azureblob.go:985-988) on every key that does not hold
\* the text "__0x": all keys of up to MaxKey of the characters that escapes are made of
\* and that are escaped.
MaxKey == 6
KeyCharacters == {Dot, Slash, Zero, Backslash, Underscore, LowerX, 99}
ASSUME EscapeRoundTrips ==
  \A n \in 1..MaxKey : \A key \in [1..n -> KeyCharacters] :
    (\A i \in 1..(n - 3) : SubSeq(key, i, i + 3) # EscapeStart) =>
      \A isPrefix \in BOOLEAN : unescapeKey(escapeKey(key, isPrefix)) = key
=============================================================================
