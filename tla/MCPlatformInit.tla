---------------------------- MODULE MCPlatformInit ----------------------------
(* Instances of PlatformInit for TLC.                                        *)
EXTENDS PlatformInit

CONSTANTS j1, j2, j3,       \* Jobs
          k1, k2,           \* RSA keys
          text,             \* a string that is no RSA key
          sym               \* a symmetric key

TwoJobs == {j1, j2}
ThreeJobs == {j1, j2, j3}
TestKeys == {k1, k2, text, sym}
RsaKeys == {k1, k2}

Config(priv, prev, enc, authn) ==
    [priv |-> priv, prev |-> prev, enc |-> enc, authn |-> authn]

\* Nothing configured, a key, a key and its rotation in both directions.
SoundConfigs == { Config(None, None, None, None),
                  Config(k1, None, sym, None),
                  Config(k2, None, None, sym),
                  Config(k2, k1, sym, None),
                  Config(k1, k2, None, None) }

\* Also what an operator may get wrong: empty strings, a string that is not
\* a key, a rotation without or to the same key.
AllConfigs == SoundConfigs \cup
                { Config(Empty, Empty, Empty, sym),
                  Config(text, None, None, None),
                  Config(None, k1, None, None),
                  Config(Empty, k1, None, None),
                  Config(k1, k1, None, None) }

\* The first installation, or revisions of a release whose key is k1.
Nothing == {None}
NothingOrKey == {None, k1}
=============================================================================
