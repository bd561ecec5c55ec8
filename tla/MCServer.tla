------------------------------- MODULE MCServer -------------------------------
(* Constants for checking Server with TLC.                                 *)
EXTENDS Server, TLC

MCDefaults == "listen" :> ":8080" @@ "db-driver" :> "sqlite" @@
              "auth-provider" :> "basic" @@ "tls" :> FALSE @@
              "auto-cert" :> FALSE @@ "cert-file" :> "" @@
              "key-file" :> "" @@ "acme-host" :> ""

\* words that both take, and one that only the one or the other does
Both        == "true" :> TRUE @@ "false" :> FALSE
MCParseBool == "1" :> TRUE @@ Both
MCYamlBool  == "yes" :> TRUE @@ Both

MCFiles == "oauth.yaml" :> ("auth-provider" :> "oauth2" @@ "tls" :> "yes"
                            @@ "cert-file" :> "c" @@ "key-file" :> "k")
        @@ "users.yaml" :> ("db-driver" :> "postgres" @@ "tls" :> "true")
        @@ "wrong.yaml" :> ("tls" :> "1")

Source(path, env, flags) == [path |-> path, env |-> env, flags |-> flags]

\* one of each kind of file, variable and flag; the last five cannot start
MCSourceSets ==
    {Source("oauth.yaml", "auth-provider" :> "" @@ "tls" :> "false", <<>>),
     Source("users.yaml", "auth-provider" :> "oauth2" @@ "tls" :> "yes",
            "auth-provider" :> "basic"),
     Source("users.yaml", "cert-file" :> "c", "config" :> "" @@ "db-driver" :> ""),
     Source("oauth.yaml", <<>>, "config" :> "users.yaml" @@ "tls" :> "1"),
     Source("wrong.yaml", <<>>, <<>>),
     Source("missing.yaml", <<>>, <<>>),
     Source("", <<>>, "tls" :> "yes"),
     Source("", <<>>, "issuer" :> "https://id"),
     Source("", "auth-provider" :> "ldap", "auto-cert" :> "true")}

Tok(kid, key, exp, ours, user) ==
    [kid |-> kid, key |-> key, exp |-> exp, ours |-> ours, user |-> user]

\* A good token that lasts and one that expires; then one fault each: no user,
\* signed by no key of the issuer, meant for another server.
MCNever  == MaxTime + 1
MCTokens == {Tok("k1", 1, MCNever, TRUE, "ann"),
             Tok("k2", 1, 0, TRUE, "bob"),
             Tok("k1", 2, 0, TRUE, ""),
             Tok("k2", 0, 0, TRUE, "ann"),
             Tok("k2", 1, 0, FALSE, "bob")}

MCPasswords == "ann" :> "secret"
MCLogins    == {[name |-> "ann", password |-> "secret"],
                [name |-> "ann", password |-> "guess"],
                [name |-> "bob", password |-> "secret"]}

=============================================================================
