--------------------------- MODULE MCConfigStartup ---------------------------
(***************************************************************************)
(* Scopes mail, mailer (which mail's letters begin) and oidc; mail also    *)
(* has a file in a second source. One family of inputs for what validation *)
(* meets, one for what a schema tells apart, one for what views meet, one  *)
(* for writes.                                                             *)
(***************************************************************************)
EXTENDS ConfigStartup, TLC

CONSTANT Null
MCFalsy == {Null}

Piece(text, form) == [text |-> text, form |-> form]
Mail == <<Piece("mail", "low")>>
Mailer == <<Piece("mail", "low"), Piece("er", "low")>>
MailAdmin == <<Piece("mail", "low"), Piece("admin", "sep")>>
Oidc == <<Piece("oidc", "low")>>

Er == <<Piece("er", "low")>>
Url == <<Piece("url", "low")>>
Secret == <<Piece("secret", "low")>>
BaseUrl == <<Piece("base", "low"), Piece("url", "Cap")>>
BaseURL == <<Piece("base", "low"), Piece("url", "CAPS")>>
AdminUrl == <<Piece("admin", "low"), Piece("url", "Cap")>>

MCScopeOrder == <<Mail, MailAdmin, Mailer, Oidc>>
MCContexts == {"eu"}
MCFileOrder == <<"base/mail", "base/mail-admin", "base/mailer", "base/oidc", "over/mail">>
MCFileScope == "base/mail" :> Mail @@ "base/mail-admin" :> MailAdmin @@ "base/mailer" :> Mailer
                   @@ "base/oidc" :> Oidc @@ "over/mail" :> Mail
MCTreeFile == Mail :> "base/mail" @@ MailAdmin :> "base/mail-admin" @@ Mailer :> "base/mailer"
                  @@ Oidc :> "base/oidc"

\* A schema: the public keys it requires and those it allows, and whether it says
\*   object  that the JSON is an object,
\*   closed  that it has no other property than public,
\*   secret  that private, if there, has a secret.
Schema(needs, allows, says) == [needs |-> needs, allows |-> allows, says |-> says]
MCAccepts(schema, json) ==
    IF json = Null \/ json.more = "list" THEN "object" \notin schema.says
    ELSE LET there     == DOMAIN json.sections
             has(v)    == IF v \in there THEN DOMAIN json.sections[v] ELSE {}
         IN  /\ schema.needs \subseteq has("public") /\ has("public") \subseteq schema.allows
             /\ "closed" \in schema.says =>
                   there \subseteq {"public"} /\ DOMAIN json.contexts = {} /\ json.more = Nothing
             /\ "secret" \in schema.says /\ "private" \in there => Secret \in has("private")
Saying(says) == Schema({Url}, {Url, BaseUrl, BaseURL}, says)
Strict == Saying({"object"})

Entry(key, value) == [key |-> key, value |-> value]
Of(public, private) ==
    [public |-> public, private |-> private, contexts |-> <<>>, there |-> Visibilities, more |-> Nothing]
WithEu(f, public, private) == [f EXCEPT !.contexts = "eu" :> [public |-> public, private |-> private]]

Good(value) == Of(<<Entry(Url, value)>>, <<Entry(Secret, value)>>)
\* Its key baseURL is baseurl in the joint object.
Loud == Of(<<Entry(BaseURL, "l"), Entry(Url, "l")>>, <<>>)
Bad == Of(<<Entry(Secret, "leaf")>>, <<>>)
\* Files without a private section, without contexts but for the key, of a list.
Lone == [Good("a") EXCEPT !.private = <<>>, !.there = {"public"}]
Keyed == [Lone EXCEPT !.more = "empty contexts"]
List == [Of(<<>>, <<>>) EXCEPT !.there = {}, !.more = "list"]
Rich(value) ==
    WithEu(Of(<<Entry(BaseUrl, value), Entry(Url, value)>>, <<Entry(Url, value), Entry(Er, value)>>),
           <<Entry(Url, "eu"), Entry(Secret, "eu")>>, <<Entry(BaseURL, "eu")>>)

Disk(mail, admin, mailer, oidc, over) ==
    "base/mail" :> mail @@ "base/mail-admin" :> admin @@ "base/mailer" :> mailer
        @@ "base/oidc" :> oidc @@ "over/mail" :> over

Extension(scope, mode, directory, schema) ==
    [scope |-> scope, mode |-> mode, directory |-> directory, schema |-> schema]

NoHost == [public |-> <<>>, private |-> <<>>]
HostBelow == [public  |-> <<Entry(Joint(Oidc, Url), "host"), Entry(Joint(Oidc, Secret), "host")>>,
              private |-> <<Entry(Joint(Mailer, Url), "host")>>]

\* mailEr and mailer, which are both er in the view of mail.
HostAlike == [public  |-> <<>>,
              private |-> <<Entry(Joint(Mail, Er), "host"), Entry(CamelCase(Mailer), "other")>>]

Input(d, extensions, resolved, validation, host, privateOutput, writes) ==
    [disk |-> d, targets |-> extensions, resolved |-> resolved, validation |-> validation,
     host |-> host, privateOutput |-> privateOutput, writes |-> writes]

Modes == {"none", "optional", "startup", "onUse"}

\* What validation meets.
Validations ==
    {Input(Disk(mail, Absent, Absent, oidc, over),
           <<Extension(Mail, mode, directory, schema), Extension(Oidc, other, TRUE, Strict)>>,
           {Mail, Oidc}, validation, NoHost, "root", <<>>) :
        mail \in {Absent, Broken, Good("a"), Loud, Bad},
        over \in {Absent, Broken, Null, Good("b"), Bad},
        oidc \in {Absent, Good("o")},
        mode \in Modes, other \in {"optional", "startup"},
        directory \in BOOLEAN, schema \in {Absent, Broken, Strict},
        validation \in BOOLEAN}

\* What a schema tells apart.
Kinds ==
    {Input(Disk(mail, Absent, Absent, Absent, over),
           <<Extension(Mail, mode, TRUE, Saying(says))>>,
           resolved, TRUE, NoHost, "root", <<>>) :
        mail \in {Absent, Null, Good("a"), Bad, Lone, Keyed, List, Rich("a")},
        over \in {Absent, Null, Lone, Keyed, List},
        mode \in {"startup", "onUse"},
        says \in SUBSET {"object", "closed", "secret"},
        resolved \in {{}, {Mail}}}

\* What views meet.
Views ==
    {Input(Disk(mail, Absent, mailer, oidc, Absent),
           <<Extension(Mailer, "startup", TRUE, Strict), Extension(Mail, mail_mode, TRUE, Strict),
             Extension(Oidc, "startup", TRUE, Strict)>>,
           resolved, validation, host, privateOutput, <<>>) :
        mail \in {Good("a"), Rich("a")}, mail_mode \in {"optional", "startup"},
        mailer \in {Absent, Good("m"), Rich("m")},
        oidc \in {Good("o"), Rich("o")},
        resolved \in {{}, {Mail, Mailer, Oidc}},
        validation \in BOOLEAN,
        host \in {NoHost, HostBelow, HostAlike}, privateOutput \in {"root", "section"}}

\* What the host meets while other processes write.
Writes ==
    {Input(Disk(mail, Absent, Absent, Good("o"), over),
           <<Extension(Mail, mode, TRUE, Strict), Extension(Oidc, "startup", TRUE, Strict)>>,
           {Mail, Oidc}, TRUE, NoHost, "root", writes) :
        mail \in {Absent, Good("a")}, over \in {Absent, Good("b")},
        mode \in {"optional", "startup"},
        writes \in {<<[file |-> "base/mail", content |-> Bad]>>,
                    <<[file |-> "base/oidc", content |-> Rich("w")]>>,
                    <<[file |-> "over/mail", content |-> Good("w")],
                      [file |-> "base/mail", content |-> Rich("w")]>>}}

MCInputs == Validations \cup Kinds \cup Views \cup Writes

\* Two scopes whose keys meet.
MeetingInputs ==
    {Input(Disk(Of(<<Entry(AdminUrl, "a")>>, <<>>), Good("b"), Absent, Absent, Absent),
           <<>>, {}, FALSE, NoHost, "root", <<>>)}
=============================================================================
