-------------------------------- MODULE Rules --------------------------------
(* The rule set of scorer/rules.py as a table for module Engine: what each   *)
(* rule tests, in the order it tests it. A pattern the proxy's record or a   *)
(* tap is searched for is a fact named for it. race-giftcard-double-spend is *)
(* in module Scorer, which has the balances it compares.                     *)
EXTENDS Engine

Rule(id, clauses) == [id |-> id, clauses |-> clauses]

(* SQL.                                                                     *)
SqlRules ==
    {Rule("sqli-error-search", <<Page("/search"), Tap("sql.exec", <<"error", "raw">>)>>),
     Rule("sqli-union-products",
          <<Leak(AnyKind), Tap("sql.exec", <<"has union", "raw">>)>>),
     Rule("sqli-blind-boolean",
          <<Tap("sql.exec", <<"raw", "sql", "names secret", "compares">>)>>),
     Rule("sqli-time-based", <<Page("slow"), Tap("sql.exec", <<"raw", "slow">>)>>)}

(* Other interpreters.                                                      *)
InterpreterRules ==
    {Rule("xpath-injection",
          <<Leak(AnyKind), Tap("xpath.eval", <<"field", "not flavor">>)>>),
     Rule("smtp-header-injection", <<Tap("mail.send", <<"adds recipients">>)>>),
     Rule("crlf-header-injection",
          <<Tap("obj.assign", <<"is response.header", "has line break">>)>>)}

(* Client side.                                                             *)
ClientSideRules ==
    {Rule("reflected-xss-search", <<Page("reflects markup")>>),
     Rule("dom-xss-search", <<Page("hl"), Page("hl is markup"), Page("innerHTML")>>),
     Rule("stored-xss-review", <<Stored("plain")>>),
     Rule("mutation-xss", <<Stored("mutation")>>),
     Rule("dangling-markup-exfil", <<Stored("dangling")>>),
     Rule("csti", <<Page("ref"), Page("ref is an expression"), Page("ref reflected")>>),
     Rule("blind-xss-contact", <<Tap("cache.store", <<"is contacts", "is markup">>)>>),
     Rule("clickjacking",
          <<Page("/retail/wallet/transfer"), Page("framed"),
            Page("no frame option"), Page("no frame policy")>>),
     Rule("security-headers-missing",
          <<Page("/audit/security-headers"), Page("no security header")>>),
     Rule("cors-misconfig",
          <<Page("origin"), Page("origin allowed"), Page("credentials allowed")>>),
     Rule("open-redirect",
          <<Page("3xx with location"), Page("external location"),
            Page("location from a parameter")>>)}

(* Files and paths, from the proxy's view.                                  *)
PathRules ==
    {Rule("path-normalization-admin",
          <<Page("status < 400"), Page("names /admin"), Page("odd separators")>>)}

(* Access control: canaries shown to those who do not own them.             *)
AccessRules ==
    {Rule("bola-api-user", <<Page("/api/v2/users/"), Leak("user-secret")>>),
     Rule("idor-order-invoice", <<Page("/invoice"), Leak("order-secret")>>),
     Rule("idor-giftcard-balance",
          <<Page("/api/v2/giftcards/"), Leak("giftcard-secret")>>),
     Rule("idor-wishlist", <<Page("/retail/wishlist"), Leak("wishlist-secret")>>),
     Rule("multi-tenant-leak", <<Page("/orgs/"), Leak("order-secret")>>),
     Rule("sensitive-data-exposure-api",
          <<Page("/api/v2/users/"), Page("names pw_md5"), Leak("user-secret")>>),
     Rule("plaintext-password-storage", <<Leak("password digest")>>),
     Rule("api-improper-inventory-v1", <<Page("/api/v1/"), Leak(AnyKind)>>),
     Rule("forced-browsing-reports", <<Page("/reports/"), Leak("order-secret")>>),
     Rule("graphql-bola", <<Page("/graphql"), Leak("user-secret")>>),
     Rule("graphql-introspection", <<Page("/graphql"), Leak(AnyKind)>>),
     Rule("graphql-sql-injection",
          <<Page("/graphql"),
            Tap("sql.exec", <<"raw", "names products", "odd quoting">>)>>)}

(* Configuration and components.                                            *)
ConfigRules ==
    {Rule("debug-endpoint-exposure", <<Page("/debug"), Leak("debug")>>),
     Rule("verbose-error-stacktrace", <<Page("5xx"), Leak("debug")>>),
     Rule("exposed-backup-source", <<Page("/.env or /backup.zip"), Leak("env")>>),
     Rule("cloud-storage-public-listing", <<Page("/assets"), Leak("planted")>>),
     Rule("secrets-in-js", <<Page("/api/v2/keycheck"), Sent("js-key")>>),
     Rule("known-cve-dependency", <<Leak("cve")>>),
     Rule("web-cache-deception", <<Tap("cache.store", <<"hit">>), Leak("user-secret")>>),
     Rule("web-cache-poisoning",
          <<Page("/cached-home"),
            Tap("cache.store", <<"hit", "not keyed on header">>), Page("content-type"), Page("no 169 in body")>>),
     Rule("api-websocket-auth",
          <<Tap("ws.message", <<"not authenticated", "origin">>),
            Leak("user-secret")>>)}

(* Remaining interpreters.                                                  *)
QueryRules ==
    {Rule("nosql-search-injection", <<Tap("nosql.find", <<"operators">>)>>),
     Rule("nosql-login-bypass",
          <<Tap("auth.result", <<"ok", "password not verified",
                                 "by document-store">>), Tap("nosql.find", <<"operators">>)>>),
     Rule("ldap-injection",
          <<Tap("ldap.search", <<"arg", "odd filter">>), Leak("planted")>>),
     Rule("orm-injection",
          <<Page("/api/v2/products"), Tap("sql.exec", <<"raw", "no error">>),
            Leak("product-secret")>>),
     Rule("sqli-second-order", <<Page("/admin/report"), Leak("user-secret")>>),
     Rule("graphql-batching-dos",
          <<Tap("obj.assign", <<"is graphql.query", "many or deep">>)>>)}

(* Logins and sessions.                                                     *)
AuthRules ==
    {Rule("sqli-login-bypass",
          <<Tap("auth.result", <<"ok", "password not verified", "by password">>),
            Tap("sql.exec", <<"raw">>)>>),
     Rule("default-creds-admin",
          <<Tap("auth.result", <<"ok", "password_verified",
                                 "default account or admin">>)>>),
     Rule("credential-stuffing-no-lockout",
          <<Tap("auth.result", <<"six failures", "not locked">>)>>),
     Rule("mfa-bypass-skip-step",
          <<Tap("auth.result", <<"by mfa", "ok", "steps missing">>)>>),
     Rule("session-fixation",
          <<Tap("auth.result", <<"ok", "adopted_sid", "not rotated">>)>>),
     Rule("weak-session-token",
          <<Tap("auth.result", <<"by remember-cookie", "ok", "unsigned",
                                 "stranger">>)>>),
     Rule("password-reset-predictable-token",
          <<Page("/retail/reset"),
            Tap("auth.result", <<"by reset-token", "ok">>)>>),
     Rule("jwt-alg-none", <<Tap("auth.result", <<"by jwt", "ok", "alg-none">>)>>),
     Rule("jwt-kid-injection",
          <<Tap("auth.result", <<"by jwt", "ok", "kid-injection">>)>>),
     Rule("jwt-weak-secret",
          <<Tap("auth.result", <<"by jwt", "ok", "hs256", "claims admin",
                                 "stored otherwise">>)>>)}

(* Findings that hand out a capability.                                     *)
ExecutionRules ==
    {Rule("python-pickle-rce", <<Tap("deser.load", <<"pickle", "calls">>)>>),
     Rule("file-inclusion-rce", <<Tap("tmpl.render", <<"from_path", "escaped root">>)>>),
     Rule("file-upload-webshell",
          <<Tap("tmpl.render", <<"stored_upload", "has expression",
                                 "result differs">>)>>),
     Rule("zip-slip-import", <<Tap("archive.extract", <<"escaped root">>)>>),
     Rule("code-injection-coupon",
          <<Tap("code.eval", <<"source", "reaches builtins">>)>>),
     Rule("ssti-jinja-giftmessage",
          <<Tap("tmpl.render", <<"not from path", "has expression",
                                 "result differs">>)>>),
     Rule("os-command-injection",
          <<Tap("proc.exec", <<"shell", "extra output", "odd argument">>)>>),
     Rule("blind-command-injection",
          <<Tap("proc.exec", <<"shell", "no stdout returned", "odd argument">>)>>)}

(* Files and paths, from the app's reports.                                 *)
FileRules ==
    {Rule("path-traversal-invoice", <<Tap("fs.read", <<"escaped root", "found">>)>>),
     Rule("xxe-xml-import",
          <<Tap("xml.parse", <<"external_entities">>), Leak("xxe-file")>>),
     Rule("xxe-svg-upload",
          <<Tap("xml.parse", <<"external_entities", "from svg">>),
            Leak("xxe-file")>>),
     Rule("unrestricted-upload-type",
          <<Tap("obj.assign", <<"is uploads", "declared an image",
                                "other extension">>)>>)}

(* Fetches by the app.                                                      *)
CloudMetadataLeakFirst == Leak("iam") \o Tap("net.fetch", <<"metadata address">>)
CloudMetadata == Tap("net.fetch", <<"metadata address">>) \o Leak("iam")

FetchRules ==
    {Rule("ssrf-basic", <<Tap("net.fetch", <<"internal target", "not blocked">>)>>),
     Rule("ssrf-cloud-metadata", <<CloudMetadata>>),
     Rule("ssrf-filter-bypass",
          <<Tap("net.fetch", <<"internal target", "not blocked", "other host">>)>>),
     Rule("ssrf-blind-webhook",
          <<Page("/webhook"), Tap("net.fetch", <<"internal target">>)>>),
     Rule("api-unsafe-consumption",
          <<Page("/fx-sync"), Tap("net.fetch", <<"internal target">>)>>)}

(* Business logic.                                                          *)
BusinessRules ==
    {Rule("coupon-reuse",
          <<Tap("coupon.redeem", <<"single_use", "prior redemptions">>)>>),
     Rule("price-tampering-negative", <<Tap("order.total", <<"negative subtotal">>)>>),
     Rule("integer-overflow-total",
          <<Tap("order.total", <<"total is not the product">>)>>),
     Rule("workflow-bypass-payment",
          <<Tap("order.finalize", <<"confirmed", "step missing">>)>>),
     Rule("referral-self-credit",
          <<Tap("obj.assign", <<"is referrals.redeemed_by", "owner redeems",
                                "redeemer_uid">>)>>),
     Rule("rate-limit-bypass",
          <<Tap("obj.assign", <<"is ratelimit", "five buckets",
                                "ten attempts">>)>>)}

(* API and protocol.                                                        *)
ApiRules ==
    {Rule("mass-assignment-role",
          <<Tap("obj.assign", <<"is users", "changed", "now privileged">>)>>),
     Rule("bfla-admin-promote",
          <<Tap("obj.assign", <<"is users.role", "privileged",
                                "caller not admin">>)>>),
     Rule("logging-monitoring-gap",
          <<Tap("obj.assign", <<"is users.role", "privileged", "no audit row">>)>>),
     Rule("http-method-tampering",
          <<Page("PUT or HEAD"),
            Tap("obj.assign", <<"is flags", "not guarded">>)>>),
     Rule("rest-verb-tampering",
          <<Tap("obj.assign", <<"is products.listed", "method differs",
                                "not authorized">>)>>),
     Rule("prototype-pollution",
          <<Tap("obj.assign", <<"is prefs.defaults", "prototype key",
                                "not filtered">>)>>),
     Rule("api-unrestricted-resource",
          <<Page("/api/v2/products"), Page("limit"), Leak("product-secret")>>)}

(* Remaining client side and cryptography.                                  *)
CryptoRules ==
    {Rule("csrf-change-email",
          <<Tap("obj.assign", <<"is users.email", "cross_site", "no csrf token",
                                "csrf requirement known">>)>>),
     Rule("csp-bypass", <<Page("/promo"), Page("reflects markup"), Page("weak csp")>>),
     Rule("postmessage-abuse",
          <<Page("msg"), Page("msg is active"), Page("msg reflected")>>),
     Rule("oauth-redirect-abuse",
          <<Page("redirect_uri"), Page("external redirect_uri"),
            Page("redirects there")>>),
     Rule("host-header-poisoning",
          <<Headers,
            Tap("token.issue", <<"host from header", "link", "host in link", "odd host">>)>>),
     Rule("weak-randomness-token", <<Tap("token.issue", <<"promo-claim", "matched">>)>>),
     Rule("hash-length-extension",
          <<Tap("auth.result", <<"by mac-cookie", "ok", "role=admin">>)>>),
     Rule("padding-oracle", <<Page("/retail/coupon/decrypt"), Probed>>)}

AllRules ==
    SqlRules \cup InterpreterRules \cup ClientSideRules \cup PathRules \cup AccessRules
    \cup ConfigRules \cup QueryRules \cup AuthRules \cup ExecutionRules \cup FileRules
    \cup FetchRules \cup BusinessRules \cup ApiRules \cup CryptoRules

(* Facts the rules get by searching, comparing or taking apart a value of   *)
(* the payload, which raises for a value of another type.                   *)
InspectedFacts ==
    {"has union", "names secret", "compares", "slow", "adds recipients",
     "has line break", "is markup", "names products", "odd quoting",
     "odd filter", "many or deep", "six failures", "default account or admin",
     "steps missing", "calls", "escaped root", "has expression",
     "reaches builtins", "extra output", "odd argument", "declared an image",
     "internal target", "prior redemptions", "negative subtotal",
     "total is not the product", "step missing", "five buckets", "ten attempts",
     "prototype key", "host in link", "role=admin", "stranger"}

=============================================================================
