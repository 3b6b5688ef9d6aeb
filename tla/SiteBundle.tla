------------------------------ MODULE SiteBundle ------------------------------
(***************************************************************************)
(* What the function of webpack.config.js makes of what SiteConfiguration  *)
(* has loaded: where the site is served from, what is resolved how, and    *)
(* whether a build emits source maps.                                      *)
(***************************************************************************)
EXTENDS SiteConfiguration

CONSTANT Cut   \* a path that has lost its last character

Modes == {"production", "development"}

\* find and oneOf: the first on the list that is in S, or `none'.
FirstIn(list, S, none) ==
  LET found == {k \in DOMAIN list : list[k] \in S}
  IN IF found = {} THEN none ELSE list[CHOOSE k \in found : \A j \in found : k <= j]

\* publicPath.slice(0, -1)
WithoutLast(url) == IF url.slash THEN [url EXCEPT !.slash = FALSE] ELSE Url(Cut, FALSE)

PublicPath(mode) ==
  IF mode = "production" THEN ServedPath(paths["webpack"]) ELSE Url("", TRUE)

PublicUrl(mode) ==
  IF mode = "production" THEN WithoutLast(PublicPath(mode)) ELSE EmptyUrl

-----------------------------------------------------------------------------
(* Source maps: who makes them or passes them on. *)

StyleRules == {"css", "cssModules", "sass", "sassModules"}

\* The loaders of a style rule that have a say in its source map.
MappingLoaders(rule) ==
  {"css-loader", "postcss-loader"}
    \cup (IF rule \in {"sass", "sassModules"} THEN {"resolve-url-loader", "sass-loader"} ELSE {})

\* getStyleLoaders: the option sourceMap of each loader, which sass-loader is
\* always given.
StyleMaps(mode, rule) ==
  [loader \in MappingLoaders(rule) |->
     loader = "sass-loader" \/ (mode = "production" /\ switches.maps)]

-----------------------------------------------------------------------------
(* The rest of the configuration. *)

Devtool(mode) ==
  CASE mode = "production" /\ switches.maps -> "source-map"
    [] mode = "production" /\ ~switches.maps -> "none"
    [] OTHER -> "cheap-module-source-map"

\* paths.js: the first extension there is, js if there is none.
ModuleFileExtensions ==
  <<"web.mjs", "mjs", "web.js", "js", "web.ts", "ts", "web.tsx", "tsx", "json", "web.jsx", "jsx">>

TypeScriptExtensions == {"web.ts", "ts", "web.tsx", "tsx"}

ResolveModule(there) == FirstIn(ModuleFileExtensions, there, "js")

\* Without TypeScript its extensions are not tried for an import.
Resolve ==
  [folders |-> IF folders = Null THEN <<>> ELSE folders,
   extensions |-> SelectSeq(ModuleFileExtensions,
                            LAMBDA x : project.tsconfig \/ x \notin TypeScriptExtensions),
   aliases |-> aliases]

\* What babel-loader makes of a package never has a map of its own.
PackageMaps == FALSE

InlineRuntimeChunk(mode) == mode = "production" /\ switches.inline

\* module.exports of webpack.config.js, without its lists of rules and plugins.
Bundle(mode) ==
  [mode |-> mode,
   publicPath |-> PublicPath(mode),
   publicUrl |-> PublicUrl(mode),
   client |-> ClientEnvironment(PublicUrl(mode)),
   devtool |-> Devtool(mode),
   entry |-> (IF mode = "development" THEN <<"hotDevClient">> ELSE <<>>)
               \o <<ResolveModule(project.index)>>,
   minified |-> mode = "production",
   minifierMaps |-> switches.maps,
   packageMaps |-> PackageMaps,
   resolve |-> Resolve,
   inline |-> InlineRuntimeChunk(mode),
   styleMaps |-> [rule \in StyleRules |-> StyleMaps(mode, rule)]]

Configure(mode) ==
  /\ stack = <<>> /\ ~thrown
  /\ "webpack" \in cache
  /\ bundle' = Bundle(mode)
  /\ UNCHANGED <<project, env, loading, folders, aliases, switches, thrown>>

-----------------------------------------------------------------------------
Next ==
  \/ \E m \in Modules : Require(m)
  \/ RequireNext
  \/ LoadPaths \/ LoadEnv \/ NodeEnvMissing \/ LoadModules \/ ModulesDoNotFit
  \/ LoadWebpack \/ LoadDevServer
  \/ \E mode \in Modes : Configure(mode)

Spec == Init /\ [][Next]_vars

-----------------------------------------------------------------------------
(* What the comments of the configuration promise. *)

\* "Make sure that including paths.js after env.js will read .env variables"
\* (env.js:6): whoever gets hold of paths.js after that sees the environment
\* the .env files have been added to.
LatePathsFollowEnv ==
  \A m \in late : paths[m] # Null => paths[m] = env.PUBLIC_URL

Strength(f) ==
  CASE f = "mode.local" -> 4 [] f = "mode" -> 3 [] f = "local" -> 2 [] f = "plain" -> 1

Mentions(f, v) == project.dotenv[f][v] # Unset /\ ~(f = "local" /\ env.NODE_ENV = "test")

\* What the shell has set is never modified, the most particular of the .env
\* files wins, and .env.local has no say in tests (env.js:17-31).
DotenvPrecedence ==
  "env" \in cache =>
    \A v \in Variables \ {"NODE_PATH"} :
      /\ project.shell[v] # Unset => env[v] = project.shell[v]
      /\ project.shell[v] = Unset =>
           \A f \in DotenvFile :
             Mentions(f, v) /\ (\A g \in DotenvFile : Mentions(g, v) => Strength(g) <= Strength(f))
             => env[v] = project.dotenv[f][v]

\* "only *relative* paths from NODE_PATH are honored" (env.js:41), for a
\* modules.js that is loaded after env.js.  webpack.config.js loads it before,
\* unless somebody has required env.js earlier.
OnlyRelativeFolders ==
  "modules" \in late /\ "modules" \in cache /\ folders # Null =>
    \A k \in DOMAIN folders : folders[k].kind = "resolved"

\* The most particular of some .env files.
Strongest(files) == CHOOSE f \in files : \A g \in files : Strength(g) <= Strength(f)

\* What counts of v: what the shell says or, if it is silent, the most
\* particular .env file that mentions v.
Counts(v) ==
  LET mentioning == {f \in DotenvFile : Mentions(f, v)}
  IN IF project.shell[v] # Unset THEN project.shell[v]
     ELSE IF mentioning # {} THEN project.dotenv[Strongest(mentioning)][v] ELSE Unset

\* GENERATE_SOURCEMAP=false in the shell or in an .env file, in whatever order
\* the modules were required, leaves a production build no source map: webpack
\* and both minifiers make none, and what sass-loader makes all the same is
\* not passed on.  Otherwise webpack and the minifiers make them and every
\* loader of a style passes its map on (webpack.config.js:35).  Of the scripts
\* of packages they show what Babel has made of them, never their source.
MapsAreSwitchedOff ==
  bundle # Null /\ bundle.mode = "production" =>
    LET wanted == Counts("GENERATE_SOURCEMAP") # "false" IN
    /\ (bundle.devtool = "source-map") = wanted
    /\ bundle.minifierMaps = wanted
    /\ \A rule \in StyleRules :
         (\A loader \in MappingLoaders(rule) : bundle.styleMaps[rule][loader]) = wanted

\* %PUBLIC_URL%/x in the page and process.env.PUBLIC_URL + '/x' in the code
\* are where webpack puts x: the public url has lost the slash that publicPath
\* ends with, and nothing else (webpack.config.js:64-80).
PublicUrlIsPublicPath ==
  bundle # Null =>
    /\ bundle.publicPath.slash
    /\ [bundle.publicUrl EXCEPT !.slash = TRUE] = bundle.publicPath
    /\ bundle.client["PUBLIC_URL"] = bundle.publicUrl

=============================================================================
