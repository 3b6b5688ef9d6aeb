--------------------------- MODULE SiteConfiguration ---------------------------
(***************************************************************************)
(* The build configuration of the documentation site, gh-page/config: Node *)
(* modules that read process.env while they are loaded, and the functions  *)
(* that make a webpack and a dev-server configuration of what was read.    *)
(*                                                                         *)
(* Node runs a module when it is first required and then serves it from a  *)
(* cache, so what a module has read depends on who required what before.   *)
(* env.js changes process.env in the middle of that, and takes paths.js    *)
(* out of the cache.                                                       *)
(***************************************************************************)
EXTENDS Naturals, Sequences

CONSTANTS
  Projects,   \* what a checkout and the shell around it may look like
  Unset,      \* an environment variable, or a field of package.json, that is not there
  Null

VARIABLES
  project,    \* this checkout
  env,        \* process.env
  stack,      \* modules being loaded, the innermost first, and their next require
  cache,      \* require.cache
  served,     \* PUBLIC_URL as the cached instance of paths.js read it
  paths,      \* per module: the instance of paths.js it holds, told by its PUBLIC_URL
  late,       \* modules whose loading began when env.js had been loaded
  folders,    \* additionalModulePaths of modules.js
  aliases,    \* webpackAliases of modules.js
  switches,   \* shouldUseSourceMap and shouldInlineRuntimeChunk of webpack.config.js
  bundle,     \* the webpack configuration
  thrown      \* a module threw while it was loaded

loading == <<stack, cache, served, paths, late>>
vars == <<project, env, loading, folders, aliases, switches, bundle, thrown>>

Modules == {"paths", "env", "modules", "webpack", "devServer"}

\* slip: paths.js requires env.js, to have read the .env files
PathsRequireEnv ==
  [paths |-> <<"env">>, env |-> <<"paths">>, modules |-> <<"paths">>,
   webpack |-> <<"paths", "modules", "env">>, devServer |-> <<"paths">>]

\* The modules of its own each module requires, in order, before it does
\* anything else.
Requires ==
  [paths |-> <<>>, env |-> <<"paths">>, modules |-> <<"paths">>,
   webpack |-> <<"paths", "modules", "env">>, devServer |-> <<"paths">>]

Variables ==
  {"NODE_ENV", "PUBLIC_URL", "NODE_PATH", "GENERATE_SOURCEMAP", "INLINE_RUNTIME_CHUNK",
   "REACT_APP_X"}

DotenvFile == {"mode.local", "mode", "local", "plain"}

\* A url path: what is before a trailing slash, and whether there is one.
Url(path, slash) == [path |-> path, slash |-> slash]

UrlOrUnset(url) ==
  url # Unset => url.slash \in BOOLEAN /\ url = Url(url.path, url.slash)

ASSUME ProjectsFit ==
  \A p \in Projects :
    /\ p.shell.NODE_ENV \in {"production", "development", "test", Unset}
    /\ DOMAIN p.shell = Variables
    /\ DOMAIN p.dotenv = DotenvFile
    /\ UrlOrUnset(p.homepage) /\ UrlOrUnset(p.shell["PUBLIC_URL"])
    /\ \A f \in DotenvFile : UrlOrUnset(p.dotenv[f]["PUBLIC_URL"])

\* State and type of the variables; no module is loaded twice at a time, or
\* again when it is cached.
TypeOK ==
  /\ project \in Projects
  /\ cache \subseteq Modules /\ late \subseteq Modules
  /\ \A i \in 1 .. Len(stack) :
       stack[i].module \in Modules \ cache /\ stack[i].next \in 1 .. Len(Requires[stack[i].module]) + 1
  /\ \A i, j \in 1 .. Len(stack) : stack[i].module = stack[j].module => i = j
  /\ switches \in [maps : BOOLEAN, inline : BOOLEAN]
  /\ thrown \in BOOLEAN

Init ==
  /\ project \in Projects
  /\ env = project.shell
  /\ stack = <<>>
  /\ cache = {}
  /\ served = Null
  /\ paths = [m \in Modules |-> Null]
  /\ late = {}
  /\ folders = Null
  /\ aliases = {}
  /\ switches = [maps |-> TRUE, inline |-> TRUE]
  /\ bundle = Null
  /\ thrown = FALSE

-----------------------------------------------------------------------------
(* Loading: require. *)

Begin(m) == stack' = <<[module |-> m, next |-> 1]>> \o stack

Top == stack[1].module

\* Whoever runs the build requires the modules in an order of his own.
Require(m) ==
  /\ stack = <<>> /\ ~thrown
  /\ m \notin cache
  /\ Begin(m)
  /\ late' = IF "env" \in cache THEN late \cup {m} ELSE late
  /\ UNCHANGED <<project, env, cache, served, paths, folders, aliases, switches, bundle, thrown>>

\* The module being loaded requires another: from the cache, or that one first.
RequireNext ==
  /\ stack # <<>>
  /\ stack[1].next <= Len(Requires[Top])
  /\ LET d == Requires[Top][stack[1].next] IN
     IF d \in cache
     THEN /\ stack' = [stack EXCEPT ![1].next = @ + 1]
          /\ paths' = IF d = "paths" THEN [paths EXCEPT ![Top] = served] ELSE paths
          /\ UNCHANGED late
     ELSE /\ Begin(d)
          /\ late' = IF "env" \in cache THEN late \cup {d} ELSE late
          /\ UNCHANGED paths
  /\ UNCHANGED <<project, env, cache, served, folders, aliases, switches, bundle, thrown>>

\* All requires are done and the body of m runs.
Runs(m) == stack # <<>> /\ Top = m /\ stack[1].next > Len(Requires[m])

Loaded(m) ==
  /\ stack' = Tail(stack)
  /\ UNCHANGED <<project, late, bundle, thrown>>

\* An exception leaves every module that is being loaded.
Throw ==
  /\ stack' = <<>>
  /\ thrown' = TRUE
  /\ UNCHANGED <<project, env, served, paths, late, folders, aliases, switches, bundle>>

-----------------------------------------------------------------------------
(* paths.js *)

EmptyUrl == Url("", FALSE)

\* slip: a slash is taken off where none is needed, and never added
OnlyStrip(url, needsSlash) == IF needsSlash THEN url ELSE [url EXCEPT !.slash = FALSE]

EnsureSlash(url, needsSlash) == [url EXCEPT !.slash = needsSlash]

\* JavaScript's ||: an empty string counts as none.
Given(url) == url # Unset /\ url # EmptyUrl

\* The pathname of `homepage' is used when there is no PUBLIC_URL.
ServedPath(publicUrl) ==
  EnsureSlash(CASE Given(publicUrl) -> publicUrl
                [] ~Given(publicUrl) /\ Given(project.homepage) -> project.homepage
                [] OTHER -> Url("", TRUE),
              TRUE)

LoadPaths ==
  /\ Runs("paths")
  /\ served' = env.PUBLIC_URL
  /\ cache' = cache \cup {"paths"}
  /\ Loaded("paths")
  /\ UNCHANGED <<env, paths, folders, aliases, switches>>

-----------------------------------------------------------------------------
(* env.js *)

\* .env.local is left out of tests.
DotenvFiles ==
  IF env.NODE_ENV = "test"
  THEN <<"mode.local", "mode", "plain">>
  ELSE <<"mode.local", "mode", "local", "plain">>

\* slip: the more general file is read first
PlainFirst(v) ==
  IF project.dotenv["plain"][v] # Unset THEN project.dotenv["plain"][v]
  ELSE project.dotenv["mode"][v]

\* What the first file that mentions v says.  dotenv sets no variable twice.
FromFiles(v) ==
  LET saying == {k \in DOMAIN DotenvFiles : project.dotenv[DotenvFiles[k]][v] # Unset}
      first == CHOOSE k \in saying : \A j \in saying : k <= j
  IN IF saying = {} THEN Unset ELSE project.dotenv[DotenvFiles[first]][v]

\* slip: absolute folders are kept
EveryFolder(list) == list

\* Only relative folders of NODE_PATH are kept, and resolved.
RelativeFolders(list) ==
  LET relative == SelectSeq(list, LAMBDA f : f.kind = "relative")
  IN [k \in 1 .. Len(relative) |-> [name |-> relative[k].name, kind |-> "resolved"]]

FoldersOf(value) == IF value = Unset THEN <<>> ELSE value

\* slip: what paths.js has read stays in the cache
KeepPaths(modules) == modules \cup {"env"}

\* Whoever requires paths.js from now on runs it again.
ForgetPaths(modules) == (modules \ {"paths"}) \cup {"env"}

LoadEnv ==
  LET read == [v \in Variables |-> IF env[v] # Unset THEN env[v] ELSE FromFiles(v)] IN
  /\ Runs("env")
  /\ env.NODE_ENV # Unset
  /\ env' = [read EXCEPT !.NODE_PATH = RelativeFolders(FoldersOf(@))]
  /\ cache' = ForgetPaths(cache)
  /\ Loaded("env")
  /\ UNCHANGED <<served, paths, folders, aliases, switches>>

NodeEnvMissing ==
  /\ Runs("env")
  /\ env.NODE_ENV = Unset
  /\ cache' = cache \ {"paths"}
  /\ Throw

\* getClientEnvironment: what the site's code gets to see of the environment.
ClientEnvironment(publicUrl) ==
  [v \in {"NODE_ENV", "PUBLIC_URL"} \cup {x \in {"REACT_APP_X"} : env[x] # Unset} |->
     IF v = "PUBLIC_URL" THEN publicUrl
     ELSE IF v = "NODE_ENV" /\ env[v] = Unset THEN "development" ELSE env[v]]

-----------------------------------------------------------------------------
(* modules.js *)

\* Without a baseUrl the folders of NODE_PATH are searched, whatever they are by now.
AdditionalModulePaths(baseUrl) ==
  CASE baseUrl = Unset -> FoldersOf(env.NODE_PATH)
    [] baseUrl = "src" -> <<[name |-> "src", kind |-> "resolved"]>>
    [] OTHER -> Null

WebpackAliases(baseUrl) == IF baseUrl = "." THEN {"src"} ELSE {}

\* compilerOptions.baseUrl counts only if there is a file to say so.
BaseUrl == IF project.tsconfig \/ project.jsconfig THEN project.baseUrl ELSE Unset

\* node_modules, src and the root, which "" is as well, are all baseUrl may be,
\* and there may be only one of tsconfig.json and jsconfig.json.
ModulesFit ==
  /\ BaseUrl \in {Unset, "", ".", "src", "node_modules"}
  /\ ~(project.tsconfig /\ project.jsconfig)

LoadModules ==
  /\ Runs("modules")
  /\ ModulesFit
  /\ folders' = AdditionalModulePaths(BaseUrl)
  /\ aliases' = WebpackAliases(BaseUrl)
  /\ cache' = cache \cup {"modules"}
  /\ Loaded("modules")
  /\ UNCHANGED <<env, served, paths, switches>>

ModulesDoNotFit ==
  /\ Runs("modules")
  /\ ~ModulesFit
  /\ Throw
  /\ UNCHANGED cache

-----------------------------------------------------------------------------
(* webpack.config.js and webpackDevServer.config.js *)

\* slip: the switch is read from the shell, before env.js has run
ShellSwitch(v) == project.shell[v] # "false"

Switch(v) == env[v] # "false"

LoadWebpack ==
  /\ Runs("webpack")
  /\ switches' = [maps |-> Switch("GENERATE_SOURCEMAP"), inline |-> Switch("INLINE_RUNTIME_CHUNK")]
  /\ cache' = cache \cup {"webpack"}
  /\ Loaded("webpack")
  /\ UNCHANGED <<env, served, paths, folders, aliases>>

LoadDevServer ==
  /\ Runs("devServer")
  /\ cache' = cache \cup {"devServer"}
  /\ Loaded("devServer")
  /\ UNCHANGED <<env, served, paths, folders, aliases, switches>>

=============================================================================
