--------------------------------- MODULE Release -------------------------------
(***************************************************************************)
(* From the source tree to a board: scripts/build.sh builds into           *)
(* build/<board>/<profile>/<boot>, tools/fw.py package collects a package  *)
(* in dist/, and flash.sh writes a package to a board.                     *)
(*                                                                         *)
(* The three are commands of their own, run in any order and at the same   *)
(* time.  A build may fail and a command may be interrupted at any step;   *)
(* what it left behind stays for the next one.  west, CMake and esptool    *)
(* are external: a build makes its images one after the other, a rebuild   *)
(* leaves an old image in place until it makes the new one.  A directory is *)
(* removed file by file, in an order that nobody chooses.                  *)
(*                                                                         *)
(* One board is built.  A file is the set of what it holds, {} when it is  *)
(* not there, and a command the set of its progress, {} when none runs.    *)
(* Of a package only the images are kept, and whether there is a manifest.  *)
(***************************************************************************)
EXTENDS Integers

CONSTANTS
  Profile,      \* the build profiles
  Dir,          \* the build directories, [profile, boot]
  Base,         \* the Zephyr checkouts a build may be pointed at
  Key,          \* MCUboot signing keys
  SampleKey,    \* the one bundled with MCUboot, west's default
  MaxBuilds, MaxPackages, MaxFlashes   \* bounds: how often each command is run

BootMode == {"no-mcuboot", "mcuboot"}
BuildMode == {"auto", "pristine", "incremental"}

ASSUME DirAssumption == Dir \subseteq [profile : Profile, boot : BootMode] /\ Dir # {}
ASSUME KeyAssumption == SampleKey \in Key
ASSUME BoundsAssumption == {MaxBuilds, MaxPackages, MaxFlashes} \subseteq Nat

VARIABLES
  out,       \* the build directories: CMakeCache.txt and the images
  build,     \* the running build
  dist,      \* the packages, under dist/
  pack,      \* the running packager
  board,     \* the flash of the board
  flash      \* the running flash.sh

\* History, read by the properties and the bounds only.
VARIABLES
  runs,      \* how often each command was run
  complete,  \* the directories whose last build ran to its end
  torn,      \* the directories whose removal was cut short after CMakeCache.txt
             \* was gone, since they were last emptied or a build completed
  good       \* the board was last flashed, to the end, from a package made of
             \* one complete build

vars == <<out, build, dist, pack, board, flash, runs, complete, torn, good>>

App == [dir : Dir, base : Base]   \* zephyr.bin and its .config
Signed == [app : App, key : Key]                     \* zephyr.signed.bin
Bootloader == [base : Base, key : Key]               \* mcuboot/zephyr/zephyr.bin
Image == {"app", "signed", "bootloader"}

EmptyDir == [cache |-> {}, app |-> {}, signed |-> {}, bootloader |-> {}]
EmptyPackage == [app |-> {}, signed |-> {}, bootloader |-> {}, manifest |-> FALSE,
                 clean |-> FALSE]
BlankBoard == [direct |-> {}, bootloader |-> {}, slot0 |-> {}]

\* A package directory is named by the profile and the boot mode that the packager
\* was asked for, and so is the manifest in it.
Name == [profile : Profile, boot : BootMode]

--------------------------------------------------------------------------------
(* build.sh *)

\* is_default_mcuboot_signing_key compares the content with the keys of MCUboot.
IsSampleKey(key) == key = SampleKey

\* Mutant: a production build needs a key, no matter which.
KeyAllowedExceptSampleCheck(d, given) ==
  d.boot = "mcuboot" /\ d.profile = "production" => given # {}

\* MCUboot builds for production need a key, and not the sample one.
KeyAllowed(d, given) ==
  d.boot = "mcuboot" /\ d.profile = "production" =>
    given # {} /\ \A key \in given : ~IsSampleKey(key)

\* The CMake cache is of another Zephyr checkout.
OtherBase(d, base) == out[d].cache \notin {{}, {base}}

\* Mutant: only a pristine build starts from nothing.
StartsFreshOnRequest(d, mode, base) == mode = "pristine" /\ out[d].cache # {}

\* build.sh removes a directory whose cache is of another Zephyr checkout, west one
\* that it is told to; neither takes a directory without a cache for a build.
StartsFresh(d, mode, base) ==
  OtherBase(d, base) \/ (mode = "pristine" /\ out[d].cache # {})

\* build.sh checks its arguments.  Without a key west signs with the sample
\* key, or with the one that an earlier build left in the CMake cache.
BuildCommand(d, mode, base, given) ==
  /\ build = {}
  /\ runs.build < MaxBuilds
  /\ runs' = [runs EXCEPT !.build = @ + 1]
  /\ KeyAllowed(d, given)
  /\ mode = "incremental" => ~OtherBase(d, base)
  /\ \E key \in IF given = {} THEN Key ELSE given :
       build' = {[dir |-> d, base |-> base, key |-> key, made |-> {},
                  removing |-> StartsFresh(d, mode, base)]}
  /\ complete' = complete \ {d}
  /\ pack' = {[p EXCEPT !.clean = @ /\ p.dir # d] : p \in pack}
  /\ UNCHANGED <<out, dist, board, flash, torn, good>>

\* remove_build_dir: rm -rf takes one file after the other.
RemoveFile ==
  \E b \in build :
    /\ b.removing
    /\ out' \in {[out EXCEPT ![b.dir].cache = {}], [out EXCEPT ![b.dir].app = {}],
                [out EXCEPT ![b.dir].signed = {}], [out EXCEPT ![b.dir].bootloader = {}]}
    /\ out' # out
    /\ UNCHANGED <<runs, build, dist, pack, board, flash, complete, torn, good>>

RemovalEnds ==
  \E b \in build :
    /\ b.removing
    /\ out[b.dir] = EmptyDir
    /\ build' = {[b EXCEPT !.removing = FALSE]}
    /\ torn' = torn \ {b.dir}
    /\ UNCHANGED <<runs, out, dist, pack, board, flash, complete, good>>

\* CMake writes its cache.
Configure ==
  \E b \in build :
    /\ ~b.removing
    /\ out[b.dir].cache # {b.base}
    /\ out' = [out EXCEPT ![b.dir].cache = {b.base}]
    /\ UNCHANGED <<runs, build, dist, pack, board, flash, complete, torn, good>>

\* Mutant: west is given --sysbuild for every build.
NeededWithSysbuild(boot) == Image

Needed(boot) == IF boot = "mcuboot" THEN Image ELSE {"app"}

BuiltApp(b) == [dir |-> b.dir, base |-> b.base]

\* The directory with one more image of build b in it.
WithImage(files, image, b) ==
  CASE image = "app" -> [files EXCEPT !.app = {BuiltApp(b)}]
    [] image = "signed" -> [files EXCEPT !.signed = {[app |-> BuiltApp(b), key |-> b.key]}]
    [] image = "bootloader" ->
         [files EXCEPT !.bootloader = {[base |-> b.base, key |-> b.key]}]

\* One image is linked, or the application signed once it is.
MakeImage(image) ==
  \E b \in build :
    /\ ~b.removing
    /\ out[b.dir].cache = {b.base}
    /\ image \in Needed(b.dir.boot) \ b.made
    /\ image = "signed" => "app" \in b.made
    /\ out' = [out EXCEPT ![b.dir] = WithImage(@, image, b)]
    /\ build' = {[b EXCEPT !.made = @ \cup {image}]}
    /\ UNCHANGED <<runs, dist, pack, board, flash, complete, torn, good>>

BuildCompletes ==
  \E b \in build :
    /\ b.made = Needed(b.dir.boot)
    /\ build' = {}
    /\ complete' = complete \cup {b.dir}
    /\ torn' = torn \ {b.dir}
    /\ UNCHANGED <<runs, out, dist, pack, board, flash, good>>

\* History: a removal that is cut short here leaves files that no cache tells of.
LeavesTorn(b) == b.removing /\ out[b.dir].cache = {} /\ out[b.dir] # EmptyDir

\* The build, or the removal before it, fails or is interrupted.
BuildFails ==
  \E b \in build :
    /\ build' = {}
    /\ torn' = IF LeavesTorn(b) THEN torn \cup {b.dir} ELSE torn
    /\ UNCHANGED <<runs, out, dist, pack, board, flash, complete, good>>

--------------------------------------------------------------------------------
(* fw.py package *)

\* Mutant: for MCUboot, too, only zephyr.bin must be there.
ApplicationPresent(d, boot) == out[d].app # {} /\ (boot = "mcuboot" \/ d.boot = boot)

\* The files create_package asks for.  zephyr.bin is in build/zephyr or, built for
\* MCUboot, in the directory of the application's domain, which falls back to
\* build/zephyr when it is asked for and not there.
ImagesPresent(d, boot) ==
  /\ out[d].app # {}
  /\ boot = "mcuboot" => out[d].signed # {} /\ out[d].bootloader # {}
  /\ boot = "no-mcuboot" => d.boot = "no-mcuboot"

\* discover_build_dirs: what the packager offers when it is not told a directory.
Listed(d) == out[d].app # {}

\* --profile and --boot go before what the name of the build directory says.
\* create_package checks the build and starts from an empty package directory.
PackageCommand(d, profile, boot) ==
  /\ pack = {}
  /\ runs.package < MaxPackages
  /\ runs' = [runs EXCEPT !.package = @ + 1]
  /\ ImagesPresent(d, boot)
  /\ LET name == [profile |-> profile, boot |-> boot]
     IN  /\ dist' = [dist EXCEPT ![name] = EmptyPackage]
         /\ pack' = {[step |-> "app", dir |-> d, name |-> name, clean |-> d \in complete]}
  /\ UNCHANGED <<out, build, board, flash, complete, torn, good>>

\* copy_if_exists, for the three images in the order of create_package.
CopyApp ==
  \E p \in pack :
    /\ p.step = "app"
    /\ dist' = [dist EXCEPT ![p.name].app = out[p.dir].app]
    /\ pack' = {[p EXCEPT !.step = "signed"]}
    /\ UNCHANGED <<runs, out, build, board, flash, complete, torn, good>>

CopySigned ==
  \E p \in pack :
    /\ p.step = "signed"
    /\ dist' = [dist EXCEPT ![p.name].signed = out[p.dir].signed]
    /\ pack' = {[p EXCEPT !.step = "bootloader"]}
    /\ UNCHANGED <<runs, out, build, board, flash, complete, torn, good>>

CopyBootloader ==
  \E p \in pack :
    /\ p.step = "bootloader"
    /\ dist' = [dist EXCEPT ![p.name].bootloader = out[p.dir].bootloader]
    /\ pack' = {[p EXCEPT !.step = "manifest"]}
    /\ UNCHANGED <<runs, out, build, board, flash, complete, torn, good>>

\* The manifest is written after all images; what follows it, the helper script
\* and the checksums, nobody reads when a package is flashed.
WriteManifest ==
  \E p \in pack :
    /\ p.step = "manifest"
    /\ dist' = [dist EXCEPT ![p.name].manifest = TRUE, ![p.name].clean = p.clean]
    /\ pack' = {}
    /\ UNCHANGED <<runs, out, build, board, flash, complete, torn, good>>

PackageInterrupted ==
  /\ pack # {}
  /\ pack' = {}
  /\ UNCHANGED <<runs, out, build, dist, board, flash, complete, torn, good>>

--------------------------------------------------------------------------------
(* flash.sh *)

\* The files of the segments that the manifest of a package lists.
SegmentsPresent(name) ==
  IF name.boot = "mcuboot"
  THEN dist[name].signed # {} /\ dist[name].bootloader # {}
  ELSE dist[name].app # {}

\* flash.sh reads the manifest and checks that the segments are there.
FlashCommand(name) ==
  /\ flash = {}
  /\ runs.flash < MaxFlashes
  /\ runs' = [runs EXCEPT !.flash = @ + 1]
  /\ dist[name].manifest
  /\ SegmentsPresent(name)
  /\ flash' = {[step |-> "open", name |-> name, signed |-> {}, clean |-> FALSE]}
  /\ UNCHANGED <<out, build, dist, pack, board, complete, torn, good>>

Erase ==
  \E f \in flash :
    /\ f.step = "open"
    /\ board' = BlankBoard
    /\ good' = FALSE
    /\ UNCHANGED <<runs, out, build, dist, pack, flash, complete, torn>>

\* esptool opens the files of all segments and writes one after the other.  The
\* bootloader and a directly booted application go to the same offset; the
\* latter reaches into slot 0.
WriteApplication ==
  \E f \in flash :
    /\ f.step = "open"
    /\ f.name.boot = "no-mcuboot"
    /\ SegmentsPresent(f.name)
    /\ board' = [direct |-> dist[f.name].app, bootloader |-> {}, slot0 |-> {}]
    /\ flash' = {}
    /\ good' = dist[f.name].clean
    /\ UNCHANGED <<runs, out, build, dist, pack, complete, torn>>

\* Mutant: of an MCUboot package only the application is written.
SkipBootloader ==
  \E f \in flash :
    /\ f.step = "open"
    /\ f.name.boot = "mcuboot"
    /\ SegmentsPresent(f.name)
    /\ flash' = {[f EXCEPT !.step = "slot0", !.signed = dist[f.name].signed,
                           !.clean = dist[f.name].clean]}
    /\ good' = FALSE
    /\ UNCHANGED <<runs, out, build, dist, pack, board, complete, torn>>

WriteBootloader ==
  \E f \in flash :
    /\ f.step = "open"
    /\ f.name.boot = "mcuboot"
    /\ SegmentsPresent(f.name)
    /\ board' = [board EXCEPT !.direct = {}, !.bootloader = dist[f.name].bootloader]
    /\ flash' = {[f EXCEPT !.step = "slot0", !.signed = dist[f.name].signed,
                           !.clean = dist[f.name].clean]}
    /\ good' = FALSE
    /\ UNCHANGED <<runs, out, build, dist, pack, complete, torn>>

WriteSlot0 ==
  \E f \in flash :
    /\ f.step = "slot0"
    /\ board' = [board EXCEPT !.slot0 = f.signed]
    /\ flash' = {}
    /\ good' = f.clean
    /\ UNCHANGED <<runs, out, build, dist, pack, complete, torn>>

\* esptool fails, a file is gone, or the cable is pulled: nothing was written, or
\* the segment that was being written is of no use.
FlashFails ==
  /\ flash # {}
  /\ flash' = {}
  /\ board' \in {board, [board EXCEPT !.direct = {}, !.bootloader = {}],
                 [board EXCEPT !.slot0 = {}]}
  /\ good' = FALSE
  /\ UNCHANGED <<runs, out, build, dist, pack, complete, torn>>

--------------------------------------------------------------------------------
Init ==
  /\ out = [d \in Dir |-> EmptyDir]
  /\ build = {}
  /\ dist = [name \in Name |-> EmptyPackage]
  /\ pack = {}
  /\ board = BlankBoard
  /\ flash = {}
  /\ runs = [build |-> 0, package |-> 0, flash |-> 0]
  /\ complete = {}
  /\ torn = {}
  /\ good = FALSE

GivenKey == {{}} \cup {{key} : key \in Key}

Next ==
  \/ \E d \in Dir, mode \in BuildMode, base \in Base, given \in GivenKey :
       BuildCommand(d, mode, base, given)
  \/ RemoveFile
  \/ RemovalEnds
  \/ Configure
  \/ \E image \in Image : MakeImage(image)
  \/ BuildCompletes
  \/ BuildFails
  \/ \E d \in Dir, profile \in Profile, boot \in BootMode : PackageCommand(d, profile, boot)
  \/ CopyApp
  \/ CopySigned
  \/ CopyBootloader
  \/ WriteManifest
  \/ PackageInterrupted
  \/ \E name \in Name : FlashCommand(name)
  \/ Erase
  \/ WriteApplication
  \/ WriteBootloader
  \/ WriteSlot0
  \/ FlashFails

Spec == Init /\ [][Next]_vars

--------------------------------------------------------------------------------
(* Properties *)

TypeOK ==
  /\ out \in [Dir -> [cache : SUBSET Base, app : SUBSET App, signed : SUBSET Signed,
                      bootloader : SUBSET Bootloader]]
  /\ \A d \in Dir : d.boot = "no-mcuboot" => out[d].signed = {} /\ out[d].bootloader = {}
  /\ build \subseteq [dir : Dir, base : Base, key : Key,
                      made : SUBSET Image, removing : BOOLEAN]
  /\ dist \in [Name -> [app : SUBSET App, signed : SUBSET Signed,
                        bootloader : SUBSET Bootloader, manifest : BOOLEAN, clean : BOOLEAN]]
  /\ pack \subseteq [step : {"app", "signed", "bootloader", "manifest"}, dir : Dir,
                     clean : BOOLEAN, name : Name]
  /\ board \in [direct : SUBSET App, bootloader : SUBSET Bootloader, slot0 : SUBSET Signed]
  /\ flash \subseteq [step : {"open", "slot0"}, name : Name, signed : SUBSET Signed, clean : BOOLEAN]
  /\ runs \in [build : 0..MaxBuilds, package : 0..MaxPackages, flash : 0..MaxFlashes]
  /\ complete \subseteq Dir
  /\ torn \subseteq Dir
  /\ good \in BOOLEAN

\* No build directory mixes images of two Zephyr checkouts, whatever builds in it
\* failed or were interrupted before.  The one exception is a directory whose
\* removal was interrupted with CMakeCache.txt gone and images left: build.sh:453
\* sees no cache and takes it for a new one.  It lasts until a build completes in
\* the directory or a removal does.
OneBasePerDir ==
  \A d \in Dir \ torn : \A base \in Base : out[d].cache = {base} =>
    /\ \A app \in out[d].app : app.base = base
    /\ \A signed \in out[d].signed : signed.app.base = base
    /\ \A bootloader \in out[d].bootloader : bootloader.base = base

\* docs/release_process.md: production MCUboot builds reject the bundled sample
\* keys.  None is in a production build directory, not even of a failed build.
ProductionKeysAreOwn ==
  \A d \in Dir : d.profile = "production" =>
    /\ \A signed \in out[d].signed : signed.key # SampleKey
    /\ \A bootloader \in out[d].bootloader : bootloader.key # SampleKey

\* A package says MCUboot exactly when its application was built to be started by
\* MCUboot, however the packager was asked for it.
BootModeIsTrue ==
  \A name \in Name : dist[name].manifest => \A app \in dist[name].app : app.dir.boot = name.boot

\* The application in flash starts: directly, or by the bootloader that has its key.
Boots ==
  IF board.bootloader = {}
  THEN \E app \in board.direct : app.dir.boot = "no-mcuboot"
  ELSE \E bootloader \in board.bootloader, signed \in board.slot0 :
         bootloader.key = signed.key

\* A board that flash.sh wrote to the end, from a package made of one complete
\* build, starts; whatever other builds and packages were left halfway, and
\* whatever the board held before.
FlashedBoardBoots == good => Boots

\* docs/packaging.md: package.sh lists the available completed build directories.
ListedBuildsAreCompleted == \A d \in Dir : Listed(d) => d \in complete
================================================================================
