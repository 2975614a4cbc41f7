--------------------------- MODULE RrcMobilityIes --------------------------
(***************************************************************************)
(* RRC information elements of 36.331 section 6.3.4: cells, carriers, PLMN *)
(* identities, cell reselection and mobility.                              *)
(* One layout per function, named without the prefix liblte_rrc_.  Numbers *)
(* in Is, Arm and Enum are values and sizes of enumerations of liblte_rrc.h. *)
(***************************************************************************)
EXTENDS RrcRadioIes

pack_additional_spectrum_emission_ie == <<Bias("", 5, -1)>>

unpack_additional_spectrum_emission_ie == <<Bias("", 5, -1)>>

pack_arfcn_value_cdma2000_ie == <<Fld("", 11)>>

unpack_arfcn_value_cdma2000_ie == <<Fld("", 11)>>

pack_arfcn_value_eutra_ie == <<Fld("", 16)>>

unpack_arfcn_value_eutra_ie == <<Fld("", 16)>>

pack_arfcn_value_geran_ie == <<Fld("", 10)>>

unpack_arfcn_value_geran_ie == <<Fld("", 10)>>

pack_arfcn_value_utra_ie == <<Fld("", 14)>>

unpack_arfcn_value_utra_ie == <<Fld("", 14)>>

pack_band_class_cdma2000_ie == <<Fill(0, 1), Fld("", 5)>>

unpack_band_class_cdma2000_ie == <<Skip(1), Fld("", 5)>>

pack_band_indicator_geran_ie == <<Fld("", 1)>>

unpack_band_indicator_geran_ie == <<Fld("", 1)>>

pack_carrier_freq_cdma2000_ie ==
  <<Sub("bandclass", pack_band_class_cdma2000_ie), Sub("arfcn", pack_arfcn_value_cdma2000_ie)>>

unpack_carrier_freq_cdma2000_ie ==
  <<Sub("bandclass", unpack_band_class_cdma2000_ie), Sub("arfcn", unpack_arfcn_value_cdma2000_ie)>>

pack_carrier_freq_geran_ie ==
  <<Sub("arfcn", pack_arfcn_value_geran_ie), Sub("band_indicator", pack_band_indicator_geran_ie)>>

unpack_carrier_freq_geran_ie ==
  <<Sub("arfcn", unpack_arfcn_value_geran_ie),
    Sub("band_indicator", unpack_band_indicator_geran_ie)>>

pack_carrier_freqs_geran_ie ==
  <<Sub("starting_arfcn", pack_arfcn_value_geran_ie),
    Sub("band_indicator", pack_band_indicator_geran_ie), Enum("following_arfcns", 2, 3),
    Switch("following_arfcns",
      <<Arm({0},
          <<Cnt("explicit_list_of_arfcns_size", 5, 0),
            Each("explicit_list_of_arfcns_size", "explicit_list_of_arfcns",
              <<Sub("", pack_arfcn_value_geran_ie)>>)>>),
        Arm({1},
          <<Bias("equally_spaced_arfcns.arfcn_spacing", 3, -1),
            Fld("equally_spaced_arfcns.number_of_arfcns", 5)>>)>>,
      <<Fld("variable_bit_map_of_arfcns", 16)>>)>>

unpack_carrier_freqs_geran_ie ==
  <<Sub("starting_arfcn", unpack_arfcn_value_geran_ie),
    Sub("band_indicator", unpack_band_indicator_geran_ie), Enum("following_arfcns", 2, 3),
    Switch("following_arfcns",
      <<Arm({0},
          <<Cnt("explicit_list_of_arfcns_size", 5, 0),
            Each("explicit_list_of_arfcns_size", "explicit_list_of_arfcns",
              <<Sub("", unpack_arfcn_value_geran_ie)>>)>>),
        Arm({1},
          <<Bias("equally_spaced_arfcns.arfcn_spacing", 3, -1),
            Fld("equally_spaced_arfcns.number_of_arfcns", 5)>>)>>,
      <<Fld("variable_bit_map_of_arfcns", 16)>>)>>

pack_cdma2000_type_ie == <<Fld("", 1)>>

unpack_cdma2000_type_ie == <<Fld("", 1)>>

pack_cell_identity_ie == <<Fld("", 28)>>

unpack_cell_identity_ie == <<Fld("", 28)>>

pack_cell_index_list_ie ==
  <<Cnt("N_cell_idx", 5, -1), Each("N_cell_idx", "cell_idx", <<Bias("", 5, -1)>>)>>

unpack_cell_index_list_ie ==
  <<Cnt("N_cell_idx", 5, -1), Each("N_cell_idx", "cell_idx", <<Bias("", 5, -1)>>)>>

pack_cell_reselection_priority_ie == <<Fld("", 3)>>

unpack_cell_reselection_priority_ie == <<Fld("", 3)>>

pack_csfb_registration_param_1xrtt_ie ==
  <<Fld("sid", 15), Fld("nid", 16),
    Flags(<<"multiple_sid", "multiple_nid", "home_reg", "foreign_sid_reg", "foreign_nid_reg",
      "param_reg", "power_up_reg">>),
    Fld("reg_period", 7), Fld("reg_zone", 12), Fld("total_zone", 3), Fld("zone_timer", 3)>>

unpack_csfb_registration_param_1xrtt_ie ==
  <<Fld("sid", 15), Fld("nid", 16),
    Flags(<<"multiple_sid", "multiple_nid", "home_reg", "foreign_sid_reg", "foreign_nid_reg",
      "param_reg", "power_up_reg">>),
    Fld("reg_period", 7), Fld("reg_zone", 12), Fld("total_zone", 3), Fld("zone_timer", 3)>>

pack_csfb_registration_param_1xrtt_v920_ie == <<Enum("power_down_reg", 1, 1)>>

unpack_csfb_registration_param_1xrtt_v920_ie == <<Enum("power_down_reg", 1, 1)>>

pack_plmn_identity_ie ==
  <<Fill(1, 1), Digits("mcc", <<100, 10, 1>>),
    Case(Above("mnc", 65279), <<Fill(0, 1), Digits("mnc", <<10, 1>>)>>,
      <<Fill(1, 1), Digits("mnc", <<100, 10, 1>>)>>)>>

pack_cell_global_id_eutra_ie ==
  <<Sub("plmn_id", pack_plmn_identity_ie), Sub("cell_id", pack_cell_identity_ie)>>

unpack_plmn_identity_ie ==
  <<Fld("mcc_opt", 1),
    Case(On("mcc_opt"), <<Digits("mcc", <<100, 10, 1>>)>>, <<Put("mcc", 65535)>>),
    Bias("mnc_size", 1, -2),
    Case(Is("mnc_size", 2), <<Digits("mnc", <<10, 1>>)>>, <<Digits("mnc", <<100, 10, 1>>)>>)>>

unpack_cell_global_id_eutra_ie ==
  <<Sub("plmn_id", unpack_plmn_identity_ie), Sub("cell_id", unpack_cell_identity_ie)>>

pack_cell_global_id_utra_ie == <<Sub("plmn_id", pack_plmn_identity_ie), Fld("cell_id", 28)>>

unpack_cell_global_id_utra_ie == <<Sub("plmn_id", unpack_plmn_identity_ie), Fld("cell_id", 28)>>

pack_cell_global_id_geran_ie ==
  <<Sub("plmn_id", pack_plmn_identity_ie), Fld("lac", 16), Fld("cell_id", 16)>>

unpack_cell_global_id_geran_ie ==
  <<Sub("plmn_id", unpack_plmn_identity_ie), Fld("lac", 16), Fld("cell_id", 16)>>

pack_cell_global_id_cdma2000_ie ==
  <<Fld("onexrtt.hi", 32), Fld("onexrtt.lo", 15), Fld("hrpd[0]", 32), Fld("hrpd[1]", 32),
    Fld("hrpd[2]", 32), Fld("hrpd[3]", 32)>>

unpack_cell_global_id_cdma2000_ie ==
  <<Fld("onexrtt.hi", 32), Fld("onexrtt.lo", 15), Fld("hrpd[0]", 32), Fld("hrpd[1]", 32),
    Fld("hrpd[2]", 32), Fld("hrpd[3]", 32)>>

pack_csg_identity_ie == <<Fld("", 27)>>

unpack_csg_identity_ie == <<Fld("", 27)>>

pack_phys_cell_id_ie == <<Fld("", 9)>>

pack_mobility_control_info_ie ==
  <<Fill(0, 1),
    Flags(<<"carrier_freq_eutra_present", "carrier_bw_eutra_present", "add_spect_em_present",
      "rach_cnfg_ded_present">>),
    Sub("target_pci", pack_phys_cell_id_ie),
    When(On("carrier_freq_eutra_present"),
      <<Fld("carrier_freq_eutra.ul_carrier_freq_present", 1),
        Sub("carrier_freq_eutra.dl_carrier_freq", pack_arfcn_value_eutra_ie),
        When(On("carrier_freq_eutra.ul_carrier_freq_present"),
          <<Sub("carrier_freq_eutra.ul_carrier_freq", pack_arfcn_value_eutra_ie)>>)>>),
    When(On("carrier_bw_eutra_present"),
      <<Fld("carrier_bw_eutra.ul_bw_present", 1), Fld("carrier_bw_eutra.dl_bw", 4),
        When(On("carrier_bw_eutra.ul_bw_present"), <<Fld("carrier_bw_eutra.ul_bw", 4)>>)>>),
    When(On("add_spect_em_present"), <<Sub("add_spect_em", pack_additional_spectrum_emission_ie)>>),
    Fld("t304", 3), Sub("new_ue_id", pack_c_rnti_ie),
    Sub("rr_cnfg_common", pack_rr_config_common_ie),
    When(On("rach_cnfg_ded_present"), <<Sub("rach_cnfg_ded", pack_rach_config_dedicated_ie)>>)>>

unpack_phys_cell_id_ie == <<Fld("", 9)>>

unpack_mobility_control_info_ie ==
  <<Skip(1),
    Flags(<<"carrier_freq_eutra_present", "carrier_bw_eutra_present", "add_spect_em_present",
      "rach_cnfg_ded_present">>),
    Sub("target_pci", unpack_phys_cell_id_ie),
    When(On("carrier_freq_eutra_present"),
      <<Fld("carrier_freq_eutra.ul_carrier_freq_present", 1),
        Sub("carrier_freq_eutra.dl_carrier_freq", unpack_arfcn_value_eutra_ie),
        When(On("carrier_freq_eutra.ul_carrier_freq_present"),
          <<Sub("carrier_freq_eutra.ul_carrier_freq", unpack_arfcn_value_eutra_ie)>>)>>),
    When(On("carrier_bw_eutra_present"),
      <<Fld("carrier_bw_eutra.ul_bw_present", 1), Fld("carrier_bw_eutra.dl_bw", 4),
        When(On("carrier_bw_eutra.ul_bw_present"), <<Fld("carrier_bw_eutra.ul_bw", 4)>>)>>),
    When(On("add_spect_em_present"),
      <<Sub("add_spect_em", unpack_additional_spectrum_emission_ie)>>),
    Fld("t304", 3), Sub("new_ue_id", unpack_c_rnti_ie),
    Sub("rr_cnfg_common", unpack_rr_config_common_ie),
    When(On("rach_cnfg_ded_present"), <<Sub("rach_cnfg_ded", unpack_rach_config_dedicated_ie)>>)>>

pack_mobility_state_parameters_ie ==
  <<Fld("t_eval", 3), Fld("t_hyst_normal", 3), Bias("n_cell_change_medium", 4, -1),
    Bias("n_cell_change_high", 4, -1)>>

unpack_mobility_state_parameters_ie ==
  <<Fld("t_eval", 3), Fld("t_hyst_normal", 3), Bias("n_cell_change_medium", 4, -1),
    Bias("n_cell_change_high", 4, -1)>>

pack_phys_cell_id_range_ie ==
  <<Sub("start", pack_phys_cell_id_ie),
    Case(Isnt("range", 16), <<Fill(1, 1), Fld("range", 4)>>, <<Fill(0, 1)>>)>>

unpack_phys_cell_id_range_ie ==
  <<Sub("start", unpack_phys_cell_id_ie), Fld("opt", 1),
    Case(On("opt"), <<Fld("range", 4)>>, <<Put("range", 16)>>)>>

pack_phys_cell_id_cdma2000_ie == <<Fld("", 9)>>

unpack_phys_cell_id_cdma2000_ie == <<Fld("", 9)>>

pack_phys_cell_id_geran_ie == <<Fld("ncc", 3), Fld("bcc", 3)>>

unpack_phys_cell_id_geran_ie == <<Fld("ncc", 3), Fld("bcc", 3)>>

pack_phys_cell_id_utra_fdd_ie == <<Fld("", 9)>>

unpack_phys_cell_id_utra_fdd_ie == <<Fld("", 9)>>

pack_phys_cell_id_utra_tdd_ie == <<Fld("", 7)>>

unpack_phys_cell_id_utra_tdd_ie == <<Fld("", 7)>>

pack_pre_registration_info_hrpd_ie ==
  <<Fld("pre_reg_zone_id_present", 1), Opt(Some("secondary_pre_reg_zone_id_list_size")),
    Fld("pre_reg_allowed", 1), When(On("pre_reg_zone_id_present"), <<Fld("pre_reg_zone_id", 8)>>),
    When(On("secondary_pre_reg_zone_id_list_size"),
      <<Cnt("secondary_pre_reg_zone_id_list_size", 1, -1),
        Each("secondary_pre_reg_zone_id_list_size", "secondary_pre_reg_zone_id_list",
          <<Fld("", 8)>>)>>)>>

unpack_pre_registration_info_hrpd_ie ==
  <<Flags(<<"pre_reg_zone_id_present", "secondary_pre_reg_zone_id_opt", "pre_reg_allowed">>),
    When(On("pre_reg_zone_id_present"), <<Fld("pre_reg_zone_id", 8)>>),
    Case(On("secondary_pre_reg_zone_id_opt"),
      <<Cnt("secondary_pre_reg_zone_id_list_size", 1, -1),
        Each("secondary_pre_reg_zone_id_list_size", "secondary_pre_reg_zone_id_list",
          <<Fld("", 8)>>)>>, <<Put("secondary_pre_reg_zone_id_list_size", 0)>>)>>

pack_q_qual_min_ie == <<Bias("", 5, 34)>>

unpack_q_qual_min_ie == <<Bias("", 5, 34)>>

pack_q_rx_lev_min_ie == <<Scl("", 6, 0, 2, 70)>>

unpack_q_rx_lev_min_ie == <<Scl("", 6, 0, 2, 70)>>

pack_q_offset_range_ie == <<Enum("", 5, 31)>>

unpack_q_offset_range_ie == <<Enum("", 5, 31)>>

pack_q_offset_range_inter_rat_ie == <<Bias("", 5, 15)>>

unpack_q_offset_range_inter_rat_ie == <<Bias("", 5, 15)>>

pack_reselection_threshold_ie == <<Scl("", 5, 0, 2, 0)>>

unpack_reselection_threshold_ie == <<Scl("", 5, 0, 2, 0)>>

pack_reselection_threshold_q_ie == <<Fld("", 5)>>

unpack_reselection_threshold_q_ie == <<Fld("", 5)>>

pack_s_cell_index_ie == <<Bias("", 3, -1)>>

unpack_s_cell_index_ie == <<Bias("", 3, -1)>>

pack_serv_cell_index_ie == <<Fld("", 3)>>

unpack_serv_cell_index_ie == <<Fld("", 3)>>

pack_speed_state_scale_factors_ie == <<Fld("sf_medium", 2), Fld("sf_high", 2)>>

unpack_speed_state_scale_factors_ie == <<Fld("sf_medium", 2), Fld("sf_high", 2)>>

pack_system_time_info_cdma2000_ie ==
  <<Flags(<<"cdma_eutra_sync", "system_time_async">>),
    Case(On("system_time_async"), <<Fld("system_time.hi", 32), Fld("system_time.lo", 17)>>,
      <<Fld("system_time.hi", 32), Fld("system_time.lo", 7)>>)>>

unpack_system_time_info_cdma2000_ie ==
  <<Flags(<<"cdma_eutra_sync", "system_time_async">>),
    Case(On("system_time_async"), <<Fld("system_time.hi", 32), Fld("system_time.lo", 17)>>,
      <<Fld("system_time.hi", 32), Fld("system_time.lo", 7)>>)>>

pack_tracking_area_code_ie == <<Fld("", 16)>>

unpack_tracking_area_code_ie == <<Fld("", 16)>>

pack_t_reselection_ie == <<Fld("", 3)>>

unpack_t_reselection_ie == <<Fld("", 3)>>

============================================================================
